---------------------------- MODULE WorkerAgent ----------------------------
(***************************************************************************)
(* AgentBoard and WorkerAgent of Mqtt_bbs_server/bbs.py.  Masters post     *)
(* tasks, cancel them, send commands to their handlers and wait for their  *)
(* outputs; a worker claims a task, runs the handler and completes it, all *)
(* of it in the paho thread, inside the callback of the input.             *)
(*                                                                         *)
(* A method leaves what it has still to do in todo, so that other clients  *)
(* run between two of its calls.  Each message on board/... has a copy on  *)
(* v2/..., which the callbacks treat alike or refuse (an input of v2 has   *)
(* its signature one level too deep): the copies are left out, as are the  *)
(* topics nobody subscribes to (claim, status, stdout, stderr, open).      *)
(***************************************************************************)
EXTENDS Integers, FiniteSets, Sequences, SequencesExt

CONSTANTS
    Masters, Workers,
    Tasks,        \* task ids; post_task's own have 13 characters, and the
                  \* pattern '_' that recovers inputs matches only one
    Capable,      \* pairs <<w, t>>: w has the capability that t needs
    None,
    Budget        \* bound, per behaviour, on messages to one agent, on cancellations,
                  \* on calls of wait and intervene, and on faults: messages the
                  \* rate limiter drops, stops and crashes of workers

Clients == Masters \cup Workers

ASSUME AgentsAssumption ==
    /\ Masters \cap Workers = {}
    /\ IsFiniteSet(Workers) /\ IsFiniteSet(Tasks)
    /\ Capable \subseteq Workers \X Tasks
    /\ None \notin Tasks \cup {"task", "cancel", "end"}
    /\ Budget \in [{"direct", "cancel", "call", "fault"} -> Nat]

VARIABLES
    secret,      \* config.HMAC_SECRET exists (README.md:356; config.py names it
                 \* MQTT_HMAC_SECRET)
    prefixed,    \* TOPIC_PREFIX is not empty: subscriptions to board/ match nothing
    db,          \* retained_messages of board/task/<id>/<kind>, "" read as None
    kept,        \* what the broker retains for the same topics
    node,        \* retained_messages of node/<worker>/status
    callbacks,   \* per client, the topics <<kind, task>> with a callback
    inbox,       \* per client, messages its paho thread has not handled
    todo,        \* per client, what its method has still to do
    main,        \* per worker, where the thread of start() and stop() is
    current,     \* _current_task_id
    commands,    \* _interventions, each by the task it was sent to
    dynamic,     \* _subscribed_dynamic
    wait,        \* per master, the call of wait_task or wait_all
    given,       \* ghost: tasks posted or pushed, once each
    cancelled,   \* ghost: tasks that cancel_task was called for
    heard,       \* ghost: pairs <<t, c>>: the handler of t got a command for
                 \* another task c
    due,         \* ghost: per worker, claims that led to no output yet
    spent        \* what is used up of Budget

Config == <<secret, prefixed>>
Topics == <<db, kept>>
Worker == <<main, current, commands, dynamic>>
Requests == <<given, cancelled>>
vars == <<Config, Topics, node, callbacks, inbox, todo, Worker, wait, Requests, heard,
          due, spent>>

Kinds == {"input", "output", "signal"}

\* An output: the task it is about, the task whose handler made it, and how:
\* "handled" (the handler returned, raised or called complete) or "cancelled".
Output(t, of, how) == [task |-> t, of |-> of, how |-> how]

Pub(k, t, v) == [op |-> "publish", kind |-> k, task |-> t, value |-> v]
Op(op, k, t) == [op |-> op, kind |-> k, task |-> t]

NoResults == [t \in Tasks |-> None]
NoWait == [tasks |-> {}, results |-> NoResults]

Init ==
    /\ secret \in BOOLEAN
    /\ prefixed \in BOOLEAN
    /\ db = [k \in Kinds |-> NoResults]
    /\ kept = [k \in Kinds |-> NoResults]
    /\ node = [w \in Workers |-> "none"]
    /\ callbacks = [c \in Clients |-> {}]
    /\ inbox = [c \in Clients |-> <<>>]
    /\ todo = [c \in Clients |-> <<>>]
    /\ main = [w \in Workers |-> "new"]
    /\ current = [w \in Workers |-> None]
    /\ commands = [w \in Workers |-> {}]
    /\ dynamic = [w \in Workers |-> {}]
    /\ wait = [m \in Masters |-> NoWait]
    /\ given = {} /\ cancelled = {} /\ heard = {}
    /\ due = [w \in Workers |-> 0]
    /\ spent = [k \in DOMAIN Budget |-> 0]

Connected(c) == c \in Masters \/ main[c] \in {"listening", "running", "stopping"}

Spend(k, n) ==
    /\ spent[k] + n <= Budget[k]
    /\ spent' = [spent EXCEPT ![k] = @ + n]

Message(k, t, v) == [kind |-> k, task |-> t, value |-> v]

\* No callback does anything with an empty message or with [ROUND_END].
Heeded(k, v) == v # None /\ (k = "signal" => v = "cancel")

\* The broker hands a message on board/task/<t>/<k> to its subscribers.
Delivered(k, t, v) ==
    [c \in Clients |->
       IF Heeded(k, v) /\ ~prefixed /\ <<k, t>> \in callbacks[c] /\ Connected(c)
         THEN Append(inbox[c], Message(k, t, v)) ELSE inbox[c]]

Advance(c) == todo' = [todo EXCEPT ![c] = Tail(@)]
At(c, op) == todo[c] # <<>> /\ Head(todo[c]).op = op

----------------------------------------------------------------------------
\* publish() of a retained message: the row is written, then the rate limiter
\* asked.
Publish(c, allowed) ==
    /\ At(c, "publish")
    /\ Spend("fault", IF allowed THEN 0 ELSE 1)
    /\ LET p == Head(todo[c]) IN
         /\ db' = [db EXCEPT ![p.kind][p.task] = p.value]
         /\ kept' = IF allowed THEN [kept EXCEPT ![p.kind][p.task] = p.value] ELSE kept
         /\ inbox' = IF allowed THEN Delivered(p.kind, p.task, p.value) ELSE inbox
    /\ Advance(c)
    /\ UNCHANGED <<Config, node, callbacks, Worker, wait, Requests, heard, due>>

\* subscribe(): the callback is entered, then the broker sends what it retains.
Subscribe(c) ==
    /\ At(c, "subscribe")
    /\ LET k == Head(todo[c]).kind
           t == Head(todo[c]).task
           held == IF k \in Kinds THEN kept[k][t] ELSE None
       IN /\ callbacks' = [callbacks EXCEPT ![c] = @ \cup {<<k, t>>}]
          /\ inbox' = IF ~prefixed /\ Heeded(k, held)
                        THEN [inbox EXCEPT ![c] = Append(@, Message(k, t, held))] ELSE inbox
    /\ Advance(c)
    /\ UNCHANGED <<Config, Topics, node, Worker, wait, Requests, heard, due, spent>>

----------------------------------------------------------------------------
(* Masters.                                                                *)

\* post_task(), and post_task_routed() to some agents.  Without the secret
\* post_task raises before it publishes anything.
Post(m, t, targets) ==
    /\ secret
    /\ todo[m] = <<>>
    /\ t \notin given
    /\ Spend("direct", Cardinality(targets))
    /\ given' = given \cup {t}
    /\ \E order \in SetToSeqs(targets) :
         todo' = [todo EXCEPT ![m] =
                    <<Pub("input", t, "task")>> \o [i \in DOMAIN order |->
                            [op |-> "direct", task |-> t, to |-> order[i]]]]
    /\ UNCHANGED <<Config, Topics, node, callbacks, inbox, Worker, wait, cancelled,
                   heard, due>>

\* A task is pushed to one agent with publish() of the board.
Push(m, t, w) ==
    /\ todo[m] = <<>>
    /\ t \notin given
    /\ Spend("direct", 1)
    /\ given' = given \cup {t}
    /\ todo' = [todo EXCEPT ![m] = <<[op |-> "direct", task |-> t, to |-> w]>>]
    /\ UNCHANGED <<Config, Topics, node, callbacks, inbox, Worker, wait, cancelled,
                   heard, due>>

\* The message on node/<worker>/task/input has the prefix on both sides.
Direct(m) ==
    /\ At(m, "direct")
    /\ LET w == Head(todo[m]).to IN
         inbox' = IF main[w] \in {"running", "stopping"}
                    THEN [inbox EXCEPT ![w] = Append(@, Message("direct", Head(todo[m]).task, "task"))]
                    ELSE inbox
    /\ Advance(m)
    /\ UNCHANGED <<Config, Topics, node, callbacks, Worker, wait, Requests, heard, due, spent>>

CancelTask(m, t) ==
    /\ todo[m] = <<>>
    /\ t \in given
    /\ Spend("cancel", 1)
    /\ cancelled' = cancelled \cup {t}
    /\ todo' = [todo EXCEPT ![m] = <<Pub("signal", t, "cancel")>>]
    /\ UNCHANGED <<Config, Topics, node, callbacks, inbox, Worker, wait, given,
                   heard, due>>

\* A command for the handler of t, published on board/task/<t>/intervene.
Intervene(m, t) ==
    /\ todo[m] = <<>>
    /\ t \in given
    /\ Spend("call", 1)
    /\ inbox' = Delivered("intervene", t, "command")
    /\ UNCHANGED <<Config, Topics, node, callbacks, todo, Worker, wait, Requests,
                   heard, due>>

\* [SHUTDOWN] on board/global/signal.
Shutdown(m) ==
    /\ todo[m] = <<>>
    /\ ~prefixed
    /\ Spend("fault", 1)
    /\ inbox' = [c \in Clients |->
                   IF c \in Workers /\ main[c] = "running"
                     THEN Append(inbox[c], Message("global", None, "shutdown")) ELSE inbox[c]]
    /\ UNCHANGED <<Config, Topics, node, callbacks, todo, Worker, wait, Requests, heard,
                   due>>

\* wait_task(t), and wait_all(ts).
Wait(m, ts) ==
    /\ todo[m] = <<>>
    /\ wait[m] = NoWait
    /\ Spend("call", 1)
    /\ \E order \in SetToSeqs(ts) :
         todo' = [todo EXCEPT ![m] =
                    [i \in 1..2 * Len(order) |->
                       Op(IF i % 2 = 1 THEN "subscribe" ELSE "recover", "output",
                          order[(i + 1) \div 2])]]
    /\ wait' = [wait EXCEPT ![m] = [tasks |-> ts, results |-> NoResults]]
    /\ UNCHANGED <<Config, Topics, node, callbacks, inbox, Worker, Requests, heard, due>>

\* on_output(), called by subscribe() with the row of the database ...
RecoverOutput(m) ==
    /\ At(m, "recover")
    /\ LET t == Head(todo[m]).task IN
         wait' = IF db["output"][t] = None THEN wait
                 ELSE [wait EXCEPT ![m].results[t] = db["output"][t]]
    /\ Advance(m)
    /\ UNCHANGED <<Config, Topics, node, callbacks, inbox, Worker, Requests, heard, due, spent>>

\* ... and by the paho thread.
TakeOutput(m) ==
    /\ inbox[m] # <<>>
    /\ LET t == Head(inbox[m]).task
           v == Head(inbox[m]).value
       IN wait' = IF <<"output", t>> \in callbacks[m] /\ v # None
                    THEN [wait EXCEPT ![m].results[t] = v] ELSE wait
    /\ inbox' = [inbox EXCEPT ![m] = Tail(@)]
    /\ UNCHANGED <<Config, Topics, node, callbacks, todo, Worker, Requests, heard, due, spent>>

Unsubscribed(m) == [callbacks EXCEPT ![m] = @ \ {<<"output", t>> : t \in wait[m].tasks}]

WaitEnds(m) ==
    /\ wait[m].tasks # {}
    /\ todo[m] = <<>>
    /\ \A t \in wait[m].tasks : wait[m].results[t] # None
    /\ wait' = [wait EXCEPT ![m] = NoWait]
    /\ callbacks' = Unsubscribed(m)
    /\ UNCHANGED <<Config, Topics, node, inbox, todo, Worker, Requests, heard, due, spent>>

TimeOut(m) ==
    /\ wait[m].tasks # {}
    /\ todo[m] = <<>>
    /\ wait' = [wait EXCEPT ![m] = NoWait]
    /\ callbacks' = Unsubscribed(m)
    /\ UNCHANGED <<Config, Topics, node, inbox, todo, Worker, Requests, heard, due, spent>>

----------------------------------------------------------------------------
(* A worker's start() and stop(), in its main thread.                      *)

Start(w) ==
    /\ main[w] = "new"
    /\ main' = [main EXCEPT ![w] = "listening"]
    /\ node' = [node EXCEPT ![w] = "online"]
    /\ UNCHANGED <<Config, Topics, callbacks, inbox, todo, current, commands, dynamic, wait,
                   Requests, heard, due, spent>>

\* The subscriptions to the inputs, to the agent's own topics and to the global
\* signal.  The broker sends every input it retains, those of tasks that are
\* completed, too: nothing clears an input.
Listen(w) ==
    /\ main[w] = "listening"
    /\ main' = [main EXCEPT ![w] = "running"]
    /\ callbacks' = [callbacks EXCEPT ![w] = @ \cup {<<"input", t>> : t \in Tasks}]
    /\ \E order \in SetToSeqs({t \in Tasks : kept["input"][t] # None}) :
         inbox' = IF prefixed THEN inbox
                  ELSE [inbox EXCEPT ![w] = @ \o [i \in DOMAIN order |->
                                                    Message("input", order[i], "task")]]
    /\ UNCHANGED <<Config, Topics, node, todo, current, commands, dynamic, wait, Requests,
                   heard, due, spent>>

Stop(w) ==
    /\ main[w] = "running"
    /\ Spend("fault", 1)
    /\ main' = [main EXCEPT ![w] = "stopping"]
    /\ node' = [node EXCEPT ![w] = "offline"]
    /\ UNCHANGED <<Config, Topics, callbacks, inbox, todo, current, commands, dynamic, wait,
                   Requests, heard, due>>

Disconnect(w) ==
    /\ main[w] = "stopping"
    /\ main' = [main EXCEPT ![w] = "leaving"]
    /\ inbox' = [inbox EXCEPT ![w] = <<>>]
    /\ UNCHANGED <<Config, Topics, node, callbacks, todo, current, commands, dynamic, wait,
                   Requests, heard, due, spent>>

\* loop_stop() waits for the callback that runs in the paho thread.
Stopped(w) ==
    /\ main[w] = "leaving"
    /\ todo[w] = <<>>
    /\ main' = [main EXCEPT ![w] = "stopped"]
    /\ UNCHANGED <<Config, Topics, node, callbacks, inbox, todo, current, commands, dynamic,
                   wait, Requests, heard, due, spent>>

\* The process dies and a new one is started.
Crash(w) ==
    /\ main[w] \notin {"new", "stopped"}
    /\ Spend("fault", 1)
    /\ main' = [main EXCEPT ![w] = "new"]
    /\ callbacks' = [callbacks EXCEPT ![w] = {}]
    /\ inbox' = [inbox EXCEPT ![w] = <<>>]
    /\ todo' = [todo EXCEPT ![w] = <<>>]
    /\ current' = [current EXCEPT ![w] = None]
    /\ commands' = [commands EXCEPT ![w] = {}]
    /\ dynamic' = [dynamic EXCEPT ![w] = {}]
    /\ UNCHANGED <<Config, Topics, node, wait, Requests, heard, due>>

----------------------------------------------------------------------------
(* A worker's callbacks, in its paho thread.                               *)

\* claim_task() from its subscriptions on, and the handler after it.
Claim(t) ==
    <<Op("subscribe", "signal", t), Op("recover", "signal", t), Op("note", "signal", t),
      Op("subscribe", "intervene", t), Op("note", "intervene", t),
      Op("run", "handler", t)>>

\* Mutation: the signal stays where it is.
CompleteKeepsSignal(t, output) ==
    <<Pub("output", t, output), Pub("signal", t, "end"), Pub("output", t, None),
      Op("finish", "task", t)>>

\* complete(), for the task _current_task_id had when it was called: output and
\* signal are published and then cleared.
Complete(t, output) ==
    <<Pub("output", t, output), Pub("signal", t, "end"),
      Pub("output", t, None), Pub("signal", t, None),
      Op("finish", "task", t)>>

\* Mutation: complete() goes on without a current task.
CompletesAlways(w, of, how, rest) ==
    /\ todo' = [todo EXCEPT ![w] = Complete(current[w], Output(current[w], of, how)) \o rest]
    /\ due' = [due EXCEPT ![w] = @ - 1]

\* complete() is called for the outcome how of the handler of task of, before
\* the worker does the rest.  Without a current task it returns at once.
CompletesThen(w, of, how, rest) ==
    IF current[w] = None
      THEN /\ todo' = [todo EXCEPT ![w] = rest]
           /\ UNCHANGED due
      ELSE /\ todo' = [todo EXCEPT ![w] =
                         Complete(current[w], Output(current[w], of, how)) \o rest]
           /\ due' = [due EXCEPT ![w] = @ - 1]

Idle(w) == Connected(w) /\ todo[w] = <<>> /\ inbox[w] # <<>>
Msg(w) == Head(inbox[w])
Received(w) == inbox' = [inbox EXCEPT ![w] = Tail(@)]

\* _on_task_input() and _on_directed_task(): the task is claimed and the status
\* of the agent is busy.  The first wants a signature, and neither asks whether
\* the task was claimed or executed before.
TakeTask(w) ==
    /\ Idle(w)
    /\ Msg(w).kind \in {"input", "direct"}
    /\ Received(w)
    /\ IF <<w, Msg(w).task>> \in Capable
         THEN /\ current' = [current EXCEPT ![w] = Msg(w).task]
              /\ node' = [node EXCEPT ![w] = "busy"]
              /\ todo' = [todo EXCEPT ![w] = Claim(Msg(w).task)]
              /\ due' = [due EXCEPT ![w] = @ + 1]
         ELSE UNCHANGED <<current, node, todo, due>>
    /\ UNCHANGED <<Config, Topics, callbacks, main, commands, dynamic, wait, Requests, heard,
                   spent>>

\* _on_task_signal(): [CANCEL] ends the current task, whatever the topic says.
TakeSignal(w) ==
    /\ Idle(w)
    /\ Msg(w).kind = "signal"
    /\ Received(w)
    /\ IF <<"signal", Msg(w).task>> \in callbacks[w] /\ Msg(w).value = "cancel"
         THEN CompletesThen(w, current[w], "cancelled", <<>>)
         ELSE UNCHANGED <<todo, due>>
    /\ UNCHANGED <<Config, Topics, node, callbacks, Worker, wait, Requests, heard, spent>>

\* _on_intervene()
TakeCommand(w) ==
    /\ Idle(w)
    /\ Msg(w).kind = "intervene"
    /\ Received(w)
    /\ commands' = IF <<"intervene", Msg(w).task>> \in callbacks[w]
                     THEN [commands EXCEPT ![w] = @ \cup {Msg(w).task}] ELSE commands
    /\ UNCHANGED <<Config, Topics, node, callbacks, todo, main, current, dynamic, wait,
                   Requests, heard, due, spent>>

\* _on_global_signal(): stop(), whose loop_stop() does not wait for its own
\* thread.  [SUSPEND] and [RESUME] set a flag that nothing reads.
TakeShutdown(w) ==
    /\ Idle(w)
    /\ Msg(w).kind = "global"
    /\ main' = [main EXCEPT ![w] = "leaving"]
    /\ node' = [node EXCEPT ![w] = "offline"]
    /\ inbox' = [inbox EXCEPT ![w] = <<>>]
    /\ UNCHANGED <<Config, Topics, callbacks, todo, current, commands, dynamic, wait,
                   Requests, heard, due, spent>>

\* Mutation: the pattern matches the signals of all tasks.
RecoverSignalOfAny(w) ==
    /\ At(w, "recover")
    /\ IF \E t \in Tasks : db["signal"][t] = "cancel"
         THEN CompletesThen(w, current[w], "cancelled", Tail(todo[w]))
         ELSE Advance(w) /\ UNCHANGED due
    /\ UNCHANGED <<Config, Topics, node, callbacks, inbox, Worker, wait, Requests, heard,
                   spent>>

\* subscribe() calls _on_task_signal with the row of the database: a task that
\* was cancelled before is completed here, in the middle of its claim.
RecoverSignal(w) ==
    /\ At(w, "recover")
    /\ IF db["signal"][Head(todo[w]).task] = "cancel"
         THEN CompletesThen(w, current[w], "cancelled", Tail(todo[w]))
         ELSE Advance(w) /\ UNCHANGED due
    /\ UNCHANGED <<Config, Topics, node, callbacks, inbox, Worker, wait, Requests, heard,
                   spent>>

Note(w) ==
    /\ At(w, "note")
    /\ dynamic' = [dynamic EXCEPT ![w] = @ \cup {<<Head(todo[w]).kind, Head(todo[w]).task>>}]
    /\ Advance(w)
    /\ UNCHANGED <<Config, Topics, node, callbacks, inbox, main, current, commands, wait,
                   Requests, heard, due, spent>>

\* The handler asks for its commands.
GetInterventions(w) ==
    /\ At(w, "run")
    /\ heard' = heard \cup {<<Head(todo[w]).task, c>> : c \in commands[w] \ {Head(todo[w]).task}}
    /\ commands' = [commands EXCEPT ![w] = {}]
    /\ UNCHANGED <<Config, Topics, node, callbacks, inbox, todo, main, current, dynamic, wait,
                   Requests, due, spent>>

\* The handler calls complete() itself ...
HandlerCompletes(w) ==
    /\ At(w, "run")
    /\ current[w] # None
    /\ CompletesThen(w, Head(todo[w]).task, "handled", todo[w])
    /\ UNCHANGED <<Config, Topics, node, callbacks, inbox, Worker, wait, Requests, heard,
                   spent>>

\* ... or returns or raises.
HandlerEnds(w) ==
    /\ At(w, "run")
    /\ CompletesThen(w, Head(todo[w]).task, "handled", Tail(todo[w]))
    /\ UNCHANGED <<Config, Topics, node, callbacks, inbox, Worker, wait, Requests, heard,
                   spent>>

\* Mutation: the dynamic subscriptions stay.
FinishKeepsTopics(w) ==
    /\ At(w, "finish")
    /\ dynamic' = [dynamic EXCEPT ![w] = {}]
    /\ commands' = [commands EXCEPT ![w] = {}]
    /\ node' = [node EXCEPT ![w] = "online"]
    /\ current' = [current EXCEPT ![w] = None]
    /\ Advance(w)
    /\ UNCHANGED <<Config, Topics, callbacks, inbox, main, wait, Requests, heard, due, spent>>

\* Mutation: the task stays the current one.
FinishKeepsCurrent(w) ==
    /\ At(w, "finish")
    /\ callbacks' = [callbacks EXCEPT ![w] = @ \ dynamic[w]]
    /\ dynamic' = [dynamic EXCEPT ![w] = {}]
    /\ commands' = [commands EXCEPT ![w] = {}]
    /\ node' = [node EXCEPT ![w] = "online"]
    /\ Advance(w)
    /\ UNCHANGED <<Config, Topics, inbox, main, current, wait, Requests, heard, due, spent>>

\* complete() ends: the dynamic subscriptions are given up, the commands
\* forgotten, and the agent is online and has no task.
Finish(w) ==
    /\ At(w, "finish")
    /\ callbacks' = [callbacks EXCEPT ![w] = @ \ dynamic[w]]
    /\ dynamic' = [dynamic EXCEPT ![w] = {}]
    /\ commands' = [commands EXCEPT ![w] = {}]
    /\ node' = [node EXCEPT ![w] = "online"]
    /\ current' = [current EXCEPT ![w] = None]
    /\ Advance(w)
    /\ UNCHANGED <<Config, Topics, inbox, main, wait, Requests, heard, due, spent>>

----------------------------------------------------------------------------
MasterSteps(m) ==
    \/ \E allowed \in BOOLEAN : Publish(m, allowed)
    \/ Subscribe(m) \/ Direct(m) \/ RecoverOutput(m)

WorkerSteps(w) ==
    \/ \E allowed \in BOOLEAN : Publish(w, allowed)
    \/ Subscribe(w) \/ RecoverSignal(w) \/ Note(w)
    \/ HandlerEnds(w)
    \/ Finish(w)
    \/ TakeTask(w) \/ TakeSignal(w) \/ TakeCommand(w) \/ TakeShutdown(w)

Next ==
    \/ \E m \in Masters :
         \/ \E t \in Tasks : \E targets \in SUBSET Workers : Post(m, t, targets)
         \/ \E t \in Tasks : \E w \in Workers : Push(m, t, w)
         \/ \E t \in Tasks : CancelTask(m, t) \/ Intervene(m, t)
         \/ \E ts \in SUBSET Tasks \ {{}} : Wait(m, ts)
         \/ Shutdown(m) \/ MasterSteps(m) \/ TakeOutput(m) \/ WaitEnds(m) \/ TimeOut(m)
    \/ \E w \in Workers :
         \/ Start(w) \/ Listen(w) \/ Stop(w) \/ Disconnect(w) \/ Stopped(w) \/ Crash(w)
         \/ GetInterventions(w) \/ HandlerCompletes(w) \/ WorkerSteps(w)

Spec == Init /\ [][Next]_vars

----------------------------------------------------------------------------
Outputs == [task : Tasks, of : Tasks, how : {"handled", "cancelled"}]

Texts == {"task", "cancel", "end"}

OutputMessages == [kind : {"output"}, task : Tasks, value : Outputs]

Messages ==
    OutputMessages
      \cup [kind : {"input", "direct", "signal", "intervene"}, task : Tasks,
            value : Texts \cup {"command"}]
      \cup [kind : {"global"}, task : {None}, value : {"shutdown"}]

MasterOps ==
    [op : {"publish"}, kind : {"input"}, task : Tasks, value : {"task"}]
      \cup [op : {"publish"}, kind : {"signal"}, task : Tasks, value : {"cancel"}]
      \cup [op : {"direct"}, task : Tasks, to : Workers]
      \cup [op : {"subscribe", "recover"}, kind : {"output"}, task : Tasks]

WorkerOps ==
    [op : {"publish"}, kind : {"output"}, task : Tasks, value : Outputs \cup {None}]
      \cup [op : {"publish"}, kind : {"signal"}, task : Tasks, value : {"end", None}]
      \cup [op : {"subscribe", "note"}, kind : {"signal", "intervene"}, task : Tasks]
      \cup [op : {"recover"}, kind : {"signal"}, task : Tasks]
      \cup [op : {"run"}, kind : {"handler"}, task : Tasks]
      \cup [op : {"finish"}, kind : {"task"}, task : Tasks]

StoreType(d) ==
    /\ d = [k \in Kinds |-> d[k]]
    /\ d["output"] \in [Tasks -> Outputs \cup {None}]
    /\ \A k \in Kinds \ {"output"} : d[k] \in [Tasks -> Texts \cup {None}]

\* A master hears of outputs only ...
InboxType(q) ==
    /\ q = [c \in Clients |-> q[c]]
    /\ \A m \in Masters : q[m] \in Seq(OutputMessages)
    /\ \A w \in Workers : q[w] \in Seq(Messages)

CallbacksType(f) ==
    /\ f \in [Clients -> SUBSET ({"input", "output", "signal", "intervene"} \X Tasks)]
    /\ \A m \in Masters : f[m] \subseteq {"output"} \X Tasks

\* ... and each kind of client has its own calls to make.
TodoType(f) ==
    /\ f = [c \in Clients |-> f[c]]
    /\ \A m \in Masters : f[m] \in Seq(MasterOps)
    /\ \A w \in Workers : f[w] \in Seq(WorkerOps)

\* Type invariant.
TypeOK ==
    /\ secret \in BOOLEAN
    /\ prefixed \in BOOLEAN
    /\ StoreType(db) /\ StoreType(kept)
    /\ node \in [Workers -> {"none", "online", "busy", "offline"}]
    /\ CallbacksType(callbacks) /\ InboxType(inbox) /\ TodoType(todo)
    /\ main \in [Workers -> {"new", "listening", "running", "stopping", "leaving", "stopped"}]
    /\ current \in [Workers -> Tasks \cup {None}]
    /\ commands \in [Workers -> SUBSET Tasks]
    /\ dynamic \in [Workers -> SUBSET ({"signal", "intervene"} \X Tasks)]
    /\ wait \in [Masters -> [tasks : SUBSET Tasks, results : [Tasks -> Outputs \cup {None}]]]
    /\ given \subseteq Tasks /\ cancelled \subseteq Tasks
    /\ heard \subseteq Tasks \X Tasks
    /\ due \in [Workers -> Int]
    /\ spent \in [DOMAIN Budget -> Nat]

\* What wait_task and wait_all return for a task is an output that this task's
\* own handler produced, or that says it was cancelled when it was
\* (bbs.py:309, 392, 728): whatever else the worker executed, was sent or lost.
AnswersOwn ==
    \A m \in Masters : \A t \in wait[m].tasks :
      LET r == wait[m].results[t] IN
        r # None => /\ r.task = t /\ r.of = t
                    /\ r.how = "cancelled" => t \in cancelled

\* A claim leads to one output at most, though the handler, the callback that
\* called it and a cancellation may all call complete() (bbs.py:611).
OneOutput == \A w \in Workers : due[w] >= 0

\* The handler of a task is given commands for another task only if that one was
\* cancelled (bbs.py:668-671: the commands and their subscriptions end with the
\* task).
CommandsOwn == \A p \in heard : p[2] \in cancelled

Touched(t) ==
    \E c \in Clients : \E i \in DOMAIN todo[c] :
      todo[c][i].op \in {"publish", "run"} /\ todo[c][i].task = t

\* When nobody works on a task that was claimed, the database holds neither its
\* output nor its signal, and the broker neither unless it missed a message
\* (bbs.py:658: completed tasks must not pile up).
NothingPilesUp ==
    spent["fault"] = 0 =>
      \A t \in Tasks \ cancelled : ~Touched(t) =>
        /\ db["output"][t] = None /\ db["signal"][t] = None
        /\ kept["output"][t] = None /\ kept["signal"][t] = None

\* The handler of a task is only given commands that were sent to this task
\* (bbs.py:670: "clean up the queue of interventions" when a task completes).
CommandsReachOwnTask == heard = {}
=============================================================================
