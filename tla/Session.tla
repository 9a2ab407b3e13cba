------------------------------ MODULE Session ------------------------------
(***************************************************************************)
(* The connection of one agent that persists its session: BBSClient of     *)
(* client.py and BBSClientWithPersistence of persistence.py.  The agent's  *)
(* status and the messages that others sent it while it was offline are    *)
(* rows of MariaDB; two threads of the agent replay them, the application  *)
(* in connect() and subscribe(), the paho thread in on_connect.            *)
(*                                                                         *)
(* Senders publish notifications to agent/node/<agent>/..., the only       *)
(* topics whose messages are queued, and the agent subscribes to them      *)
(* under the same name, with one callback.  The session at the broker is a *)
(* clean one.                                                              *)
(***************************************************************************)
EXTENDS Integers, FiniteSets, Sequences, SequencesExt

CONSTANTS
    Senders,      \* clients that send notifications
    Sent,         \* per sender, the messages it sends, in order
    RetainedOnes, \* those it sends with retain=True
    NoMessage,
    MaxLosses,    \* bound on losses of the connection
    MaxLeaves,    \* bound on calls of disconnect()
    MaxCrashes    \* bound on crashes of the agent

Messages == UNION {ToSet(Sent[s]) : s \in Senders}
Threads == {"app", "paho"}

\* A message is one call of publish(): it has one sender, which sends it once.
ASSUME SessionAssumption ==
    /\ RetainedOnes \subseteq Messages
    /\ {NoMessage, "connack", "lost"} \cap Messages = {}
    /\ Sent \in [Senders -> Seq(Messages)]
    /\ \A s \in Senders : IsInjective(Sent[s])
    /\ \A s, r \in Senders : s # r => ToSet(Sent[s]) \cap ToSet(Sent[r]) = {}
    /\ {MaxLosses, MaxLeaves, MaxCrashes} \subseteq Nat

VARIABLES
    session,     \* status in agent_sessions: "none", "online" or "offline"
    queue,       \* session_queue of the agent, in the order of the inserts; due is a
                 \* ghost: the callback is registered since the row was inserted
    upserted,    \* retained_messages of the topic
    kept,        \* the message the broker retains for the topic
    link,        \* the connection is up
    subscribed,  \* the broker has the subscription
    events,      \* what the paho thread has still to handle
    looping,     \* _loop_started
    connected,   \* _connected
    recovered,   \* _recovered
    registered,  \* the callback is in _subscriptions and _subscribed_topics
    thread,      \* where the two threads of the agent are
    beating,     \* the heartbeat thread is alive
    sender,      \* where each sender is
    toSend,      \* what each sender has still to send
    seq,         \* _seq of each sender
    handed,      \* ghost: how often the callback got each message
    replayed,    \* ghost: rows in the order a replay first handed them over
    losses, leaves, crashes   \* bounded counters of faults

vars == <<session, queue, upserted, kept, link, subscribed, events, looping,
          connected, recovered, registered, thread, beating, sender, toSend, seq,
          handed, replayed, losses, leaves, crashes>>

Database == <<queue, upserted>>
Network == <<kept, link, subscribed>>
Client == <<looping, connected, registered>>
Sending == <<sender, toSend, seq>>
Faults == <<losses, leaves, crashes>>
Ghosts == <<handed, replayed>>

\* A thread is "idle", or in connect() or on_connect ("online", "recover"), in
\* subscribe() ("fetch"), in a replay ("select", "replay", "mark"), in
\* disconnect() ("stopping") or in on_disconnect ("down").  final: the replay
\* is followed by _recovered = True.
Idle == [at |-> "idle", rows |-> <<>>, final |-> FALSE]

Init ==
    /\ session = "none"
    /\ queue = <<>>
    /\ upserted = NoMessage
    /\ kept = NoMessage
    /\ link = FALSE
    /\ subscribed = FALSE
    /\ events = <<>>
    /\ looping = FALSE
    /\ connected = FALSE
    /\ recovered = FALSE
    /\ registered = FALSE
    /\ thread = [t \in Threads |-> Idle]
    /\ beating = FALSE
    /\ sender = [s \in Senders |-> "idle"]
    /\ toSend = Sent
    /\ seq = [s \in Senders |-> 0]
    /\ handed = [m \in Messages |-> 0]
    /\ replayed = <<>>
    /\ losses = 0
    /\ leaves = 0
    /\ crashes = 0

Goto(t, at) == thread' = [thread EXCEPT ![t].at = at]

\* The callback gets message m, if there is a callback and a message.  That of a
\* retained message is counted once.
HandOver(m) ==
    handed' = IF registered /\ m # NoMessage
                THEN [handed EXCEPT ![m] = IF m \in RetainedOnes THEN 1 ELSE @ + 1]
                ELSE handed

----------------------------------------------------------------------------
\* connect(): the connection and the loop, from which the CONNACK will come.
Connect ==
    /\ thread["app"].at = "idle"
    /\ ~looping
    /\ link' = TRUE
    /\ subscribed' = FALSE
    /\ events' = Append(events, "connack")
    /\ looping' = TRUE
    /\ thread' = [thread EXCEPT !["app"] = [at |-> "online", rows |-> <<>>, final |-> TRUE]]
    /\ UNCHANGED <<session, Database, kept, connected, recovered, registered,
                   beating, Sending, Ghosts, Faults>>

\* Mutation: on_connect does not set the status.
OnConnectStatusLeft ==
    /\ thread["paho"].at = "idle"
    /\ events # <<>> /\ Head(events) = "connack"
    /\ events' = Tail(events)
    /\ connected' = TRUE
    /\ thread' = [thread EXCEPT !["paho"] = [at |-> "recover", rows |-> <<>>, final |-> TRUE]]
    /\ UNCHANGED <<session, Database, kept, link, subscribed, looping, recovered,
                   registered, beating, Sending, Ghosts, Faults>>

\* _on_connect() up to the database.  The retained status that it publishes on
\* node/<agent>/status is a topic of its own, and not followed here.
OnConnect ==
    /\ thread["paho"].at = "idle"
    /\ events # <<>> /\ Head(events) = "connack"
    /\ events' = Tail(events)
    /\ connected' = TRUE
    /\ thread' = [thread EXCEPT !["paho"] = [at |-> "online", rows |-> <<>>, final |-> TRUE]]
    /\ UNCHANGED <<session, Database, kept, link, subscribed, looping, recovered,
                   registered, beating, Sending, Ghosts, Faults>>

\* _set_agent_online()
SetOnline(t) ==
    /\ thread[t].at = "online"
    /\ session' = "online"
    /\ Goto(t, "recover")
    /\ UNCHANGED <<Database, Network, events, Client, recovered, beating, Sending, Ghosts,
                   Faults>>

\* _recover_all_retained()
RecoverAll(t) ==
    /\ thread[t].at = "recover"
    /\ HandOver(upserted)
    /\ Goto(t, "select")
    /\ UNCHANGED <<session, Database, Network, events, Client, recovered, beating, Sending,
                   replayed, Faults>>

Undelivered == {r \in DOMAIN queue : ~queue[r].delivered}

BySeq(rows) == \A i, j \in DOMAIN rows : i < j => queue[rows[i]].seq <= queue[rows[j]].seq

\* Mutation: the rows are read whether they are delivered or not.
SelectAll(t) ==
    /\ thread[t].at = "select"
    /\ \E rows \in SetToSeqs(DOMAIN queue) :
         /\ BySeq(rows)
         /\ thread' = [thread EXCEPT ![t].at = "replay", ![t].rows = rows]
    /\ UNCHANGED <<session, Database, Network, events, Client, recovered, beating, Sending,
                   Ghosts, Faults>>

\* Mutation: the rows are marked when they are read.
SelectMarks(t) ==
    /\ thread[t].at = "select"
    /\ \E rows \in SetToSeqs(Undelivered) :
         /\ BySeq(rows)
         /\ thread' = [thread EXCEPT ![t].at = "replay", ![t].rows = rows]
    /\ queue' = [r \in DOMAIN queue |-> [queue[r] EXCEPT !.delivered = TRUE]]
    /\ UNCHANGED <<session, upserted, Network, events, Client, recovered, beating, Sending,
                   Ghosts, Faults>>

\* _replay_session_queue(): rows with the same number come in any order.
Select(t) ==
    /\ thread[t].at = "select"
    /\ \E rows \in SetToSeqs(Undelivered) :
         /\ BySeq(rows)
         /\ thread' = [thread EXCEPT ![t].at = "replay", ![t].rows = rows]
    /\ UNCHANGED <<session, Database, Network, events, Client, recovered, beating, Sending,
                   Ghosts, Faults>>

HandRow(t) ==
    /\ thread[t].at = "replay"
    /\ thread[t].rows # <<>>
    /\ LET r == Head(thread[t].rows) IN
         /\ HandOver(queue[r].msg)
         /\ replayed' = IF registered /\ r \notin ToSet(replayed)
                          THEN Append(replayed, r) ELSE replayed
    /\ Goto(t, "mark")
    /\ UNCHANGED <<session, Database, Network, events, Client, recovered, beating, Sending,
                   Faults>>

\* Mutation: the row is deleted, and the others move up.
MarkRowDeletes(t) ==
    /\ thread[t].at = "mark"
    /\ queue' = RemoveAt(queue, Head(thread[t].rows))
    /\ thread' = [thread EXCEPT ![t].at = "replay", ![t].rows = Tail(@)]
    /\ UNCHANGED <<session, upserted, Network, events, Client, recovered, beating, Sending,
                   Ghosts, Faults>>

\* The row is marked whether there was a callback for it or not.
MarkRow(t) ==
    /\ thread[t].at = "mark"
    /\ queue' = [queue EXCEPT ![Head(thread[t].rows)].delivered = TRUE]
    /\ thread' = [thread EXCEPT ![t].at = "replay", ![t].rows = Tail(@)]
    /\ UNCHANGED <<session, upserted, Network, events, Client, recovered, beating, Sending,
                   Ghosts, Faults>>

ReplayEnds(t) ==
    /\ thread[t].at = "replay"
    /\ thread[t].rows = <<>>
    /\ recovered' = (recovered \/ thread[t].final)
    /\ thread' = [thread EXCEPT ![t] = Idle]
    /\ UNCHANGED <<session, Database, Network, events, Client, beating, Sending, Ghosts,
                   Faults>>

\* subscribe(): the callback is entered, then the broker is told, if there is
\* a connection; the broker sends what it retains.
Subscribe ==
    /\ thread["app"].at = "idle"
    /\ ~registered
    /\ registered' = TRUE
    /\ subscribed' = link
    /\ events' = IF link /\ kept # NoMessage THEN Append(events, kept) ELSE events
    /\ Goto("app", "fetch")
    /\ UNCHANGED <<session, Database, kept, link, looping, connected, recovered,
                   beating, Sending, Ghosts, Faults>>

\* _recover_retained() in subscribe(), and a replay if there was none yet.
Fetch ==
    /\ thread["app"].at = "fetch"
    /\ HandOver(upserted)
    /\ Goto("app", IF recovered THEN "idle" ELSE "select")
    /\ UNCHANGED <<session, Database, Network, events, Client, recovered, beating, Sending,
                   replayed, Faults>>

\* disconnect(): the status is written, then the connection is closed and the
\* loop's end awaited.
Disconnect ==
    /\ thread["app"].at = "idle"
    /\ looping
    /\ leaves < MaxLeaves
    /\ leaves' = leaves + 1
    /\ session' = IF session = "none" THEN "none" ELSE "offline"
    /\ Goto("app", "close")
    /\ UNCHANGED <<Database, Network, events, Client, recovered, beating, Sending, Ghosts,
                   losses, crashes>>

\* The connection is gone: the clean session with it, and what was under way.
LinkEnds ==
    /\ link' = FALSE
    /\ subscribed' = FALSE
    /\ \E n \in 0..Len(events) : events' = Append(SubSeq(events, 1, n), "lost")

Close ==
    /\ thread["app"].at = "close"
    /\ IF link THEN LinkEnds ELSE UNCHANGED <<link, subscribed, events>>
    /\ Goto("app", "stopping")
    /\ UNCHANGED <<session, Database, kept, Client, recovered, beating, Sending,
                   Ghosts, Faults>>

LoopStopped ==
    /\ thread["app"].at = "stopping"
    /\ thread["paho"].at = "idle"
    /\ events = <<>>
    /\ looping' = FALSE
    /\ Goto("app", "idle")
    /\ UNCHANGED <<session, Database, Network, events, connected, recovered, registered,
                   beating, Sending, Ghosts, Faults>>

\* _on_disconnect(): the status first, and only of a client that was connected.
OnDisconnect ==
    /\ thread["paho"].at = "idle"
    /\ events # <<>> /\ Head(events) = "lost"
    /\ events' = Tail(events)
    /\ session' = IF connected /\ session # "none" THEN "offline" ELSE session
    /\ Goto("paho", "down")
    /\ UNCHANGED <<Database, Network, Client, recovered, beating, Sending, Ghosts, Faults>>

Disconnected ==
    /\ thread["paho"].at = "down"
    /\ connected' = FALSE
    /\ Goto("paho", "idle")
    /\ UNCHANGED <<session, Database, Network, events, looping, registered, recovered,
                   beating, Sending, Ghosts, Faults>>

\* _on_message(): the callback runs in the paho thread.
OnMessage ==
    /\ thread["paho"].at = "idle"
    /\ events # <<>> /\ Head(events) \in Messages
    /\ HandOver(Head(events))
    /\ events' = Tail(events)
    /\ UNCHANGED <<session, Database, Network, Client, recovered, thread, beating, Sending,
                   replayed, Faults>>

\* The loop of paho connects again when it has reported the loss.
Reconnect ==
    /\ looping /\ ~link
    /\ thread["app"].at \notin {"close", "stopping"}
    /\ thread["paho"].at = "idle"
    /\ events = <<>>
    /\ link' = TRUE
    /\ events' = <<"connack">>
    /\ UNCHANGED <<session, Database, kept, subscribed, Client, recovered, thread,
                   beating, Sending, Ghosts, Faults>>

\* The connection is lost.
LoseLink ==
    /\ link
    /\ losses < MaxLosses
    /\ losses' = losses + 1
    /\ LinkEnds
    /\ UNCHANGED <<session, Database, kept, Client, recovered, thread, beating, Sending,
                   Ghosts, leaves, crashes>>

\* The process of the agent dies and is started again.
Crash ==
    /\ looping
    /\ crashes < MaxCrashes
    /\ crashes' = crashes + 1
    /\ link' = FALSE
    /\ subscribed' = FALSE
    /\ events' = <<>>
    /\ looping' = FALSE
    /\ connected' = FALSE
    /\ recovered' = FALSE
    /\ registered' = FALSE
    /\ beating' = FALSE
    /\ thread' = [t \in Threads |-> Idle]
    /\ queue' = [r \in DOMAIN queue |-> [queue[r] EXCEPT !.due = FALSE]]
    /\ UNCHANGED <<session, upserted, kept, Sending, Ghosts, losses, leaves>>

\* start_heartbeat(), and the thread that ends for good when it looks while
\* the client is not connected.
StartHeartbeat ==
    /\ thread["app"].at = "idle"
    /\ looping
    /\ ~beating
    /\ beating' = TRUE
    /\ UNCHANGED <<session, Database, Network, events, Client, recovered, thread, Sending,
                   Ghosts, Faults>>

HeartbeatEnds ==
    /\ beating
    /\ ~connected
    /\ beating' = FALSE
    /\ UNCHANGED <<session, Database, Network, events, Client, recovered, thread, Sending,
                   Ghosts, Faults>>

----------------------------------------------------------------------------
Others == <<session, link, subscribed, Client, recovered, thread, beating, Ghosts,
            Faults>>

\* publish() of a sender: the retained row is written, the session looked up,
\* the message queued if that said offline, and then sent in any case.
Send(s) ==
    /\ sender[s] = "idle"
    /\ toSend[s] # <<>>
    /\ upserted' = IF Head(toSend[s]) \in RetainedOnes THEN Head(toSend[s]) ELSE upserted
    /\ sender' = [sender EXCEPT ![s] = "look"]
    /\ UNCHANGED <<Others, queue, kept, events, toSend, seq>>

Look(s) ==
    /\ sender[s] = "look"
    /\ sender' = [sender EXCEPT ![s] = IF session = "offline" THEN "enqueue" ELSE "publish"]
    /\ UNCHANGED <<Others, Database, kept, events, toSend, seq>>

\* Mutation: the number is not advanced.
EnqueueUnnumbered(s) ==
    /\ sender[s] = "enqueue"
    /\ queue' = Append(queue, [msg |-> Head(toSend[s]), from |-> s, seq |-> seq[s],
                               delivered |-> FALSE, due |-> registered])
    /\ sender' = [sender EXCEPT ![s] = "publish"]
    /\ UNCHANGED <<Others, upserted, kept, events, toSend, seq>>

Enqueue(s) ==
    /\ sender[s] = "enqueue"
    /\ seq' = [seq EXCEPT ![s] = @ + 1]
    /\ queue' = Append(queue, [msg |-> Head(toSend[s]), from |-> s, seq |-> seq[s] + 1,
                               delivered |-> FALSE, due |-> registered])
    /\ sender' = [sender EXCEPT ![s] = "publish"]
    /\ UNCHANGED <<Others, upserted, kept, events, toSend>>

\* The rate limiter may drop the packet; the row stays.
Publish(s, allowed) ==
    /\ sender[s] = "publish"
    /\ LET m == Head(toSend[s]) IN
         /\ kept' = IF allowed /\ m \in RetainedOnes THEN m ELSE kept
         /\ events' = IF allowed /\ subscribed THEN Append(events, m) ELSE events
    /\ toSend' = [toSend EXCEPT ![s] = Tail(@)]
    /\ sender' = [sender EXCEPT ![s] = "idle"]
    /\ UNCHANGED <<Others, Database, seq>>

PahoSteps ==
    \/ OnConnect \/ OnDisconnect \/ Disconnected \/ OnMessage \/ Reconnect

ReplaySteps(t) ==
    \/ SetOnline(t) \/ RecoverAll(t) \/ Select(t) \/ HandRow(t) \/ MarkRow(t)
    \/ ReplayEnds(t)

\* What the application's thread does without a further call.
AppSteps == Fetch \/ Close \/ LoopStopped

SenderSteps(s) == Look(s) \/ Enqueue(s) \/ \E allowed \in BOOLEAN : Publish(s, allowed)

Next ==
    \/ Connect \/ Subscribe \/ Disconnect \/ AppSteps
    \/ PahoSteps
    \/ \E t \in Threads : ReplaySteps(t)
    \/ StartHeartbeat \/ HeartbeatEnds
    \/ LoseLink \/ Crash
    \/ \E s \in Senders : Send(s) \/ SenderSteps(s)

Fairness ==
    /\ WF_vars(PahoSteps)
    /\ WF_vars(AppSteps)
    /\ \A t \in Threads : WF_vars(ReplaySteps(t))

Spec == Init /\ [][Next]_vars /\ Fairness

----------------------------------------------------------------------------
Positions == {"idle", "online", "recover", "fetch", "select", "replay", "mark", "close",
              "stopping", "down"}

Rows == [msg : Messages, from : Senders, seq : Nat, delivered : BOOLEAN,
         due : BOOLEAN]

\* Type invariant.
TypeOK ==
    /\ session \in {"none", "online", "offline"}
    /\ queue \in Seq(Rows)
    /\ {upserted, kept} \subseteq Messages \cup {NoMessage}
    /\ {link, subscribed, looping, connected, recovered, registered, beating} \subseteq BOOLEAN
    /\ events \in Seq({"connack", "lost"} \cup Messages)
    /\ thread \in [Threads -> [at : Positions, rows : Seq(Nat), final : BOOLEAN]]
    /\ \A t \in Threads : ToSet(thread[t].rows) \subseteq DOMAIN queue
    /\ sender \in [Senders -> {"idle", "look", "enqueue", "publish"}]
    /\ toSend \in [Senders -> Seq(Messages)]
    /\ seq \in [Senders -> Nat]
    /\ handed \in [Messages -> Nat]
    /\ replayed \in Seq(DOMAIN queue)
    /\ {losses, leaves, crashes} \subseteq Nat

\* Two threads may replay the same row, the broker may deliver it as well, and
\* a crash between the callback and the mark makes both threads hand it over
\* again; a message is never handed over more often than that, however often
\* the agent reconnects (persistence.py:278).
RepeatsBounded ==
    \A m \in Messages \ RetainedOnes : handed[m] <= 1 + 2 * (1 + crashes)

\* Replays hand over a sender's queued messages in the order they were sent,
\* whichever of the threads gets there first and whatever crashes
\* (persistence.py:285).
QueueInOrder ==
    \A i, j \in DOMAIN replayed :
      i < j /\ queue[replayed[i]].from = queue[replayed[j]].from
        => replayed[i] < replayed[j]

\* A message that was queued when the agent had its callback registered, and whose
\* process has not died since, is not taken for delivered before the callback
\* has had it, whichever threads replay it (persistence.py:303).
QueuedIsHanded ==
    \A r \in DOMAIN queue :
      queue[r].delivered /\ queue[r].due => handed[queue[r].msg] > 0

\* If the connection stays up, the database comes to say for good that the agent
\* is online, whatever losses, crashes and late on_disconnects went before
\* (persistence.py:350, 358).
OnlineWhileUp == <>[]link => <>[](session = "online")
=============================================================================
