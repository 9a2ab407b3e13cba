--------------------------- MODULE SessionProofs ---------------------------
(***************************************************************************)
(* Proofs about the session queue of an agent, for any senders, messages   *)
(* and numbers of losses, disconnects and crashes.                         *)
(***************************************************************************)
EXTENDS Session, FiniteSetTheorems, SequenceTheorems, TLAPS

\* Where the connection, the threads and the senders are: the paho thread only
\* runs between connect() and the end of its loop, and when the application is
\* done with connect() there was a replay.
ControlExact ==
    /\ \A t \in Threads : /\ thread[t].at \notin {"replay", "mark"} => thread[t].rows = <<>>
                          /\ thread[t].at = "mark" => thread[t].rows # <<>>
    /\ subscribed => link
    /\ link => looping
    /\ ~looping => events = <<>> /\ thread["paho"].at = "idle"
    /\ thread["app"].at \in {"close", "stopping"} => looping
    /\ thread["app"].at = "stopping" => ~link
    /\ looping => \/ recovered
                  \/ /\ thread["app"].at \in {"online", "recover", "select", "replay", "mark"}
                     /\ thread["app"].final
    /\ \A s \in Senders : sender[s] # "idle" => toSend[s] # <<>>

\* What is still to be sent, and what was numbered.
SendingExact ==
    /\ \A s \in Senders :
         /\ IsInjective(toSend[s])
         /\ ToSet(toSend[s]) \subseteq ToSet(Sent[s])
    /\ \A r \in DOMAIN queue :
         /\ queue[r].seq <= seq[queue[r].from]
         /\ queue[r].msg \in ToSet(Sent[queue[r].from])
         /\ queue[r].msg \in ToSet(toSend[queue[r].from])
              => /\ sender[queue[r].from] = "publish"
                 /\ queue[r].msg = Head(toSend[queue[r].from])
    /\ \A r, q \in DOMAIN queue :
         r < q => /\ queue[r].msg # queue[q].msg
                  /\ queue[r].from = queue[q].from => queue[r].seq < queue[q].seq

\* The rows of a replay are all those of a sender that were not delivered, in the
\* order of the inserts.
ReplaysSorted ==
    \A t \in Threads : \A i \in DOMAIN thread[t].rows :
       /\ \A j \in DOMAIN thread[t].rows :
            i # j => thread[t].rows[i] # thread[t].rows[j]
       /\ \A j \in DOMAIN thread[t].rows :
            i < j /\ queue[thread[t].rows[i]].from = queue[thread[t].rows[j]].from
              => thread[t].rows[i] < thread[t].rows[j]
       /\ \A r \in DOMAIN queue :
            r < thread[t].rows[i] /\ queue[r].from = queue[thread[t].rows[i]].from
              => \/ queue[r].delivered
                 \/ \E j \in DOMAIN thread[t].rows : j < i /\ thread[t].rows[j] = r

\* When a row was handed over, those before it are delivered.
EarlierDelivered ==
    \A r \in ToSet(replayed) : \A q \in DOMAIN queue :
       q < r /\ queue[q].from = queue[r].from => queue[q].delivered

Known(t) ==
    /\ \A i \in DOMAIN thread[t].rows :
         queue[thread[t].rows[i]].delivered => thread[t].rows[i] \in ToSet(replayed)
    /\ thread[t].at = "mark" => thread[t].rows[1] \in ToSet(replayed)

\* As long as both threads may replay, what is marked was handed over.
ReplaysKnown ==
    registered /\ thread["app"].at \in {"online", "recover", "select", "replay", "mark"}
      => \A t \in Threads : Known(t)

\* A row still to be handed over is not preceded by a later one.
NoneOvertaken ==
    \A t \in Threads : \A i \in DOMAIN thread[t].rows : \A r \in ToSet(replayed) :
       /\ thread[t].rows[i] \notin ToSet(replayed)
       /\ queue[r].from = queue[thread[t].rows[i]].from
       => r < thread[t].rows[i]

\* A row that is about to be marked was handed over, if the callback was there.
MarkedIsHanded ==
    /\ \A r \in DOMAIN queue : queue[r].due => registered
    /\ \A t \in Threads :
         thread[t].at = "mark" /\ queue[thread[t].rows[1]].due
           => handed[queue[thread[t].rows[1]].msg] > 0

\* A message that is not retained reaches the client once through the broker.
Single == Messages \ RetainedOnes
Once(q) == \A i, j \in DOMAIN q : q[i] \in Single /\ i # j => q[i] # q[j]
Ahead(m) == \E s \in Senders : m \in ToSet(toSend[s])

StreamExact ==
    /\ {upserted, kept} \subseteq RetainedOnes \cup {NoMessage}
    /\ Once(events)
    /\ \A m \in ToSet(events) \cap Single : ~Ahead(m)

\* Whether thread t may still hand over row r without a crash, and whether a
\* message may still come from the broker or from a replay in t.
Open(t, r) ==
    /\ ~(thread[t].at = "mark" /\ thread[t].rows[1] = r)
    /\ ~queue[r].delivered \/ r \in ToSet(thread[t].rows)

MayStream(m) == Ahead(m) \/ m \in ToSet(events)
MayReplay(t, m) ==
    (\E r \in DOMAIN queue : queue[r].msg = m) => \E r \in DOMAIN queue : queue[r].msg = m /\ Open(t, r)

OneIf(possible) == IF possible THEN 1 ELSE 0

\* Each message that is not retained was handed over at most as often as that
\* leaves room for what may still come.
RepeatsCounted ==
    \A m \in Single :
      handed[m] + OneIf(MayStream(m)) + OneIf(MayReplay("app", m)) + OneIf(MayReplay("paho", m))
        <= 1 + 2 * (1 + crashes)

-----------------------------------------------------------------------------
(* Types, and where the threads are.                                       *)

Steady == TypeOK /\ ControlExact

\* What SetToSeqs gives is a sequence of the members of the set, each once.
LEMMA OrderOfSet ==
    ASSUME NEW n \in Nat, NEW S \in SUBSET (1..n), NEW rows \in SetToSeqs(S)
    PROVE  /\ rows \in Seq(S)
           /\ DOMAIN rows = 1..Len(rows)
           /\ ToSet(rows) = S
           /\ \A i, j \in DOMAIN rows : i # j => rows[i] # rows[j]
<1> DEFINE c == Cardinality(S)
<1>1. IsFiniteSet(1..n)
  BY FS_Interval
<1>2. IsFiniteSet(S) /\ c \in Nat
  BY <1>1, FS_Subset, FS_CardinalityType
<1>3. rows \in [1..c -> S] /\ \A i, j \in 1..c : i # j => rows[i] # rows[j]
  BY DEF SetToSeqs
<1>4. rows \in Injection(1..c, S)
  BY <1>3 DEF Injection, IsInjective
<1>5. IsFiniteSet(1..c) /\ Cardinality(1..c) = c
  BY <1>2, FS_Interval
<1>6. rows \in Surjection(1..c, S)
  BY <1>2, <1>4, <1>5, FS_Injection
<1>7. rows \in Seq(S) /\ DOMAIN rows = 1..Len(rows)
  BY <1>2, <1>3
<1>8. ToSet(rows) = S
  BY <1>3, <1>6 DEF ToSet, Surjection
<1> QED  BY <1>3, <1>7, <1>8

\* A thread that goes on keeps its rows.
LEMMA GotoType ==
    ASSUME TypeOK, NEW t \in Threads, NEW at \in Positions, Goto(t, at)
    PROVE  /\ thread' \in [Threads -> [at : Positions, rows : Seq(Nat), final : BOOLEAN]]
           /\ \A u \in Threads : /\ thread'[u].rows = thread[u].rows
                                 /\ thread'[u].final = thread[u].final
                                 /\ u # t => thread'[u] = thread[u]
           /\ thread'[t].at = at
  BY DEF TypeOK, Goto

\* A callback that is there gets the message, and no message is forgotten.
LEMMA HandOverType ==
    ASSUME TypeOK, NEW m \in Messages \cup {NoMessage}, HandOver(m)
    PROVE  /\ handed' \in [Messages -> Nat]
           /\ \A n \in Messages : /\ handed[n] > 0 => handed'[n] > 0
                                  /\ n # m => handed'[n] = handed[n]
           /\ m \in Messages /\ registered => handed'[m] > 0
           /\ m \in Messages \ RetainedOnes => handed'[m] <= handed[m] + 1
<1>1. CASE registered /\ m # NoMessage
  <2>1. m \in Messages /\ handed[m] \in Nat
    BY <1>1 DEF TypeOK
  <2>2. CASE m \in RetainedOnes
    <3>1. handed' = [handed EXCEPT ![m] = 1]
      BY <1>1, <2>2 DEF HandOver
    <3> QED  BY <2>1, <2>2, <3>1 DEF TypeOK
  <2>3. CASE m \notin RetainedOnes
    <3>1. handed' = [handed EXCEPT ![m] = handed[m] + 1]
      BY <1>1, <2>3 DEF HandOver
    <3> QED  BY <2>1, <3>1 DEF TypeOK
  <2> QED  BY <2>2, <2>3
<1>2. CASE ~(registered /\ m # NoMessage)
  <2>1. handed' = handed /\ ~(m \in Messages /\ registered)
    BY <1>2, SessionAssumption DEF HandOver
  <2> QED  BY <2>1 DEF TypeOK
<1> QED  BY <1>1, <1>2

\* Losing the connection leaves part of the events and the loss itself.
LEMMA LinkEndsType ==
    ASSUME TypeOK, LinkEnds
    PROVE  /\ events' \in Seq({"connack", "lost"} \cup Messages)
           /\ link' = FALSE /\ subscribed' = FALSE
<1>1. PICK n \in 0..Len(events) : events' = Append(SubSeq(events, 1, n), "lost")
  BY DEF LinkEnds
<1>2. SubSeq(events, 1, n) \in Seq({"connack", "lost"} \cup Messages)
  BY DEF TypeOK
<1> QED  BY <1>1, <1>2 DEF LinkEnds

\* The first states.
LEMMA SteadyInit == ASSUME Init PROVE Steady
<1>1. handed \in [Messages -> Nat] /\ toSend \in [Senders -> Seq(Messages)]
  BY SessionAssumption DEF Init
<1>2. \A t \in Threads : thread[t] = Idle
  BY DEF Init
<1>3. queue \in Seq(Rows) /\ replayed \in Seq(DOMAIN queue) /\ {losses, leaves, crashes} \subseteq Nat
  BY DEF Init
<1>4. thread \in [Threads -> [at : Positions, rows : Seq(Nat), final : BOOLEAN]]
  BY DEF Init, Idle, Positions, Threads
<1>5. \A t \in Threads : ToSet(thread[t].rows) \subseteq DOMAIN queue
  BY <1>2 DEF ToSet, Idle
<1>6. events \in Seq({"connack", "lost"} \cup Messages) /\ seq \in [Senders -> Nat]
  BY DEF Init
<1>7. sender \in [Senders -> {"idle", "look", "enqueue", "publish"}]
  BY DEF Init
<1>8. TypeOK
  BY <1>1, <1>3, <1>4, <1>5, <1>6, <1>7 DEF Init, TypeOK
<1>9. ControlExact
  BY <1>2 DEF Init, ControlExact, Idle, Threads
<1> QED  BY <1>8, <1>9 DEF Steady

\* connect(), disconnect() and subscribe() of the application keep the types.
LEMMA AppSteady ==
    ASSUME Steady, Connect \/ Subscribe \/ Disconnect \/ AppSteps
    PROVE  Steady'
<1> USE DEF Database, Network, Client, Sending, Faults, Ghosts
<1>0. TypeOK /\ ControlExact /\ "app" \in Threads /\ "paho" \in Threads /\ "app" # "paho"
  BY DEF Steady, Threads
<1>1. CASE Connect
  <2>1. /\ thread' \in [Threads -> [at : Positions, rows : Seq(Nat), final : BOOLEAN]]
        /\ thread'["app"] = [at |-> "online", rows |-> <<>>, final |-> TRUE]
        /\ \A u \in Threads : u # "app" => thread'[u] = thread[u]
    BY <1>0, <1>1 DEF Connect, TypeOK, Positions
  <2>2. events' \in Seq({"connack", "lost"} \cup Messages)
    BY <1>0, <1>1 DEF Connect, TypeOK
  <2>3. \A t \in Threads : ToSet(thread'[t].rows) \subseteq DOMAIN queue
    BY <1>0, <2>1 DEF TypeOK, ToSet, Threads
  <2>4. TypeOK'
    BY <1>0, <1>1, <2>1, <2>2, <2>3 DEF Connect, TypeOK
  <2>5. ControlExact'
    BY <1>0, <1>1, <2>1 DEF Connect, ControlExact, Threads
  <2> QED  BY <2>4, <2>5 DEF Steady
<1>2. CASE Subscribe
  <2>1. Goto("app", "fetch") /\ "fetch" \in Positions
    BY <1>2 DEF Subscribe, Positions
  <2>2. events' \in Seq({"connack", "lost"} \cup Messages)
    BY <1>0, <1>2 DEF Subscribe, TypeOK
  <2>3. TypeOK'
    BY <1>0, <1>2, <2>1, <2>2, GotoType DEF Subscribe, TypeOK
  <2>4. ControlExact'
    BY <1>0, <1>2, <2>1, GotoType DEF Subscribe, ControlExact, Threads
  <2> QED  BY <2>3, <2>4 DEF Steady
<1>3. CASE Disconnect
  <2>1. Goto("app", "close") /\ "close" \in Positions
    BY <1>3 DEF Disconnect, Positions
  <2>2. session' \in {"none", "online", "offline"}
    BY <1>3 DEF Disconnect
  <2>3. TypeOK'
    BY <1>0, <1>3, <2>1, <2>2, GotoType, SMTT(20) DEF Disconnect, TypeOK
  <2>4. ControlExact'
    BY <1>0, <1>3, <2>1, GotoType DEF Disconnect, ControlExact, Threads
  <2> QED  BY <2>3, <2>4 DEF Steady
<1>4. CASE Fetch
  <2>1. PICK at \in {"idle", "select"} : Goto("app", at) /\ (at = "select" => ~recovered)
    BY <1>4 DEF Fetch
  <2>2. at \in Positions
    BY DEF Positions
  <2>3. upserted \in Messages \cup {NoMessage} /\ HandOver(upserted)
    BY <1>0, <1>4 DEF Fetch, TypeOK
  <2>4. handed' \in [Messages -> Nat]
    BY <1>0, <2>3, HandOverType
  <2>5. TypeOK'
    BY <1>0, <1>4, <2>1, <2>2, <2>4, GotoType DEF Fetch, TypeOK
  <2>6. ControlExact'
    BY <1>0, <1>4, <2>1, <2>2, GotoType DEF Fetch, ControlExact, Threads
  <2> QED  BY <2>5, <2>6 DEF Steady
<1>5. CASE Close
  <2>1. Goto("app", "stopping") /\ "stopping" \in Positions
    BY <1>5 DEF Close, Positions
  <2>2. /\ events' \in Seq({"connack", "lost"} \cup Messages)
        /\ link' = FALSE /\ subscribed' = FALSE
    <3>1. CASE link
      BY <1>0, <1>5, <3>1, LinkEndsType DEF Close
    <3>2. CASE ~link
      BY <1>0, <1>5, <3>2 DEF Close, TypeOK, ControlExact
    <3> QED  BY <3>1, <3>2
  <2>3. TypeOK'
    BY <1>0, <1>5, <2>1, <2>2, GotoType DEF Close, TypeOK
  <2>4. ControlExact'
    BY <1>0, <1>5, <2>1, <2>2, GotoType DEF Close, ControlExact, Threads
  <2> QED  BY <2>3, <2>4 DEF Steady
<1>6. CASE LoopStopped
  <2>1. Goto("app", "idle") /\ "idle" \in Positions
    BY <1>6 DEF LoopStopped, Positions
  <2>2. TypeOK'
    BY <1>0, <1>6, <2>1, GotoType DEF LoopStopped, TypeOK
  <2>3. ControlExact'
    BY <1>0, <1>6, <2>1, GotoType DEF LoopStopped, ControlExact, Threads
  <2> QED  BY <2>2, <2>3 DEF Steady
<1> QED  BY <1>1, <1>2, <1>3, <1>4, <1>5, <1>6 DEF AppSteps

\* So do the callbacks of the paho thread.
LEMMA PahoSteady == ASSUME Steady, PahoSteps PROVE Steady'
<1> USE DEF Database, Network, Client, Sending, Faults, Ghosts
<1>0. TypeOK /\ ControlExact /\ "app" \in Threads /\ "paho" \in Threads /\ "app" # "paho"
  BY DEF Steady, Threads
<1>1. events # <<>> => /\ Tail(events) \in Seq({"connack", "lost"} \cup Messages)
                       /\ Head(events) \in {"connack", "lost"} \cup Messages
                       /\ looping
  BY <1>0 DEF TypeOK, ControlExact
<1>2. CASE OnConnect
  <2>1. /\ thread' \in [Threads -> [at : Positions, rows : Seq(Nat), final : BOOLEAN]]
        /\ thread'["paho"] = [at |-> "online", rows |-> <<>>, final |-> TRUE]
        /\ thread'["app"] = thread["app"]
    BY <1>0, <1>2 DEF OnConnect, TypeOK, Positions
  <2>2. \A t \in Threads : ToSet(thread'[t].rows) \subseteq DOMAIN queue
    BY <1>0, <2>1 DEF TypeOK, ToSet, Threads
  <2>3. TypeOK'
    BY <1>0, <1>1, <1>2, <2>1, <2>2 DEF OnConnect, TypeOK
  <2>4. ControlExact'
    BY <1>0, <1>1, <1>2, <2>1 DEF OnConnect, ControlExact, Threads
  <2> QED  BY <2>3, <2>4 DEF Steady
<1>3. CASE OnDisconnect
  <2>1. Goto("paho", "down") /\ "down" \in Positions
    BY <1>3 DEF OnDisconnect, Positions
  <2>2. session' \in {"none", "online", "offline"}
    BY <1>0, <1>3 DEF OnDisconnect, TypeOK
  <2>3. TypeOK'
    BY <1>0, <1>1, <1>3, <2>1, <2>2, GotoType DEF OnDisconnect, TypeOK
  <2>4. ControlExact'
    BY <1>0, <1>1, <1>3, <2>1, GotoType DEF OnDisconnect, ControlExact, Threads
  <2> QED  BY <2>3, <2>4 DEF Steady
<1>4. CASE Disconnected
  <2>1. Goto("paho", "idle") /\ "idle" \in Positions
    BY <1>4 DEF Disconnected, Positions
  <2>2. TypeOK'
    BY <1>0, <1>4, <2>1, GotoType DEF Disconnected, TypeOK
  <2>3. ControlExact'
    BY <1>0, <1>4, <2>1, GotoType DEF Disconnected, ControlExact, Threads
  <2> QED  BY <2>2, <2>3 DEF Steady
<1>5. CASE OnMessage
  <2>1. handed' \in [Messages -> Nat]
    BY <1>0, <1>5, HandOverType DEF OnMessage
  <2>2. TypeOK'
    BY <1>0, <1>1, <1>5, <2>1 DEF OnMessage, TypeOK
  <2>3. ControlExact'
    BY <1>0, <1>1, <1>5 DEF OnMessage, ControlExact, Threads
  <2> QED  BY <2>2, <2>3 DEF Steady
<1>6. CASE Reconnect
  <2>1. TypeOK'
    BY <1>0, <1>6 DEF Reconnect, TypeOK
  <2>2. ControlExact'
    BY <1>0, <1>6 DEF Reconnect, ControlExact, Threads
  <2> QED  BY <2>1, <2>2 DEF Steady
<1> QED  BY <1>2, <1>3, <1>4, <1>5, <1>6 DEF PahoSteps

\* A thread that leaves a row behind has the others before it.
LEMMA TailOfRows ==
    ASSUME NEW rows \in Seq(Nat), rows # <<>>
    PROVE  /\ Tail(rows) \in Seq(Nat)
           /\ Head(rows) = rows[1] /\ 1 \in DOMAIN rows
           /\ DOMAIN Tail(rows) = 1..(Len(rows) - 1)
           /\ \A i \in DOMAIN Tail(rows) : i + 1 \in DOMAIN rows /\ Tail(rows)[i] = rows[i + 1]
           /\ ToSet(Tail(rows)) \subseteq ToSet(rows)
<1>1. /\ Tail(rows) \in Seq(Nat)
      /\ Head(rows) = rows[1] /\ 1 \in DOMAIN rows
      /\ DOMAIN Tail(rows) = 1..(Len(rows) - 1)
      /\ \A i \in DOMAIN Tail(rows) : i + 1 \in DOMAIN rows /\ Tail(rows)[i] = rows[i + 1]
  OBVIOUS
<1> QED  BY <1>1 DEF ToSet

\* Marking a row changes nothing else of the queue.
LEMMA MarkType ==
    ASSUME TypeOK, NEW t \in Threads, MarkRow(t), thread[t].rows # <<>>
    PROVE  /\ queue' \in Seq(Rows)
           /\ DOMAIN queue' = DOMAIN queue
           /\ thread[t].rows[1] \in DOMAIN queue
           /\ queue'[thread[t].rows[1]].delivered
           /\ \A r \in DOMAIN queue :
                /\ queue'[r].msg = queue[r].msg /\ queue'[r].from = queue[r].from
                /\ queue'[r].seq = queue[r].seq /\ queue'[r].due = queue[r].due
                /\ queue[r].delivered => queue'[r].delivered
                /\ r # thread[t].rows[1] => queue'[r] = queue[r]
           /\ thread' \in [Threads -> [at : Positions, rows : Seq(Nat), final : BOOLEAN]]
           /\ thread'[t].at = "replay" /\ thread'[t].rows = Tail(thread[t].rows)
           /\ thread'[t].final = thread[t].final
           /\ \A u \in Threads : u # t => thread'[u] = thread[u]
<1> DEFINE row == Head(thread[t].rows)
<1>1. /\ thread[t].rows \in Seq(Nat) /\ row = thread[t].rows[1]
      /\ Tail(thread[t].rows) \in Seq(Nat) /\ 1 \in DOMAIN thread[t].rows
  <2>1. thread[t].rows \in Seq(Nat)
    BY DEF TypeOK
  <2> QED  BY <2>1, TailOfRows
<1>2. row \in DOMAIN queue
  BY <1>1 DEF TypeOK, ToSet
<1>3. queue \in Seq(Rows) /\ queue[row] \in Rows
  BY <1>2 DEF TypeOK
<1>4. queue' = [queue EXCEPT ![row] = [queue[row] EXCEPT !.delivered = TRUE]]
  BY DEF MarkRow
<1> DEFINE marked == [queue[row] EXCEPT !.delivered = TRUE]
<1>5. /\ marked \in Rows /\ marked.delivered = TRUE
      /\ marked.msg = queue[row].msg /\ marked.from = queue[row].from
      /\ marked.seq = queue[row].seq /\ marked.due = queue[row].due
  BY <1>3 DEF Rows
<1> HIDE DEF marked
<1>6. queue' = [queue EXCEPT ![row] = marked]
  BY <1>4 DEF marked
<1> HIDE DEF row
<1>7. /\ queue' \in Seq(Rows) /\ DOMAIN queue' = DOMAIN queue
      /\ queue'[row] = marked /\ \A r \in DOMAIN queue : r # row => queue'[r] = queue[r]
  BY <1>2, <1>3, <1>5, <1>6
<1>8. "replay" \in Positions
  BY DEF Positions
<1>9. /\ thread' \in [Threads -> [at : Positions, rows : Seq(Nat), final : BOOLEAN]]
      /\ thread'[t].at = "replay" /\ thread'[t].rows = Tail(thread[t].rows)
      /\ thread'[t].final = thread[t].final
      /\ \A u \in Threads : u # t => thread'[u] = thread[u]
  BY <1>1, <1>8 DEF MarkRow, TypeOK
<1>10. row = thread[t].rows[1]
  BY <1>1 DEF row
<1> QED  BY <1>2, <1>5, <1>7, <1>9, <1>10

\* A replay selects the rows that are not delivered.
LEMMA SelectType ==
    ASSUME TypeOK, NEW t \in Threads, Select(t)
    PROVE  /\ thread' \in [Threads -> [at : Positions, rows : Seq(Nat), final : BOOLEAN]]
           /\ thread'[t].at = "replay"
           /\ ToSet(thread'[t].rows) = Undelivered
           /\ \A i, j \in DOMAIN thread'[t].rows :
                i # j => thread'[t].rows[i] # thread'[t].rows[j]
           /\ BySeq(thread'[t].rows)
           /\ thread'[t].final = thread[t].final
           /\ \A u \in Threads : u # t => thread'[u] = thread[u]
<1>1. PICK rows \in SetToSeqs(Undelivered) :
        BySeq(rows) /\ thread' = [thread EXCEPT ![t].at = "replay", ![t].rows = rows]
  BY DEF Select
<1>2. Len(queue) \in Nat /\ Undelivered \in SUBSET (1..Len(queue))
  BY DEF TypeOK, Undelivered
<1>3. /\ rows \in Seq(Nat) /\ ToSet(rows) = Undelivered
      /\ \A i, j \in DOMAIN rows : i # j => rows[i] # rows[j]
  <2>1. rows \in Seq(Undelivered)
    BY <1>1, <1>2, OrderOfSet
  <2>2. Undelivered \subseteq Nat
    BY <1>2
  <2>3. rows \in Seq(Nat)
    BY <2>1, <2>2, SeqMonotonic
  <2> QED  BY <1>1, <1>2, <2>3, OrderOfSet
<1>4. "replay" \in Positions
  BY DEF Positions
<1>5. /\ thread' \in [Threads -> [at : Positions, rows : Seq(Nat), final : BOOLEAN]]
      /\ thread'[t].at = "replay" /\ thread'[t].rows = rows
      /\ thread'[t].final = thread[t].final
      /\ \A u \in Threads : u # t => thread'[u] = thread[u]
  BY <1>1, <1>3, <1>4 DEF TypeOK
<1> QED  BY <1>1, <1>3, <1>5

\* A row is handed over that is in the queue.
LEMMA HandRowType ==
    ASSUME TypeOK, NEW t \in Threads, HandRow(t)
    PROVE  /\ thread[t].rows[1] \in DOMAIN queue
           /\ HandOver(queue[thread[t].rows[1]].msg)
           /\ queue[thread[t].rows[1]].msg \in Messages
           /\ replayed' = IF registered /\ thread[t].rows[1] \notin ToSet(replayed)
                            THEN Append(replayed, thread[t].rows[1]) ELSE replayed
<1>1. thread[t].rows \in Seq(Nat) /\ thread[t].rows # <<>>
  BY DEF TypeOK, HandRow
<1>2. Head(thread[t].rows) = thread[t].rows[1] /\ 1 \in DOMAIN thread[t].rows
  BY <1>1
<1>3. thread[t].rows[1] \in DOMAIN queue
  BY <1>2 DEF TypeOK, ToSet
<1>4. queue[thread[t].rows[1]] \in Rows
  BY <1>3 DEF TypeOK
<1> QED  BY <1>2, <1>3, <1>4 DEF HandRow, Rows

\* So do the steps of a replay.
LEMMA ReplaySteady ==
    ASSUME Steady, NEW t \in Threads, ReplaySteps(t)
    PROVE  Steady'
<1> USE DEF Database, Network, Client, Sending, Faults, Ghosts
<1>0. TypeOK /\ ControlExact
  BY DEF Steady
<1>1. CASE SetOnline(t)
  <2>1. Goto(t, "recover") /\ "recover" \in Positions
    BY <1>1 DEF SetOnline, Positions
  <2>2. TypeOK'
    BY <1>0, <1>1, <2>1, GotoType DEF SetOnline, TypeOK
  <2>3. ControlExact'
    BY <1>0, <1>1, <2>1, GotoType DEF SetOnline, ControlExact, Threads
  <2> QED  BY <2>2, <2>3 DEF Steady
<1>2. CASE RecoverAll(t)
  <2>1. Goto(t, "select") /\ "select" \in Positions
    BY <1>2 DEF RecoverAll, Positions
  <2>2. upserted \in Messages \cup {NoMessage} /\ HandOver(upserted)
    BY <1>0, <1>2 DEF RecoverAll, TypeOK
  <2>3. handed' \in [Messages -> Nat]
    BY <1>0, <2>2, HandOverType
  <2>4. TypeOK'
    BY <1>0, <1>2, <2>1, <2>3, GotoType DEF RecoverAll, TypeOK
  <2>5. ControlExact'
    BY <1>0, <1>2, <2>1, GotoType DEF RecoverAll, ControlExact, Threads
  <2> QED  BY <2>4, <2>5 DEF Steady
<1>3. CASE Select(t)
  <2>1. \A u \in Threads : ToSet(thread'[u].rows) \subseteq DOMAIN queue
    BY <1>0, <1>3, SelectType DEF TypeOK, Undelivered
  <2>2. TypeOK'
    BY <1>0, <1>3, <2>1, SelectType DEF Select, TypeOK
  <2>3. /\ thread[t].at = "select" /\ thread'[t].at = "replay"
        /\ thread'[t].final = thread[t].final
        /\ \A u \in Threads : u # t => thread'[u] = thread[u]
    BY <1>0, <1>3, SelectType DEF Select
  <2>4. ControlExact'
    BY <1>0, <1>3, <2>3 DEF Select, ControlExact, Threads
  <2> QED  BY <2>2, <2>4 DEF Steady
<1>4. CASE HandRow(t)
  <2>1. Goto(t, "mark") /\ "mark" \in Positions /\ thread[t].rows # <<>>
    BY <1>4 DEF HandRow, Positions
  <2>2. handed' \in [Messages -> Nat]
    BY <1>0, <1>4, HandRowType, HandOverType
  <2>3. replayed' \in Seq(DOMAIN queue)
    <3>1. replayed \in Seq(DOMAIN queue) /\ thread[t].rows[1] \in DOMAIN queue
      BY <1>0, <1>4, HandRowType DEF TypeOK
    <3>2. replayed' = replayed \/ replayed' = Append(replayed, thread[t].rows[1])
      BY <1>0, <1>4, HandRowType
    <3> QED  BY <3>1, <3>2
  <2>4. TypeOK'
    BY <1>0, <1>4, <2>1, <2>2, <2>3, GotoType DEF HandRow, TypeOK
  <2>5. ControlExact'
    BY <1>0, <1>4, <2>1, GotoType DEF HandRow, ControlExact, Threads
  <2> QED  BY <2>4, <2>5 DEF Steady
<1>5. CASE MarkRow(t)
  <2>1. thread[t].rows # <<>> /\ thread[t].rows \in Seq(Nat)
    BY <1>0, <1>5 DEF MarkRow, ControlExact, TypeOK
  <2>2. \A u \in Threads : ToSet(thread'[u].rows) \subseteq DOMAIN queue'
    <3>1. ToSet(Tail(thread[t].rows)) \subseteq ToSet(thread[t].rows)
      BY <2>1, TailOfRows
    <3>2. /\ DOMAIN queue' = DOMAIN queue
          /\ thread'[t].rows = Tail(thread[t].rows)
          /\ \A u \in Threads : u # t => thread'[u] = thread[u]
      BY <1>0, <1>5, <2>1, MarkType
    <3>3. \A u \in Threads : ToSet(thread[u].rows) \subseteq DOMAIN queue
      BY <1>0 DEF TypeOK
    <3> QED  BY <3>1, <3>2, <3>3
  <2>3. replayed' \in Seq(DOMAIN queue')
    BY <1>0, <1>5, <2>1, MarkType DEF MarkRow, TypeOK
  <2>4. TypeOK'
    BY <1>0, <1>5, <2>1, <2>2, <2>3, MarkType DEF MarkRow, TypeOK
  <2>5. ControlExact'
    BY <1>0, <1>5, <2>1, MarkType DEF MarkRow, ControlExact, Threads
  <2> QED  BY <2>4, <2>5 DEF Steady
<1>6. CASE ReplayEnds(t)
  <2>1. /\ thread' \in [Threads -> [at : Positions, rows : Seq(Nat), final : BOOLEAN]]
        /\ thread'[t].at = "idle" /\ thread'[t].rows = <<>>
        /\ \A u \in Threads : u # t => thread'[u] = thread[u]
    BY <1>0, <1>6 DEF ReplayEnds, TypeOK, Idle, Positions
  <2>2. \A u \in Threads : ToSet(thread'[u].rows) \subseteq DOMAIN queue
    <3>1. ToSet(<<>>) = {}
      BY DEF ToSet
    <3> QED  BY <1>0, <2>1, <3>1 DEF TypeOK
  <2>3. TypeOK'
    BY <1>0, <1>6, <2>1, <2>2 DEF ReplayEnds, TypeOK
  <2>4. ControlExact'
    BY <1>0, <1>6, <2>1 DEF ReplayEnds, ControlExact, Threads
  <2> QED  BY <2>3, <2>4 DEF Steady
<1> QED  BY <1>1, <1>2, <1>3, <1>4, <1>5, <1>6 DEF ReplaySteps

\* So do the steps of a sender.
LEMMA SenderSteady ==
    ASSUME Steady, NEW s \in Senders, Send(s) \/ SenderSteps(s)
    PROVE  Steady'
<1> USE DEF Database, Network, Client, Sending, Faults, Ghosts, Others
<1>0. TypeOK /\ ControlExact
  BY DEF Steady
<1>1. ASSUME toSend[s] # <<>>
      PROVE  /\ Head(toSend[s]) \in Messages
             /\ Tail(toSend[s]) \in Seq(Messages)
  BY <1>0, <1>1 DEF TypeOK
<1>2. CASE Send(s)
  <2>1. TypeOK'
    BY <1>0, <1>1, <1>2 DEF Send, TypeOK
  <2>2. ControlExact'
    BY <1>0, <1>2 DEF Send, ControlExact, TypeOK
  <2> QED  BY <2>1, <2>2 DEF Steady
<1>3. CASE Look(s)
  <2>1. TypeOK'
    BY <1>0, <1>3 DEF Look, TypeOK
  <2>2. ControlExact'
    BY <1>0, <1>3 DEF Look, ControlExact, TypeOK
  <2> QED  BY <2>1, <2>2 DEF Steady
<1>4. CASE Enqueue(s)
  <2> DEFINE row == [msg |-> Head(toSend[s]), from |-> s, seq |-> seq[s] + 1,
                     delivered |-> FALSE, due |-> registered]
  <2>1. toSend[s] # <<>>
    BY <1>0, <1>4 DEF Enqueue, ControlExact
  <2>2. row \in Rows
    BY <1>0, <1>1, <2>1 DEF TypeOK, Rows
  <2>3. queue' = Append(queue, row)
    BY <1>4 DEF Enqueue
  <2> HIDE DEF row
  <2>4. queue' \in Seq(Rows) /\ DOMAIN queue \subseteq DOMAIN queue'
    BY <1>0, <2>2, <2>3 DEF TypeOK
  <2>5. replayed' \in Seq(DOMAIN queue')
    BY <1>0, <1>4, <2>4 DEF Enqueue, TypeOK
  <2>6. /\ seq' \in [Senders -> Nat]
        /\ sender' \in [Senders -> {"idle", "look", "enqueue", "publish"}]
        /\ \A t \in Threads : ToSet(thread'[t].rows) \subseteq DOMAIN queue'
    BY <1>0, <1>4, <2>4, SMTT(20) DEF Enqueue, TypeOK
  <2>7. TypeOK'
    BY <1>0, <1>4, <2>4, <2>5, <2>6 DEF Enqueue, TypeOK
  <2>8. ControlExact'
    BY <1>0, <1>4 DEF Enqueue, ControlExact, TypeOK
  <2> QED  BY <2>7, <2>8 DEF Steady
<1>5. ASSUME NEW allowed \in BOOLEAN, Publish(s, allowed) PROVE Steady'
  <2>1. toSend[s] # <<>>
    BY <1>0, <1>5 DEF Publish, ControlExact
  <2>2. /\ kept' \in Messages \cup {NoMessage}
        /\ events' \in Seq({"connack", "lost"} \cup Messages)
        /\ subscribed \/ events' = events
    BY <1>0, <1>1, <1>5, <2>1 DEF Publish, TypeOK
  <2>3. TypeOK'
    BY <1>0, <1>1, <1>5, <2>1, <2>2 DEF Publish, TypeOK
  <2>4. ControlExact'
    BY <1>0, <1>5, <2>2 DEF Publish, ControlExact, TypeOK
  <2> QED  BY <2>3, <2>4 DEF Steady
<1> QED  BY <1>2, <1>3, <1>4, <1>5 DEF SenderSteps

\* A crash forgets that rows were inserted for a callback that was there.
LEMMA CrashType ==
    ASSUME TypeOK, Crash
    PROVE  /\ queue' \in Seq(Rows) /\ DOMAIN queue' = DOMAIN queue
           /\ \A r \in DOMAIN queue :
                /\ queue'[r].msg = queue[r].msg /\ queue'[r].from = queue[r].from
                /\ queue'[r].seq = queue[r].seq /\ queue'[r].due = FALSE
                /\ queue'[r].delivered = queue[r].delivered
<1>1. queue \in Seq(Rows) /\ \A r \in DOMAIN queue : queue[r] \in Rows
  BY DEF TypeOK
<1>2. queue' = [r \in DOMAIN queue |-> [queue[r] EXCEPT !.due = FALSE]]
  BY DEF Crash
<1>3. \A r \in DOMAIN queue :
        LET row == [queue[r] EXCEPT !.due = FALSE] IN
          /\ row \in Rows /\ row.msg = queue[r].msg /\ row.from = queue[r].from
          /\ row.seq = queue[r].seq /\ row.due = FALSE
          /\ row.delivered = queue[r].delivered
  BY <1>1 DEF Rows
<1>4. DOMAIN queue = 1..Len(queue) /\ Len(queue) \in Nat
  BY <1>1
<1>5. queue' \in Seq(Rows)
  BY <1>2, <1>3, <1>4
<1> QED  BY <1>2, <1>3, <1>5

\* So do faults and the heartbeat.
LEMMA RestSteady ==
    ASSUME Steady, StartHeartbeat \/ HeartbeatEnds \/ LoseLink \/ Crash
    PROVE  Steady'
<1> USE DEF Database, Network, Client, Sending, Faults, Ghosts
<1>0. TypeOK /\ ControlExact
  BY DEF Steady
<1>1. CASE StartHeartbeat \/ HeartbeatEnds
  <2>1. TypeOK'
    BY <1>0, <1>1 DEF StartHeartbeat, HeartbeatEnds, TypeOK
  <2>2. ControlExact'
    BY <1>0, <1>1 DEF StartHeartbeat, HeartbeatEnds, ControlExact
  <2> QED  BY <2>1, <2>2 DEF Steady
<1>2. CASE LoseLink
  <2>1. LinkEnds /\ link
    BY <1>2 DEF LoseLink
  <2>2. /\ events' \in Seq({"connack", "lost"} \cup Messages)
        /\ link' = FALSE /\ subscribed' = FALSE
    BY <1>0, <2>1, LinkEndsType
  <2>3. losses' \in Nat
    BY <1>0, <1>2 DEF LoseLink, TypeOK
  <2>4. TypeOK'
    BY <1>0, <1>2, <2>2, <2>3 DEF LoseLink, TypeOK
  <2>5. ControlExact'
    BY <1>0, <1>2, <2>1, <2>2 DEF LoseLink, ControlExact
  <2> QED  BY <2>4, <2>5 DEF Steady
<1>3. CASE Crash
  <2>1. /\ thread' \in [Threads -> [at : Positions, rows : Seq(Nat), final : BOOLEAN]]
        /\ \A t \in Threads : thread'[t].at = "idle" /\ thread'[t].rows = <<>>
    BY <1>3 DEF Crash, Idle, Positions
  <2>2. \A t \in Threads : ToSet(thread'[t].rows) \subseteq DOMAIN queue'
    BY <2>1 DEF ToSet
  <2>3. replayed' \in Seq(DOMAIN queue')
    BY <1>0, <1>3, CrashType DEF Crash, TypeOK
  <2>4. crashes' \in Nat /\ events' \in Seq({"connack", "lost"} \cup Messages)
    BY <1>0, <1>3 DEF Crash, TypeOK
  <2>5. queue' \in Seq(Rows)
    BY <1>0, <1>3, CrashType
  <2>6. TypeOK'
    BY <1>0, <1>3, <2>1, <2>2, <2>3, <2>4, <2>5 DEF Crash, TypeOK
  <2>7. ControlExact'
    BY <1>0, <1>3, <2>1 DEF Crash, ControlExact, Threads
  <2> QED  BY <2>6, <2>7 DEF Steady
<1> QED  BY <1>1, <1>2, <1>3

\* Every step does.
LEMMA SteadyStep == ASSUME Steady, [Next]_vars PROVE Steady'
<1>1. CASE UNCHANGED vars
  <2>1. TypeOK'
    BY <1>1 DEF Steady, vars, TypeOK
  <2>2. ControlExact'
    BY <1>1 DEF Steady, vars, ControlExact
  <2> QED  BY <2>1, <2>2 DEF Steady
<1>2. CASE Next
  BY <1>2, AppSteady, PahoSteady, ReplaySteady, SenderSteady, RestSteady DEF Next
<1> QED  BY <1>1, <1>2

\* Every state is well typed, for any senders, messages and numbers of faults
\* (client.py, persistence.py).
THEOREM SessionTypeCorrect == Spec => []TypeOK
<1>1. Init => Steady
  BY SteadyInit
<1>2. Steady /\ [Next]_vars => Steady'
  BY SteadyStep
<1>3. Steady => TypeOK
  BY DEF Steady
<1> QED  BY <1>1, <1>2, <1>3, PTL DEF Spec

-----------------------------------------------------------------------------
(* What a step may do to the rows of the queue and of the threads.         *)

Active == {"online", "recover", "select", "replay", "mark"}

\* The step neither selects, hands over, marks nor inserts a row.
Keeps ==
    /\ UNCHANGED <<queue, replayed>>
    /\ registered => registered'
    /\ \A t \in Threads : /\ thread'[t].rows = thread[t].rows
                          /\ thread'[t].at = "mark" <=> thread[t].at = "mark"
    /\ \A m \in Messages : handed[m] > 0 => handed'[m] > 0
    /\ registered' /\ thread'["app"].at \in Active
         => \/ registered /\ thread["app"].at \in Active
            \/ \A t \in Threads : thread[t].rows = <<>> /\ thread[t].at # "mark"

\* A call of the application selects, hands over, marks and inserts nothing.
LEMMA AppKeeps ==
    ASSUME Steady, Connect \/ Subscribe \/ Disconnect \/ AppSteps
    PROVE  Keeps
<1> USE DEF Database, Network, Client, Sending, Faults, Ghosts
<1>0. /\ TypeOK /\ ControlExact /\ "app" \in Threads /\ "paho" \in Threads
      /\ \A t \in Threads : t = "app" \/ t = "paho"
  BY DEF Steady, Threads
<1>1. CASE Connect
  <2>1. /\ thread["app"].at = "idle" /\ thread["app"].rows = <<>>
        /\ thread["paho"].at = "idle" /\ thread["paho"].rows = <<>>
    BY <1>0, <1>1 DEF Connect, ControlExact
  <2>2. /\ thread'["app"].rows = <<>> /\ thread'["app"].at = "online"
        /\ thread'["paho"] = thread["paho"]
    BY <1>0, <1>1 DEF Connect, TypeOK
  <2> QED  BY <1>0, <1>1, <2>1, <2>2 DEF Connect, Keeps
<1>2. CASE Subscribe
  <2>1. Goto("app", "fetch") /\ "fetch" \in Positions
    BY <1>2 DEF Subscribe, Positions
  <2> QED  BY <1>0, <1>2, <2>1, GotoType, ZenonT(40) DEF Subscribe, Keeps, Active
<1>3. CASE Disconnect
  <2>1. Goto("app", "close") /\ "close" \in Positions
    BY <1>3 DEF Disconnect, Positions
  <2> QED  BY <1>0, <1>3, <2>1, GotoType DEF Disconnect, Keeps, Active
<1>4. CASE Fetch
  <2>1. PICK at \in {"idle", "select"} : Goto("app", at) /\ (at = "select" => ~recovered)
    BY <1>4 DEF Fetch
  <2>2. at \in Positions
    BY DEF Positions
  <2>3. upserted \in Messages \cup {NoMessage} /\ HandOver(upserted)
    BY <1>0, <1>4 DEF Fetch, TypeOK
  <2>4. \A m \in Messages : handed[m] > 0 => handed'[m] > 0
    BY <1>0, <2>3, HandOverType
  <2>5. thread["app"].at = "fetch" /\ thread["app"].rows = <<>>
    BY <1>0, <1>4 DEF Fetch, ControlExact
  <2>6. at = "select" => ~looping
    BY <1>0, <2>1, <2>5 DEF ControlExact
  <2>7. at = "select" => thread["paho"].at = "idle" /\ thread["paho"].rows = <<>>
    BY <1>0, <2>6 DEF ControlExact
  <2>8. \A t \in Threads : /\ thread'[t].rows = thread[t].rows
                           /\ t # "app" => thread'[t] = thread[t]
    BY <1>0, <2>1, <2>2, GotoType
  <2>9. thread'["app"].at = at
    BY <1>0, <2>1, <2>2, GotoType
  <2> QED  BY <1>0, <1>4, <2>4, <2>5, <2>7, <2>8, <2>9 DEF Fetch, Keeps, Active
<1>5. CASE Close
  <2>1. Goto("app", "stopping") /\ "stopping" \in Positions
    BY <1>5 DEF Close, Positions
  <2> QED  BY <1>0, <1>5, <2>1, GotoType, SMTT(20) DEF Close, Keeps, Active
<1>6. CASE LoopStopped
  <2>1. Goto("app", "idle") /\ "idle" \in Positions
    BY <1>6 DEF LoopStopped, Positions
  <2> QED  BY <1>0, <1>6, <2>1, GotoType DEF LoopStopped, Keeps, Active
<1> QED  BY <1>1, <1>2, <1>3, <1>4, <1>5, <1>6 DEF AppSteps

\* Nor does a callback of the paho thread, or the begin or end of a replay.
LEMMA ThreadKeeps ==
    ASSUME Steady,
           \/ PahoSteps
           \/ \E t \in Threads : SetOnline(t) \/ RecoverAll(t) \/ ReplayEnds(t)
    PROVE  Keeps
<1> USE DEF Database, Network, Client, Sending, Faults, Ghosts
<1>0. /\ TypeOK /\ ControlExact /\ "app" \in Threads /\ "paho" \in Threads
      /\ \A t \in Threads : t = "app" \/ t = "paho"
  BY DEF Steady, Threads
<1>1. CASE OnConnect
  <2>1. thread["paho"].rows = <<>>
    BY <1>0, <1>1 DEF OnConnect, ControlExact
  <2>2. /\ thread'["paho"].rows = <<>> /\ thread'["paho"].at = "online"
        /\ thread'["app"] = thread["app"]
    BY <1>0, <1>1 DEF OnConnect, TypeOK
  <2> QED  BY <1>0, <1>1, <2>1, <2>2 DEF OnConnect, Keeps
<1>2. CASE OnDisconnect
  <2>1. Goto("paho", "down") /\ "down" \in Positions
    BY <1>2 DEF OnDisconnect, Positions
  <2>2. /\ thread'["app"] = thread["app"] /\ thread'["paho"].rows = thread["paho"].rows
        /\ thread'["paho"].at = "down" /\ thread["paho"].at = "idle"
    BY <1>0, <1>2, <2>1, GotoType DEF OnDisconnect
  <2> QED  BY <1>0, <1>2, <2>2 DEF OnDisconnect, Keeps
<1>3. CASE Disconnected
  <2>1. Goto("paho", "idle") /\ "idle" \in Positions
    BY <1>3 DEF Disconnected, Positions
  <2>2. /\ thread'["app"] = thread["app"] /\ thread'["paho"].rows = thread["paho"].rows
        /\ thread'["paho"].at = "idle" /\ thread["paho"].at = "down"
    BY <1>0, <1>3, <2>1, GotoType DEF Disconnected
  <2> QED  BY <1>0, <1>3, <2>2 DEF Disconnected, Keeps
<1>4. CASE OnMessage
  <2>1. \A m \in Messages : handed[m] > 0 => handed'[m] > 0
    BY <1>0, <1>4, HandOverType DEF OnMessage
  <2> QED  BY <1>4, <2>1 DEF OnMessage, Keeps
<1>5. CASE Reconnect
  BY <1>5 DEF Reconnect, Keeps
<1>6. ASSUME NEW t \in Threads, SetOnline(t) PROVE Keeps
  <2>1. Goto(t, "recover") /\ "recover" \in Positions
    BY <1>6 DEF SetOnline, Positions
  <2> QED  BY <1>0, <1>6, <2>1, GotoType, ZenonT(40) DEF SetOnline, Keeps, Active
<1>7. ASSUME NEW t \in Threads, RecoverAll(t) PROVE Keeps
  <2>1. Goto(t, "select") /\ "select" \in Positions
    BY <1>7 DEF RecoverAll, Positions
  <2>2. upserted \in Messages \cup {NoMessage} /\ HandOver(upserted)
    BY <1>0, <1>7 DEF RecoverAll, TypeOK
  <2>3. \A m \in Messages : handed[m] > 0 => handed'[m] > 0
    BY <1>0, <2>2, HandOverType
  <2> QED  BY <1>0, <1>7, <2>1, <2>3, GotoType, ZenonT(40) DEF RecoverAll, Keeps, Active
<1>8. ASSUME NEW t \in Threads, ReplayEnds(t) PROVE Keeps
  <2>1. /\ thread'[t].rows = <<>> /\ thread'[t].at = "idle"
        /\ \A u \in Threads : u # t => thread'[u] = thread[u]
    BY <1>0, <1>8 DEF ReplayEnds, TypeOK, Idle
  <2>2. thread[t].rows = <<>> /\ thread[t].at = "replay"
    BY <1>8 DEF ReplayEnds
  <2> QED  BY <1>0, <1>8, <2>1, <2>2 DEF ReplayEnds, Keeps, Active
<1> QED  BY <1>1, <1>2, <1>3, <1>4, <1>5, <1>6, <1>7, <1>8 DEF PahoSteps

\* Every step is one of these, or selects, hands over, marks or inserts rows, or
\* is a crash.
LEMMA StepKinds ==
    ASSUME Steady, [Next]_vars
    PROVE  \/ Keeps
           \/ \E t \in Threads : Select(t) \/ HandRow(t) \/ MarkRow(t)
           \/ \E s \in Senders : Enqueue(s)
           \/ Crash
<1> USE DEF Database, Network, Client, Sending, Faults, Ghosts
<1>1. CASE UNCHANGED vars
  BY <1>1 DEF vars, Keeps
<1>2. CASE StartHeartbeat \/ HeartbeatEnds \/ LoseLink
  BY <1>2 DEF StartHeartbeat, HeartbeatEnds, LoseLink, Keeps
<1>3. ASSUME NEW s \in Senders,
             Send(s) \/ Look(s) \/ \E allowed \in BOOLEAN : Publish(s, allowed)
      PROVE  Keeps
  BY <1>3 DEF Send, Look, Publish, Others, Keeps
<1> QED  BY <1>1, <1>2, <1>3, AppKeeps, ThreadKeeps DEF Next, ReplaySteps, SenderSteps

\* An inserted row is the last one and not delivered.
LEMMA EnqueueType ==
    ASSUME Steady, NEW s \in Senders, Enqueue(s)
    PROVE  LET n == Len(queue) + 1 IN
             /\ n \notin DOMAIN queue /\ DOMAIN queue' = DOMAIN queue \cup {n}
             /\ \A r \in DOMAIN queue : r < n /\ queue'[r] = queue[r]
             /\ queue'[n].msg = Head(toSend[s]) /\ queue'[n].from = s
             /\ queue'[n].seq = seq[s] + 1
             /\ queue'[n].delivered = FALSE /\ queue'[n].due = registered
             /\ toSend[s] # <<>>
<1> DEFINE row == [msg |-> Head(toSend[s]), from |-> s, seq |-> seq[s] + 1,
                   delivered |-> FALSE, due |-> registered]
<1>1. toSend[s] # <<>> /\ toSend[s] \in Seq(Messages)
  BY DEF Enqueue, Steady, ControlExact, TypeOK
<1>2. row \in Rows
  BY <1>1 DEF Steady, TypeOK, Rows
<1>3. queue' = Append(queue, row) /\ queue \in Seq(Rows)
  BY DEF Enqueue, Steady, TypeOK
<1>4. /\ row.msg = Head(toSend[s]) /\ row.from = s /\ row.seq = seq[s] + 1
      /\ row.delivered = FALSE /\ row.due = registered
  OBVIOUS
<1> HIDE DEF row
<1> QED  BY <1>1, <1>2, <1>3, <1>4

-----------------------------------------------------------------------------
(* What is marked was handed over.                                         *)

Handed == MarkedIsHanded /\ QueuedIsHanded

\* Every row has a message, a sender and a number.
LEMMA QueueRows ==
    ASSUME TypeOK, NEW r \in DOMAIN queue
    PROVE  /\ queue[r] \in Rows /\ r \in Nat
           /\ queue[r].msg \in Messages /\ queue[r].from \in Senders /\ queue[r].seq \in Nat
<1>1. queue \in Seq(Rows)
  BY DEF TypeOK
<1>2. queue[r] \in Rows /\ r \in Nat
  BY <1>1
<1> QED  BY <1>2 DEF Rows

\* A row in hand is in the queue and has a message.
LEMMA RowInHand ==
    ASSUME TypeOK, NEW t \in Threads, NEW i \in DOMAIN thread[t].rows
    PROVE  /\ thread[t].rows[i] \in DOMAIN queue
           /\ queue[thread[t].rows[i]].msg \in Messages
<1>1. thread[t].rows[i] \in DOMAIN queue
  BY DEF TypeOK, ToSet
<1>2. queue[thread[t].rows[i]] \in Rows
  BY <1>1 DEF TypeOK
<1> QED  BY <1>1, <1>2 DEF Rows

\* A thread that marks has a row.
LEMMA MarkHasRow ==
    ASSUME Steady, NEW t \in Threads, thread[t].at = "mark"
    PROVE  /\ thread[t].rows # <<>> /\ 1 \in DOMAIN thread[t].rows
           /\ thread[t].rows[1] \in DOMAIN queue
           /\ queue[thread[t].rows[1]].msg \in Messages
<1>1. thread[t].rows # <<>> /\ thread[t].rows \in Seq(Nat)
  BY DEF Steady, ControlExact, TypeOK
<1>2. 1 \in DOMAIN thread[t].rows
  BY <1>1
<1> QED  BY <1>1, <1>2, RowInHand DEF Steady

\* The first states.
LEMMA HandedInit == ASSUME Init PROVE Handed
  BY DEF Init, Handed, MarkedIsHanded, QueuedIsHanded, Idle, Threads

\* Every step keeps it.
LEMMA HandedStep == ASSUME Steady, Handed, [Next]_vars PROVE Handed'
<1>0. TypeOK /\ MarkedIsHanded /\ QueuedIsHanded
  BY DEF Steady, Handed
<1>1. CASE Keeps
  <2>1. \A r \in DOMAIN queue : queue[r].msg \in Messages
    BY <1>0, QueueRows
  <2>2. QueuedIsHanded'
    BY <1>0, <1>1, <2>1 DEF Keeps, QueuedIsHanded
  <2>3. \A t \in Threads : thread[t].at = "mark" => queue[thread[t].rows[1]].msg \in Messages
    BY MarkHasRow
  <2>4. MarkedIsHanded'
    BY <1>0, <1>1, <2>3 DEF Keeps, MarkedIsHanded
  <2> QED  BY <2>2, <2>4 DEF Handed
<1>2. ASSUME NEW t \in Threads, Select(t) PROVE Handed'
  <2>1. /\ thread'[t].at = "replay" /\ \A u \in Threads : u # t => thread'[u] = thread[u]
        /\ UNCHANGED <<queue, registered, handed>>
    BY <1>0, <1>2, SelectType DEF Select, Database, Client, Ghosts
  <2> QED  BY <1>0, <2>1 DEF Handed, MarkedIsHanded, QueuedIsHanded
<1>3. ASSUME NEW t \in Threads, HandRow(t) PROVE Handed'
  <2> DEFINE row == thread[t].rows[1]
  <2>1. row \in DOMAIN queue /\ queue[row].msg \in Messages /\ HandOver(queue[row].msg)
    BY <1>0, <1>3, HandRowType
  <2>2. /\ \A m \in Messages : handed[m] > 0 => handed'[m] > 0
        /\ registered => handed'[queue[row].msg] > 0
    BY <1>0, <2>1, HandOverType
  <2>3. Goto(t, "mark") /\ "mark" \in Positions
    BY <1>3 DEF HandRow, Positions
  <2>4. \A u \in Threads : /\ thread'[u].rows = thread[u].rows
                           /\ u # t => thread'[u] = thread[u]
    BY <1>0, <2>3, GotoType
  <2>5. UNCHANGED <<queue, registered>>
    BY <1>3 DEF HandRow, Database, Client
  <2>6. \A r \in DOMAIN queue : queue[r].msg \in Messages
    BY <1>0, QueueRows
  <2>7. QueuedIsHanded'
    BY <1>0, <2>2, <2>5, <2>6 DEF QueuedIsHanded
  <2>8. \A u \in Threads : thread[u].at = "mark" => queue[thread[u].rows[1]].msg \in Messages
    BY MarkHasRow
  <2>9. ASSUME NEW u \in Threads, thread'[u].at = "mark", queue'[thread'[u].rows[1]].due
        PROVE  handed'[queue'[thread'[u].rows[1]].msg] > 0
    <3>1. CASE u = t
      BY <1>0, <2>1, <2>2, <2>4, <2>5, <2>9, <3>1 DEF MarkedIsHanded
    <3>2. CASE u # t
      BY <1>0, <2>2, <2>4, <2>5, <2>8, <2>9, <3>2 DEF MarkedIsHanded
    <3> QED  BY <3>1, <3>2
  <2>10. MarkedIsHanded'
    BY <1>0, <2>5, <2>9 DEF MarkedIsHanded
  <2> QED  BY <2>7, <2>10 DEF Handed
<1>4. ASSUME NEW t \in Threads, MarkRow(t) PROVE Handed'
  <2> DEFINE row == thread[t].rows[1]
  <2>1. thread[t].at = "mark"
    BY <1>4 DEF MarkRow
  <2>2. thread[t].rows # <<>> /\ row \in DOMAIN queue
    BY <2>1, MarkHasRow
  <2>3. /\ DOMAIN queue' = DOMAIN queue
        /\ \A r \in DOMAIN queue :
             /\ queue'[r].msg = queue[r].msg /\ queue'[r].due = queue[r].due
             /\ r # row => queue'[r] = queue[r]
        /\ thread'[t].at = "replay"
        /\ \A u \in Threads : u # t => thread'[u] = thread[u]
    BY <1>0, <1>4, <2>2, MarkType
  <2>4. UNCHANGED <<handed, registered>>
    BY <1>4 DEF MarkRow, Ghosts, Client
  <2>5. queue[row].due => handed[queue[row].msg] > 0
    BY <1>0, <2>1 DEF MarkedIsHanded
  <2>6. QueuedIsHanded'
    BY <1>0, <2>2, <2>3, <2>4, <2>5 DEF QueuedIsHanded
  <2>7. \A u \in Threads : thread[u].at = "mark" => thread[u].rows[1] \in DOMAIN queue
    BY MarkHasRow
  <2>8. MarkedIsHanded'
    BY <1>0, <2>3, <2>4, <2>7 DEF MarkedIsHanded
  <2> QED  BY <2>6, <2>8 DEF Handed
<1>5. ASSUME NEW s \in Senders, Enqueue(s) PROVE Handed'
  <2> DEFINE n == Len(queue) + 1
  <2>1. /\ DOMAIN queue' = DOMAIN queue \cup {n}
        /\ \A r \in DOMAIN queue : queue'[r] = queue[r]
        /\ queue'[n].delivered = FALSE /\ queue'[n].due = registered
    BY <1>5, EnqueueType
  <2> HIDE DEF n
  <2>2. UNCHANGED <<thread, handed, registered>>
    BY <1>5 DEF Enqueue, Others, Ghosts, Client
  <2>3. QueuedIsHanded'
    BY <1>0, <2>1, <2>2 DEF QueuedIsHanded
  <2>4. \A u \in Threads : thread[u].at = "mark" => thread[u].rows[1] \in DOMAIN queue
    BY MarkHasRow
  <2>5. MarkedIsHanded'
    BY <1>0, <2>1, <2>2, <2>4 DEF MarkedIsHanded
  <2> QED  BY <2>3, <2>5 DEF Handed
<1>6. CASE Crash
  <2>1. DOMAIN queue' = DOMAIN queue /\ \A r \in DOMAIN queue : queue'[r].due = FALSE
    BY <1>0, <1>6, CrashType
  <2>2. \A t \in Threads : thread'[t].at # "mark"
    BY <1>6 DEF Crash, Idle
  <2> QED  BY <2>1, <2>2 DEF Handed, QueuedIsHanded, MarkedIsHanded
<1> QED  BY <1>1, <1>2, <1>3, <1>4, <1>5, <1>6, StepKinds

\* Whatever threads replay the queue, a row is not marked before the callback had
\* its message, if it was there (persistence.py:303).
THEOREM QueuedIsHandedOver == Spec => []QueuedIsHanded
<1>1. Init => Steady /\ Handed
  BY SteadyInit, HandedInit
<1>2. Steady /\ Handed /\ [Next]_vars => Steady' /\ Handed'
  BY SteadyStep, HandedStep
<1>3. Handed => QueuedIsHanded
  BY DEF Handed
<1> QED  BY <1>1, <1>2, <1>3, PTL DEF Spec

-----------------------------------------------------------------------------
(* The order of the replays.                                               *)

\* What is still to send and is its tail.
LEMMA TailToSend ==
    ASSUME NEW q \in Seq(Messages), q # <<>>, IsInjective(q)
    PROVE  /\ IsInjective(Tail(q)) /\ ToSet(Tail(q)) \subseteq ToSet(q)
           /\ Head(q) \in ToSet(q) /\ Head(q) \notin ToSet(Tail(q))
           /\ ToSet(q) = ToSet(Tail(q)) \cup {Head(q)}
<1>1. /\ Len(q) \in Nat \ {0} /\ DOMAIN q = 1..Len(q) /\ Head(q) = q[1]
      /\ DOMAIN Tail(q) = 1..(Len(q) - 1)
      /\ \A i \in DOMAIN Tail(q) : i + 1 \in DOMAIN q /\ Tail(q)[i] = q[i + 1]
      /\ \A i \in DOMAIN q : i # 1 => i - 1 \in DOMAIN Tail(q) /\ Tail(q)[i - 1] = q[i]
  OBVIOUS
<1>2. IsInjective(Tail(q))
  BY <1>1 DEF IsInjective
<1>3. Head(q) \notin ToSet(Tail(q))
  BY <1>1 DEF IsInjective, ToSet
<1>4. ToSet(q) = ToSet(Tail(q)) \cup {Head(q)}
  <2>1. ToSet(Tail(q)) \subseteq ToSet(q) /\ Head(q) \in ToSet(q)
    BY <1>1 DEF ToSet
  <2>2. ASSUME NEW x \in ToSet(q), x # Head(q) PROVE x \in ToSet(Tail(q))
    <3>1. PICK i \in DOMAIN q : q[i] = x
      BY DEF ToSet
    <3>2. i # 1
      BY <1>1, <2>2, <3>1
    <3> QED  BY <1>1, <3>1, <3>2 DEF ToSet
  <2> QED  BY <2>1, <2>2
<1> QED  BY <1>2, <1>3, <1>4

\* The first states.
LEMMA SendingInit == ASSUME Init PROVE SendingExact
  BY SessionAssumption DEF Init, SendingExact

\* Every step keeps it.
LEMMA SendingStep == ASSUME Steady, SendingExact, [Next]_vars PROVE SendingExact'
<1> USE DEF Database, Network, Client, Sending, Faults, Ghosts
<1>0. TypeOK /\ ControlExact
  BY DEF Steady
<1>1. CASE UNCHANGED <<queue, toSend, seq, sender>>
  BY <1>1 DEF SendingExact
<1>2. ASSUME UNCHANGED <<toSend, seq, sender>>, DOMAIN queue' = DOMAIN queue,
             \A r \in DOMAIN queue :
               /\ queue'[r].msg = queue[r].msg /\ queue'[r].from = queue[r].from
               /\ queue'[r].seq = queue[r].seq
      PROVE  SendingExact'
  BY <1>2 DEF SendingExact
<1>3. ASSUME NEW t \in Threads, MarkRow(t) PROVE SendingExact'
  <2>1. thread[t].rows # <<>>
    BY <1>0, <1>3 DEF MarkRow, ControlExact
  <2> QED  BY <1>0, <1>2, <1>3, <2>1, MarkType DEF MarkRow
<1>4. CASE Crash
  BY <1>0, <1>2, <1>4, CrashType DEF Crash
<1>5. ASSUME NEW s \in Senders, Send(s) PROVE SendingExact'
  <2>1. UNCHANGED <<queue, toSend, seq>> /\ sender[s] = "idle"
        /\ \A r \in Senders : r # s => sender'[r] = sender[r]
    BY <1>0, <1>5 DEF Send, TypeOK
  <2>2. \A r \in DOMAIN queue : queue[r].from \in Senders
    BY <1>0, QueueRows
  <2> QED  BY <2>1, <2>2 DEF SendingExact
<1>6. ASSUME NEW s \in Senders, Look(s) PROVE SendingExact'
  <2>1. UNCHANGED <<queue, toSend, seq>> /\ sender[s] = "look"
        /\ \A r \in Senders : r # s => sender'[r] = sender[r]
    BY <1>0, <1>6 DEF Look, TypeOK
  <2>2. \A r \in DOMAIN queue : queue[r].from \in Senders
    BY <1>0, QueueRows
  <2> QED  BY <2>1, <2>2 DEF SendingExact
<1>7. ASSUME NEW s \in Senders, Enqueue(s) PROVE SendingExact'
  <2> DEFINE n == Len(queue) + 1
  <2>1. /\ n \notin DOMAIN queue /\ DOMAIN queue' = DOMAIN queue \cup {n}
        /\ \A r \in DOMAIN queue : r < n /\ queue'[r] = queue[r]
        /\ queue'[n].msg = Head(toSend[s]) /\ queue'[n].from = s
        /\ queue'[n].seq = seq[s] + 1 /\ toSend[s] # <<>>
    BY <1>7, EnqueueType
  <2>2. n \in Nat /\ \A r \in DOMAIN queue : r \in Nat
    BY <1>0, QueueRows DEF TypeOK
  <2> HIDE DEF n
  <2>3. /\ UNCHANGED toSend /\ sender[s] = "enqueue" /\ sender'[s] = "publish"
        /\ seq'[s] = seq[s] + 1 /\ seq[s] \in Nat
        /\ \A r \in Senders : r # s => sender'[r] = sender[r] /\ seq'[r] = seq[r]
    BY <1>0, <1>7 DEF Enqueue, TypeOK
  <2>4. Head(toSend[s]) \in ToSet(toSend[s])
    BY <1>0, <2>1, TailToSend DEF SendingExact, TypeOK
  <2>5. \A r \in DOMAIN queue : queue[r].from \in Senders /\ queue[r].seq \in Nat
    BY <1>0, QueueRows
  <2>6. \A r \in DOMAIN queue :
          /\ queue[r].msg # Head(toSend[s])
          /\ queue[r].from = s => queue[r].seq < seq[s] + 1
    <3> TAKE r \in DOMAIN queue
    <3>1. queue[r].from = s => queue[r].msg \notin ToSet(toSend[s])
      BY <2>3 DEF SendingExact
    <3>2. queue[r].from # s => queue[r].msg \notin ToSet(toSend[s])
      BY <2>5, SessionAssumption DEF SendingExact
    <3>3. queue[r].from = s => queue[r].seq <= seq[s]
      BY DEF SendingExact
    <3> QED  BY <2>3, <2>4, <2>5, <3>1, <3>2, <3>3
  <2>7. ASSUME NEW r \in DOMAIN queue'
        PROVE  /\ queue'[r].seq <= seq'[queue'[r].from]
               /\ queue'[r].msg \in ToSet(Sent[queue'[r].from])
               /\ queue'[r].msg \in ToSet(toSend'[queue'[r].from])
                    => /\ sender'[queue'[r].from] = "publish"
                       /\ queue'[r].msg = Head(toSend'[queue'[r].from])
    <3>1. CASE r = n
      <4>1. Head(toSend[s]) \in ToSet(Sent[s])
        BY <2>4 DEF SendingExact
      <4> QED  BY <2>1, <2>3, <3>1, <4>1
    <3>2. CASE r \in DOMAIN queue
      <4>1. queue'[r] = queue[r]
        BY <2>1, <3>2
      <4>2. queue[r].seq <= seq'[queue[r].from]
        BY <2>3, <2>5, <3>2 DEF SendingExact
      <4>3. queue[r].from = s => queue[r].msg \notin ToSet(toSend[s])
        BY <2>3, <3>2 DEF SendingExact
      <4> QED  BY <2>3, <2>5, <3>2, <4>1, <4>2, <4>3 DEF SendingExact
    <3> QED  BY <2>1, <3>1, <3>2
  <2>8. ASSUME NEW r \in DOMAIN queue', NEW q \in DOMAIN queue', r < q
        PROVE  /\ queue'[r].msg # queue'[q].msg
               /\ queue'[r].from = queue'[q].from => queue'[r].seq < queue'[q].seq
    <3>1. r \in DOMAIN queue
      BY <2>1, <2>2, <2>8
    <3>2. CASE q = n
      BY <2>1, <2>6, <3>1, <3>2
    <3>3. CASE q \in DOMAIN queue
      BY <2>1, <2>8, <3>1, <3>3 DEF SendingExact
    <3> QED  BY <2>1, <3>2, <3>3
  <2>9. \A r \in Senders : IsInjective(toSend'[r]) /\ ToSet(toSend'[r]) \subseteq ToSet(Sent[r])
    BY <2>3 DEF SendingExact
  <2> QED  BY <2>7, <2>8, <2>9 DEF SendingExact
<1>8. ASSUME NEW s \in Senders, NEW allowed \in BOOLEAN, Publish(s, allowed)
      PROVE  SendingExact'
  <2>1. /\ UNCHANGED <<queue, seq>> /\ toSend'[s] = Tail(toSend[s])
        /\ toSend[s] # <<>> /\ toSend[s] \in Seq(Messages)
        /\ \A r \in Senders : r # s => sender'[r] = sender[r] /\ toSend'[r] = toSend[r]
    BY <1>0, <1>8 DEF Publish, Others, TypeOK, ControlExact
  <2>2. /\ IsInjective(toSend'[s]) /\ ToSet(toSend'[s]) \subseteq ToSet(toSend[s])
        /\ Head(toSend[s]) \notin ToSet(toSend'[s])
    BY <2>1, TailToSend DEF SendingExact
  <2>3. \A r \in DOMAIN queue : queue[r].from \in Senders
    BY <1>0, QueueRows
  <2>4. \A r \in DOMAIN queue : queue[r].from = s => queue[r].msg \notin ToSet(toSend'[s])
    BY <2>2 DEF SendingExact
  <2>5. \A r \in DOMAIN queue :
          queue[r].msg \in ToSet(toSend'[queue[r].from])
            => /\ sender'[queue[r].from] = "publish"
               /\ queue[r].msg = Head(toSend'[queue[r].from])
    BY <2>1, <2>3, <2>4 DEF SendingExact
  <2>6. \A r \in Senders : IsInjective(toSend'[r]) /\ ToSet(toSend'[r]) \subseteq ToSet(Sent[r])
    BY <2>1, <2>2 DEF SendingExact
  <2> QED  BY <2>1, <2>5, <2>6 DEF SendingExact
<1>9. CASE StartHeartbeat \/ HeartbeatEnds \/ LoseLink
  BY <1>1, <1>9 DEF StartHeartbeat, HeartbeatEnds, LoseLink
<1>10. CASE Connect \/ Subscribe \/ Disconnect \/ AppSteps
  BY <1>1, <1>10 DEF Connect, Subscribe, Disconnect, AppSteps, Fetch, Close, LoopStopped
<1>11. CASE PahoSteps
  BY <1>1, <1>11 DEF PahoSteps, OnConnect, OnDisconnect, Disconnected, OnMessage, Reconnect
<1>12. ASSUME NEW t \in Threads,
              SetOnline(t) \/ RecoverAll(t) \/ Select(t) \/ HandRow(t) \/ ReplayEnds(t)
       PROVE  SendingExact'
  BY <1>1, <1>12 DEF SetOnline, RecoverAll, Select, HandRow, ReplayEnds
<1>13. CASE UNCHANGED vars
  BY <1>1, <1>13 DEF vars
<1> QED  BY <1>3, <1>4, <1>5, <1>6, <1>7, <1>8, <1>9, <1>10, <1>11, <1>12, <1>13
         DEF Next, ReplaySteps, SenderSteps

\* A replay comes to the rows of a sender in their order.
Ordered == ReplaysSorted /\ EarlierDelivered /\ ReplaysKnown /\ NoneOvertaken

\* The first states.
LEMMA OrderInit == ASSUME Init PROVE Ordered /\ QueueInOrder
<1>1. \A t \in Threads : thread[t].rows = <<>> /\ thread[t].at = "idle"
  BY DEF Init, Idle
<1>2. ToSet(replayed) = {} /\ DOMAIN replayed = {}
  BY DEF Init, ToSet
<1>3. ReplaysSorted /\ EarlierDelivered /\ NoneOvertaken /\ QueueInOrder
  BY <1>1, <1>2 DEF ReplaysSorted, EarlierDelivered, NoneOvertaken, QueueInOrder
<1>4. ReplaysKnown
  BY DEF Init, ReplaysKnown
<1> QED  BY <1>3, <1>4 DEF Ordered

\* Rows that were handed over are in the queue.
LEMMA ReplayedRows ==
    ASSUME TypeOK
    PROVE  ToSet(replayed) \subseteq DOMAIN queue
  BY DEF TypeOK, ToSet

\* What no row, thread or replay is changed by.
LEMMA OrderKept == ASSUME Steady, Ordered, QueueInOrder, Keeps PROVE Ordered' /\ QueueInOrder'
<1>1. EarlierDelivered' /\ QueueInOrder'
  BY DEF Keeps, Ordered, EarlierDelivered, QueueInOrder
<1>2. ReplaysSorted' /\ NoneOvertaken'
  BY DEF Keeps, Ordered, ReplaysSorted, NoneOvertaken
<1>3. ASSUME registered', thread'["app"].at \in Active, NEW t \in Threads PROVE Known(t)'
  <2>1. CASE registered /\ thread["app"].at \in Active
    <3>1. Known(t)
      BY <2>1 DEF Ordered, ReplaysKnown, Active
    <3> QED  BY <3>1 DEF Keeps, Known
  <2>2. CASE \A u \in Threads : thread[u].rows = <<>> /\ thread[u].at # "mark"
    BY <2>2 DEF Keeps, Known
  <2> QED  BY <1>3, <2>1, <2>2 DEF Keeps
<1>4. ReplaysKnown'
  BY <1>3 DEF ReplaysKnown, Active
<1> QED  BY <1>1, <1>2, <1>4 DEF Ordered

\* The rows of a replay are selected.
LEMMA OrderSelect ==
    ASSUME Steady, SendingExact, Ordered, QueueInOrder, NEW t \in Threads, Select(t)
    PROVE  Ordered' /\ QueueInOrder'
<1> DEFINE rows == thread'[t].rows
<1>0. TypeOK
  BY DEF Steady
<1>1. /\ thread'[t].at = "replay" /\ ToSet(rows) = Undelivered
      /\ \A i, j \in DOMAIN rows : i # j => rows[i] # rows[j]
      /\ BySeq(rows) /\ rows \in Seq(Nat)
      /\ \A u \in Threads : u # t => thread'[u] = thread[u]
  BY <1>0, SelectType
<1>2. UNCHANGED <<queue, replayed, registered>> /\ thread[t].at = "select"
  BY DEF Select, Database, Ghosts, Client
<1>3. \A i \in DOMAIN rows : /\ i \in Nat /\ rows[i] \in DOMAIN queue
                             /\ ~queue[rows[i]].delivered
  BY <1>1 DEF Undelivered, ToSet
<1>4. \A r \in DOMAIN queue :
        ~queue[r].delivered => \E i \in DOMAIN rows : rows[i] = r
  BY <1>1 DEF Undelivered, ToSet
<1> HIDE DEF rows
<1>5. ASSUME NEW i \in DOMAIN rows, NEW j \in DOMAIN rows, i < j,
             queue[rows[i]].from = queue[rows[j]].from
      PROVE  rows[i] < rows[j]
  <2>1. queue[rows[i]].seq <= queue[rows[j]].seq /\ rows[i] # rows[j]
    BY <1>1, <1>3, <1>5 DEF BySeq
  <2>2. /\ rows[i] \in DOMAIN queue /\ rows[j] \in DOMAIN queue
        /\ rows[i] \in Nat /\ rows[j] \in Nat
        /\ queue[rows[i]].seq \in Nat /\ queue[rows[j]].seq \in Nat
    BY <1>0, <1>3, QueueRows
  <2>3. rows[j] < rows[i] => queue[rows[j]].seq < queue[rows[i]].seq
    BY <1>5, <2>2 DEF SendingExact
  <2> QED  BY <2>1, <2>2, <2>3
<1>6. ASSUME NEW i \in DOMAIN rows, NEW r \in DOMAIN queue, r < rows[i],
             queue[r].from = queue[rows[i]].from, ~queue[r].delivered
      PROVE  \E j \in DOMAIN rows : j < i /\ rows[j] = r
  <2>1. PICK j \in DOMAIN rows : rows[j] = r
    BY <1>4, <1>6
  <2>2. i \in Nat /\ j \in Nat /\ rows[i] \in Nat /\ rows[j] \in Nat
    BY <1>0, <1>3, QueueRows
  <2>3. ~(i < j)
    BY <1>5, <1>6, <2>1, <2>2
  <2>4. i # j
    BY <1>6, <2>1, <2>2
  <2> QED  BY <2>1, <2>2, <2>3, <2>4
<1>7. ReplaysSorted'
  <2> SUFFICES ASSUME NEW u \in Threads, NEW i \in DOMAIN thread'[u].rows
               PROVE  /\ \A j \in DOMAIN thread'[u].rows :
                           i # j => thread'[u].rows[i] # thread'[u].rows[j]
                      /\ \A j \in DOMAIN thread'[u].rows :
                           /\ i < j
                           /\ queue[thread'[u].rows[i]].from = queue[thread'[u].rows[j]].from
                           => thread'[u].rows[i] < thread'[u].rows[j]
                      /\ \A r \in DOMAIN queue :
                           /\ r < thread'[u].rows[i]
                           /\ queue[r].from = queue[thread'[u].rows[i]].from
                           => \/ queue[r].delivered
                              \/ \E j \in DOMAIN thread'[u].rows :
                                   j < i /\ thread'[u].rows[j] = r
    BY <1>2 DEF ReplaysSorted
  <2>1. CASE u = t
    BY <1>1, <1>5, <1>6, <2>1 DEF rows
  <2>2. CASE u # t
    BY <1>1, <2>2 DEF Ordered, ReplaysSorted
  <2> QED  BY <2>1, <2>2
<1>8. EarlierDelivered' /\ QueueInOrder'
  BY <1>2 DEF Ordered, EarlierDelivered, QueueInOrder
<1>9. ASSUME registered', thread'["app"].at \in Active, NEW u \in Threads PROVE Known(u)'
  <2>1. "app" \in Threads
    BY DEF Threads
  <2>2. thread["app"].at \in Active
    BY <1>1, <1>2, <1>9, <2>1 DEF Active
  <2>3. CASE u = t
    <3>1. thread'[u].at = "replay" /\ thread'[u].rows = rows
      BY <1>1, <2>3 DEF rows
    <3> QED  BY <1>2, <1>3, <3>1 DEF Known
  <2>4. CASE u # t
    <3>1. Known(u)
      BY <1>2, <1>9, <2>2 DEF Ordered, ReplaysKnown, Active
    <3> QED  BY <1>1, <1>2, <2>4, <3>1 DEF Known
  <2> QED  BY <2>3, <2>4
<1>10. ReplaysKnown'
  BY <1>9 DEF ReplaysKnown, Active
<1>11. ASSUME NEW i \in DOMAIN rows, NEW r \in ToSet(replayed),
              rows[i] \notin ToSet(replayed), queue[r].from = queue[rows[i]].from
       PROVE  r < rows[i]
  <2>1. r \in Nat /\ rows[i] \in Nat
    BY <1>0, <1>3, ReplayedRows, QueueRows
  <2>2. ~(rows[i] < r)
    BY <1>3, <1>11 DEF Ordered, EarlierDelivered
  <2> QED  BY <1>11, <2>1, <2>2
<1>12. NoneOvertaken'
  <2> SUFFICES ASSUME NEW u \in Threads, NEW i \in DOMAIN thread'[u].rows,
                      NEW r \in ToSet(replayed),
                      thread'[u].rows[i] \notin ToSet(replayed),
                      queue[r].from = queue[thread'[u].rows[i]].from
               PROVE  r < thread'[u].rows[i]
    BY <1>2 DEF NoneOvertaken
  <2>1. CASE u = t
    BY <1>11, <2>1 DEF rows
  <2>2. CASE u # t
    BY <1>1, <2>2 DEF Ordered, NoneOvertaken
  <2> QED  BY <2>1, <2>2
<1> QED  BY <1>7, <1>8, <1>10, <1>12 DEF Ordered

\* A row is handed over: those of its sender before it are delivered, and none
\* after it was handed over for the first time.
LEMMA OrderHandRow ==
    ASSUME Steady, Ordered, QueueInOrder, NEW t \in Threads, HandRow(t)
    PROVE  Ordered' /\ QueueInOrder'
<1> DEFINE row == thread[t].rows[1]
<1>0. TypeOK
  BY DEF Steady
<1>1. /\ row \in DOMAIN queue /\ row \in Nat /\ 1 \in DOMAIN thread[t].rows
      /\ thread[t].rows \in Seq(Nat) /\ thread[t].at = "replay"
  BY <1>0, HandRowType, QueueRows, SMTT(20) DEF HandRow, TypeOK
<1>2. Goto(t, "mark") /\ "mark" \in Positions
  BY DEF HandRow, Positions
<1>3. /\ \A u \in Threads : /\ thread'[u].rows = thread[u].rows
                            /\ u # t => thread'[u] = thread[u]
      /\ thread'[t].at = "mark"
  BY <1>0, <1>2, GotoType
<1>4. UNCHANGED <<queue, registered>>
  BY DEF HandRow, Database, Client
<1>5. replayed' = IF registered /\ row \notin ToSet(replayed)
                    THEN Append(replayed, row) ELSE replayed
  BY <1>0, HandRowType
<1>6. replayed \in Seq(DOMAIN queue)
  BY <1>0 DEF TypeOK
<1>7. \A r \in DOMAIN queue : r \in Nat
  BY <1>0, QueueRows
<1>8. \A r \in DOMAIN queue :
        r < row /\ queue[r].from = queue[row].from => queue[r].delivered
  <2>1. \A j \in DOMAIN thread[t].rows : ~(j < 1)
    BY <1>1
  <2> QED  BY <1>1, <2>1 DEF Ordered, ReplaysSorted
<1>9. ToSet(replayed) \subseteq DOMAIN queue
  BY <1>0, ReplayedRows
<1> HIDE DEF row
<1>10. ReplaysSorted'
  BY <1>3, <1>4 DEF Ordered, ReplaysSorted
<1>11. \A u \in Threads : \A i \in DOMAIN thread[u].rows :
         thread[u].rows[i] \in DOMAIN queue /\ thread[u].rows[i] \in Nat
  BY <1>0, <1>7, RowInHand
<1>12. CASE ~(registered /\ row \notin ToSet(replayed))
  <2>1. replayed' = replayed
    BY <1>5, <1>12
  <2>2. EarlierDelivered' /\ QueueInOrder'
    BY <1>4, <2>1 DEF Ordered, EarlierDelivered, QueueInOrder
  <2>3. NoneOvertaken'
    BY <1>3, <1>4, <2>1 DEF Ordered, NoneOvertaken
  <2>4. ASSUME registered', thread'["app"].at \in Active, NEW u \in Threads PROVE Known(u)'
    <3>1. thread["app"].at \in Active
      BY <1>1, <1>3, <2>4 DEF Active, Threads
    <3>2. Known(u)
      BY <1>4, <2>4, <3>1 DEF Ordered, ReplaysKnown, Active
    <3>3. row \in ToSet(replayed)
      BY <1>4, <1>12, <2>4
    <3> QED  BY <1>3, <1>4, <2>1, <3>2, <3>3 DEF Known, row
  <2>5. ReplaysKnown'
    BY <2>4 DEF ReplaysKnown, Active
  <2> QED  BY <1>10, <2>2, <2>3, <2>5 DEF Ordered
<1>13. CASE registered /\ row \notin ToSet(replayed)
  <2>1. /\ replayed' = Append(replayed, row) /\ ToSet(replayed') = ToSet(replayed) \cup {row}
        /\ DOMAIN replayed' = DOMAIN replayed \cup {Len(replayed) + 1}
        /\ \A i \in DOMAIN replayed : i < Len(replayed) + 1 /\ replayed'[i] = replayed[i]
        /\ replayed'[Len(replayed) + 1] = row
    <3>1. replayed' = Append(replayed, row)
      BY <1>5, <1>13
    <3>2. /\ DOMAIN replayed' = DOMAIN replayed \cup {Len(replayed) + 1}
          /\ \A i \in DOMAIN replayed : i < Len(replayed) + 1 /\ replayed'[i] = replayed[i]
          /\ replayed'[Len(replayed) + 1] = row
      BY <1>1, <1>6, <3>1
    <3>3. ToSet(replayed') = ToSet(replayed) \cup {row}
      BY <3>2 DEF ToSet
    <3> QED  BY <3>1, <3>2, <3>3
  <2>2. EarlierDelivered'
    BY <1>4, <1>8, <2>1 DEF Ordered, EarlierDelivered
  <2>3. \A r \in ToSet(replayed) : queue[r].from = queue[row].from => r < row
    BY <1>1, <1>13 DEF Ordered, NoneOvertaken, row
  <2>4. QueueInOrder'
    <3> SUFFICES ASSUME NEW i \in DOMAIN replayed', NEW j \in DOMAIN replayed', i < j,
                        queue[replayed'[i]].from = queue[replayed'[j]].from
                 PROVE  replayed'[i] < replayed'[j]
      BY <1>4 DEF QueueInOrder
    <3>1. i \in DOMAIN replayed
      BY <1>6, <2>1
    <3>2. CASE j \in DOMAIN replayed
      BY <2>1, <3>1, <3>2 DEF QueueInOrder
    <3>3. CASE j = Len(replayed) + 1
      <4>1. replayed[i] \in ToSet(replayed)
        BY <3>1 DEF ToSet
      <4> QED  BY <2>1, <2>3, <3>1, <3>3, <4>1
    <3> QED  BY <2>1, <3>2, <3>3
  <2>5. ASSUME NEW u \in Threads, NEW i \in DOMAIN thread[u].rows,
               thread[u].rows[i] \notin ToSet(replayed'),
               queue[row].from = queue[thread[u].rows[i]].from
        PROVE  row < thread[u].rows[i]
    <3> DEFINE q == thread[u].rows[i]
    <3>1. q \in DOMAIN queue /\ q \in Nat /\ q # row /\ q \notin ToSet(replayed)
      BY <1>11, <2>1, <2>5
    <3>2. CASE u = t
      <4>1. i # 1 /\ i \in Nat
        BY <1>1, <3>1, <3>2 DEF row
      <4>2. 1 < i
        BY <1>1, <3>2, <4>1
      <4> QED  BY <1>1, <2>5, <3>2, <4>2 DEF Ordered, ReplaysSorted, row
    <3>3. CASE u # t
      <4>1. thread["app"].at \in Active
        <5>1. CASE t = "app"
          BY <1>1, <5>1 DEF Active
        <5>2. CASE u = "app"
          <6>1. thread["app"].at \in {"replay", "mark"}
            <7>1. thread[u].rows # <<>>
              OBVIOUS
            <7> QED  BY <5>2, <7>1 DEF Steady, ControlExact
          <6> QED  BY <6>1 DEF Active
        <5> QED  BY <3>3, <5>1, <5>2 DEF Threads
      <4>2. Known(u)
        BY <1>13, <4>1 DEF Ordered, ReplaysKnown, Active
      <4>3. ~queue[q].delivered
        BY <3>1, <4>2 DEF Known
      <4>4. ~(q < row)
        BY <1>8, <2>5, <3>1, <4>3
      <4> QED  BY <1>1, <3>1, <4>4
    <3> QED  BY <3>2, <3>3
  <2>6. NoneOvertaken'
    <3> SUFFICES ASSUME NEW u \in Threads, NEW i \in DOMAIN thread[u].rows,
                        NEW r \in ToSet(replayed'),
                        thread[u].rows[i] \notin ToSet(replayed'),
                        queue[r].from = queue[thread[u].rows[i]].from
                 PROVE  r < thread[u].rows[i]
      BY <1>3, <1>4 DEF NoneOvertaken
    <3>1. CASE r = row
      BY <2>5, <3>1
    <3>2. CASE r \in ToSet(replayed)
      BY <2>1, <3>2 DEF Ordered, NoneOvertaken
    <3> QED  BY <2>1, <3>1, <3>2
  <2>7. ASSUME registered', thread'["app"].at \in Active, NEW u \in Threads PROVE Known(u)'
    <3>1. thread["app"].at \in Active
      BY <1>1, <1>3, <2>7 DEF Active, Threads
    <3>2. Known(u)
      BY <1>4, <2>7, <3>1 DEF Ordered, ReplaysKnown, Active
    <3> QED  BY <1>3, <1>4, <2>1, <3>2 DEF Known, row
  <2>8. ReplaysKnown'
    BY <2>7 DEF ReplaysKnown, Active
  <2> QED  BY <1>10, <2>2, <2>4, <2>6, <2>8 DEF Ordered
<1> QED  BY <1>12, <1>13

\* A row is marked, and leaves the rows in hand.
LEMMA OrderMarkRow ==
    ASSUME Steady, Ordered, QueueInOrder, NEW t \in Threads, MarkRow(t)
    PROVE  Ordered' /\ QueueInOrder'
<1> DEFINE row == thread[t].rows[1]
           rows == thread[t].rows
<1>0. TypeOK /\ thread[t].at = "mark"
  BY DEF Steady, MarkRow
<1>1. rows # <<>> /\ row \in DOMAIN queue /\ rows \in Seq(Nat)
  BY <1>0, MarkHasRow DEF TypeOK
<1>2. /\ DOMAIN queue' = DOMAIN queue /\ queue'[row].delivered
      /\ \A r \in DOMAIN queue :
           /\ queue'[r].from = queue[r].from
           /\ queue[r].delivered => queue'[r].delivered
           /\ r # row => queue'[r] = queue[r]
      /\ thread'[t].at = "replay" /\ thread'[t].rows = Tail(rows)
      /\ \A u \in Threads : u # t => thread'[u] = thread[u]
  BY <1>0, <1>1, MarkType
<1>3. UNCHANGED <<replayed, registered>>
  BY DEF MarkRow, Ghosts, Client
<1>4. ToSet(replayed) \subseteq DOMAIN queue
  BY <1>0, ReplayedRows
<1>5. /\ DOMAIN Tail(rows) = 1..(Len(rows) - 1) /\ 1 \in DOMAIN rows
      /\ \A i \in DOMAIN Tail(rows) : i + 1 \in DOMAIN rows /\ Tail(rows)[i] = rows[i + 1]
  BY <1>1, TailOfRows
<1>6. \A u \in Threads : \A i \in DOMAIN thread[u].rows : thread[u].rows[i] \in DOMAIN queue
  BY <1>0, RowInHand
<1>7. \A i \in DOMAIN rows : i \in Nat /\ (i > 1 => i - 1 \in DOMAIN Tail(rows))
  BY <1>1, <1>5
<1> HIDE DEF row, rows
<1>8. EarlierDelivered' /\ QueueInOrder'
  <2>1. EarlierDelivered'
    BY <1>2, <1>3, <1>4 DEF Ordered, EarlierDelivered
  <2>2. \A i \in DOMAIN replayed : replayed[i] \in DOMAIN queue
    BY <1>4 DEF ToSet
  <2>3. QueueInOrder'
    BY <1>2, <1>3, <2>2 DEF QueueInOrder
  <2> QED  BY <2>1, <2>3
<1>9. ReplaysSorted'
  <2> DEFINE mine == thread'[t].rows
  <2>1. ASSUME NEW i \in DOMAIN Tail(rows)
        PROVE  /\ \A j \in DOMAIN Tail(rows) : i # j => Tail(rows)[i] # Tail(rows)[j]
               /\ \A j \in DOMAIN Tail(rows) :
                    i < j /\ queue'[Tail(rows)[i]].from = queue'[Tail(rows)[j]].from
                      => Tail(rows)[i] < Tail(rows)[j]
               /\ \A r \in DOMAIN queue' :
                    r < Tail(rows)[i] /\ queue'[r].from = queue'[Tail(rows)[i]].from
                      => \/ queue'[r].delivered
                         \/ \E j \in DOMAIN Tail(rows) : j < i /\ Tail(rows)[j] = r
    <3>1. i \in Nat /\ i + 1 \in DOMAIN rows /\ Tail(rows)[i] = rows[i + 1]
      BY <1>5
    <3>2. \A j \in DOMAIN Tail(rows) : i # j => Tail(rows)[i] # Tail(rows)[j]
      <4> SUFFICES ASSUME NEW j \in DOMAIN Tail(rows), i # j
                   PROVE  rows[i + 1] # rows[j + 1]
        BY <1>5, <3>1
      <4>1. j \in Nat /\ j + 1 \in DOMAIN rows /\ i + 1 # j + 1
        BY <1>5, <3>1
      <4> QED  BY <3>1, <4>1 DEF Ordered, ReplaysSorted, rows
    <3>3. \A j \in DOMAIN Tail(rows) :
            i < j /\ queue'[Tail(rows)[i]].from = queue'[Tail(rows)[j]].from
              => Tail(rows)[i] < Tail(rows)[j]
      <4> SUFFICES ASSUME NEW j \in DOMAIN Tail(rows), i < j,
                          queue'[rows[i + 1]].from = queue'[rows[j + 1]].from
                   PROVE  rows[i + 1] < rows[j + 1]
        BY <1>5, <3>1
      <4>1. j \in Nat /\ j + 1 \in DOMAIN rows /\ i + 1 < j + 1
        BY <1>5, <3>1
      <4>2. queue[rows[i + 1]].from = queue[rows[j + 1]].from
        BY <1>2, <1>6, <3>1, <4>1 DEF rows
      <4> QED  BY <3>1, <4>1, <4>2 DEF Ordered, ReplaysSorted, rows
    <3>4. \A r \in DOMAIN queue' :
            r < Tail(rows)[i] /\ queue'[r].from = queue'[Tail(rows)[i]].from
              => \/ queue'[r].delivered
                 \/ \E j \in DOMAIN Tail(rows) : j < i /\ Tail(rows)[j] = r
      <4> SUFFICES ASSUME NEW r \in DOMAIN queue, r < rows[i + 1],
                          queue'[r].from = queue'[rows[i + 1]].from,
                          ~queue'[r].delivered
                   PROVE  \E j \in DOMAIN Tail(rows) : j < i /\ Tail(rows)[j] = r
        BY <1>2, <3>1
      <4>1. queue[r].from = queue[rows[i + 1]].from /\ ~queue[r].delivered /\ r # row
        BY <1>2, <1>6, <3>1 DEF rows
      <4>2. PICK j \in DOMAIN rows : j < i + 1 /\ rows[j] = r
        BY <3>1, <4>1 DEF Ordered, ReplaysSorted, rows
      <4>3. j # 1 /\ j \in Nat
        BY <1>7, <4>1, <4>2 DEF row, rows
      <4>4. j >= 1
        BY <1>1, <4>2
      <4>5. j - 1 \in DOMAIN Tail(rows) /\ j - 1 < i
        BY <1>7, <3>1, <4>2, <4>3, <4>4
      <4>6. Tail(rows)[j - 1] = rows[(j - 1) + 1] /\ (j - 1) + 1 = j
        BY <1>5, <4>3, <4>5
      <4> QED  BY <4>2, <4>5, <4>6
    <3> QED  BY <3>2, <3>3, <3>4
  <2>2. ASSUME NEW u \in Threads, u # t, NEW i \in DOMAIN thread[u].rows
        PROVE  /\ \A j \in DOMAIN thread[u].rows :
                    i # j => thread[u].rows[i] # thread[u].rows[j]
               /\ \A j \in DOMAIN thread[u].rows :
                    i < j /\ queue'[thread[u].rows[i]].from = queue'[thread[u].rows[j]].from
                      => thread[u].rows[i] < thread[u].rows[j]
               /\ \A r \in DOMAIN queue' :
                    r < thread[u].rows[i] /\ queue'[r].from = queue'[thread[u].rows[i]].from
                      => \/ queue'[r].delivered
                         \/ \E j \in DOMAIN thread[u].rows : j < i /\ thread[u].rows[j] = r
    BY <1>2, <1>6 DEF Ordered, ReplaysSorted
  <2>3. ASSUME NEW u \in Threads
        PROVE  thread'[u].rows = IF u = t THEN Tail(rows) ELSE thread[u].rows
    BY <1>2
  <2>4. ASSUME NEW u \in Threads, NEW i \in DOMAIN thread'[u].rows
        PROVE  /\ \A j \in DOMAIN thread'[u].rows :
                    i # j => thread'[u].rows[i] # thread'[u].rows[j]
               /\ \A j \in DOMAIN thread'[u].rows :
                    /\ i < j
                    /\ queue'[thread'[u].rows[i]].from = queue'[thread'[u].rows[j]].from
                    => thread'[u].rows[i] < thread'[u].rows[j]
               /\ \A r \in DOMAIN queue' :
                    /\ r < thread'[u].rows[i]
                    /\ queue'[r].from = queue'[thread'[u].rows[i]].from
                    => \/ queue'[r].delivered
                       \/ \E j \in DOMAIN thread'[u].rows : j < i /\ thread'[u].rows[j] = r
    <3>1. CASE u = t
      <4>1. thread'[u].rows = Tail(rows)
        BY <2>3, <3>1
      <4> QED  BY <2>1, <4>1
    <3>2. CASE u # t
      <4>1. thread'[u].rows = thread[u].rows
        BY <2>3, <3>2
      <4> QED  BY <2>2, <3>2, <4>1
    <3> QED  BY <3>1, <3>2
  <2> QED  BY <2>4 DEF ReplaysSorted
<1>10. NoneOvertaken'
  <2> SUFFICES ASSUME NEW u \in Threads, NEW i \in DOMAIN thread'[u].rows,
                      NEW r \in ToSet(replayed),
                      thread'[u].rows[i] \notin ToSet(replayed),
                      queue'[r].from = queue'[thread'[u].rows[i]].from
               PROVE  r < thread'[u].rows[i]
    BY <1>3 DEF NoneOvertaken
  <2>1. PICK j \in DOMAIN thread[u].rows : thread'[u].rows[i] = thread[u].rows[j]
    <3>1. CASE u = t
      BY <1>2, <1>5, <3>1, ZenonT(40) DEF rows
    <3>2. CASE u # t
      BY <1>2, <3>2
    <3> QED  BY <3>1, <3>2
  <2>2. queue[r].from = queue[thread[u].rows[j]].from
    BY <1>2, <1>4, <1>6, <2>1
  <2> QED  BY <2>1, <2>2 DEF Ordered, NoneOvertaken
<1>11. ASSUME registered', thread'["app"].at \in Active, NEW u \in Threads PROVE Known(u)'
  <2>1. thread["app"].at \in Active
    BY <1>0, <1>2, <1>11 DEF Active, Threads
  <2>2. Known(u) /\ Known(t)
    BY <1>3, <1>11, <2>1 DEF Ordered, ReplaysKnown, Active
  <2>3. row \in ToSet(replayed)
    BY <1>0, <2>2 DEF Known, row
  <2>4. ASSUME NEW i \in DOMAIN thread[u].rows, queue'[thread[u].rows[i]].delivered
        PROVE  thread[u].rows[i] \in ToSet(replayed)
    BY <1>2, <1>6, <2>2, <2>3, <2>4 DEF Known
  <2>5. CASE u = t
    <3>1. \A i \in DOMAIN thread'[u].rows :
            \E j \in DOMAIN thread[u].rows : thread'[u].rows[i] = thread[u].rows[j]
      <4>1. thread'[u].rows = Tail(rows) /\ thread[u].rows = rows
        BY <1>2, <2>5 DEF rows
      <4> QED  BY <1>5, <4>1
    <3> QED  BY <1>2, <1>3, <2>4, <2>5, <3>1 DEF Known
  <2>6. CASE u # t
    BY <1>2, <1>3, <2>2, <2>4, <2>6 DEF Known
  <2> QED  BY <2>5, <2>6
<1>12. ReplaysKnown'
  BY <1>11 DEF ReplaysKnown, Active
<1> QED  BY <1>8, <1>9, <1>10, <1>12 DEF Ordered

\* A row is inserted, after all others.
LEMMA OrderEnqueue ==
    ASSUME Steady, Ordered, QueueInOrder, NEW s \in Senders, Enqueue(s)
    PROVE  Ordered' /\ QueueInOrder'
<1> DEFINE n == Len(queue) + 1
<1>0. TypeOK
  BY DEF Steady
<1>1. /\ n \notin DOMAIN queue /\ DOMAIN queue' = DOMAIN queue \cup {n}
      /\ \A r \in DOMAIN queue : r < n /\ queue'[r] = queue[r]
  BY EnqueueType
<1>2. n \in Nat /\ \A r \in DOMAIN queue : r \in Nat
  BY <1>0, QueueRows DEF TypeOK
<1> HIDE DEF n
<1>3. UNCHANGED <<thread, replayed, registered>>
  BY DEF Enqueue, Others, Ghosts, Client
<1>4. ToSet(replayed) \subseteq DOMAIN queue /\ \A i \in DOMAIN replayed : replayed[i] \in DOMAIN queue
  BY <1>0, ReplayedRows DEF ToSet
<1>5. \A u \in Threads : \A i \in DOMAIN thread[u].rows : thread[u].rows[i] \in DOMAIN queue
  BY <1>0, RowInHand
<1>6. \A q \in DOMAIN queue', r \in DOMAIN queue : q < r => q \in DOMAIN queue
  BY <1>1, <1>2
<1>7. EarlierDelivered'
  BY <1>1, <1>3, <1>4, <1>6 DEF Ordered, EarlierDelivered
<1>8. QueueInOrder'
  BY <1>1, <1>3, <1>4 DEF QueueInOrder
<1>9. ReplaysSorted'
  BY <1>1, <1>3, <1>5, <1>6 DEF Ordered, ReplaysSorted
<1>10. NoneOvertaken'
  BY <1>1, <1>3, <1>4, <1>5 DEF Ordered, NoneOvertaken
<1>11. ReplaysKnown'
  BY <1>1, <1>3, <1>5 DEF Ordered, ReplaysKnown, Known
<1> QED  BY <1>7, <1>8, <1>9, <1>10, <1>11 DEF Ordered

\* A crash ends the replays.
LEMMA OrderCrash ==
    ASSUME Steady, Ordered, QueueInOrder, Crash
    PROVE  Ordered' /\ QueueInOrder'
<1>0. TypeOK
  BY DEF Steady
<1>1. \A t \in Threads : thread'[t].rows = <<>> /\ thread'[t].at = "idle"
  BY DEF Crash, Idle
<1>2. /\ DOMAIN queue' = DOMAIN queue
      /\ \A r \in DOMAIN queue : /\ queue'[r].from = queue[r].from
                                 /\ queue'[r].delivered = queue[r].delivered
  BY <1>0, CrashType
<1>3. replayed' = replayed /\ registered' = FALSE
  BY DEF Crash, Ghosts
<1>4. ToSet(replayed) \subseteq DOMAIN queue /\ \A i \in DOMAIN replayed : replayed[i] \in DOMAIN queue
  BY <1>0, ReplayedRows DEF ToSet
<1>5. EarlierDelivered'
  BY <1>2, <1>3, <1>4 DEF Ordered, EarlierDelivered
<1>6. QueueInOrder'
  BY <1>2, <1>3, <1>4 DEF QueueInOrder
<1>7. ReplaysSorted' /\ NoneOvertaken'
  BY <1>1 DEF ReplaysSorted, NoneOvertaken
<1>8. ReplaysKnown'
  BY <1>3 DEF ReplaysKnown
<1> QED  BY <1>5, <1>6, <1>7, <1>8 DEF Ordered

\* Every step keeps the order.
LEMMA OrderStep ==
    ASSUME Steady, SendingExact, Ordered, QueueInOrder, [Next]_vars
    PROVE  Ordered' /\ QueueInOrder'
  BY StepKinds, OrderKept, OrderSelect, OrderHandRow, OrderMarkRow, OrderEnqueue, OrderCrash

\* Queued messages of a sender are first handed over in the order they were sent,
\* whichever thread replays them and whatever crashes (persistence.py:285).
THEOREM QueueIsInOrder == Spec => []QueueInOrder
<1>1. Init => Steady /\ SendingExact /\ Ordered /\ QueueInOrder
  BY SteadyInit, SendingInit, OrderInit
<1>2. Steady /\ SendingExact /\ (Ordered /\ QueueInOrder) /\ [Next]_vars
        => Steady' /\ SendingExact' /\ (Ordered /\ QueueInOrder)'
  BY SteadyStep, SendingStep, OrderStep
<1> QED  BY <1>1, <1>2, PTL DEF Spec

-----------------------------------------------------------------------------
(* How often a message is handed over.                                     *)

\* Events that follow, and the ones that are left, are no more than there were.
LEMMA EventsGrow ==
    ASSUME TypeOK, Once(events), NEW e, e \notin Single, events' = Append(events, e)
    PROVE  Once(events') /\ ToSet(events') \cap Single \subseteq ToSet(events)
<1>1. events \in Seq({"connack", "lost"} \cup Messages)
  BY DEF TypeOK
<1>2. /\ DOMAIN events' = DOMAIN events \cup {Len(events) + 1}
      /\ \A i \in DOMAIN events : events'[i] = events[i]
      /\ events'[Len(events) + 1] = e
  BY <1>1
<1> QED  BY <1>2 DEF Once, ToSet

\* The first event is handled.
LEMMA EventsFall ==
    ASSUME TypeOK, Once(events), events # <<>>, events' = Tail(events)
    PROVE  /\ Once(events') /\ ToSet(events') \subseteq ToSet(events)
           /\ Head(events) \in ToSet(events)
           /\ Head(events) \in Single => Head(events) \notin ToSet(events')
<1>1. events \in Seq({"connack", "lost"} \cup Messages)
  BY DEF TypeOK
<1>2. /\ 1 \in DOMAIN events /\ Head(events) = events[1]
      /\ \A i \in DOMAIN events' : i \in Nat \ {0} /\ i + 1 \in DOMAIN events
                                   /\ events'[i] = events[i + 1]
  BY <1>1
<1>3. Once(events')
  <2> SUFFICES ASSUME NEW i \in DOMAIN events', NEW j \in DOMAIN events',
                      events'[i] \in Single, i # j
               PROVE  events'[i] # events'[j]
    BY DEF Once
  <2>1. i + 1 # j + 1
    BY <1>2
  <2> QED  BY <1>2, <2>1 DEF Once
<1>4. Head(events) \in Single => Head(events) \notin ToSet(events')
  <2> SUFFICES ASSUME Head(events) \in Single, NEW i \in DOMAIN events'
               PROVE  events'[i] # Head(events)
    BY DEF ToSet
  <2>1. i + 1 # 1
    BY <1>2
  <2> QED  BY <1>2, <2>1 DEF Once
<1>5. ToSet(events') \subseteq ToSet(events) /\ Head(events) \in ToSet(events)
  BY <1>2 DEF ToSet
<1> QED  BY <1>3, <1>4, <1>5

\* The connection is lost, with some of the events.
LEMMA EventsLost ==
    ASSUME TypeOK, Once(events), LinkEnds
    PROVE  Once(events') /\ ToSet(events') \cap Single \subseteq ToSet(events)
<1>1. events \in Seq({"connack", "lost"} \cup Messages)
  BY DEF TypeOK
<1>2. PICK n \in 0..Len(events) : events' = Append(SubSeq(events, 1, n), "lost")
  BY DEF LinkEnds
<1>3. "lost" \notin Single
  BY SessionAssumption DEF Single
<1>4. /\ DOMAIN events' = 1..(n + 1) /\ events'[n + 1] = "lost"
      /\ \A i \in 1..n : i \in DOMAIN events /\ events'[i] = events[i]
  BY <1>1, <1>2
<1>5. \A i \in DOMAIN events' : events'[i] \in Single => i \in DOMAIN events /\ events'[i] = events[i]
  <2> TAKE i \in DOMAIN events'
  <2>1. i \in 1..n \/ i = n + 1
    BY <1>4
  <2> QED  BY <1>3, <1>4, <2>1
<1>6. ToSet(events') \cap Single \subseteq ToSet(events)
  BY <1>5 DEF ToSet
<1>7. Once(events')
  BY <1>5 DEF Once
<1> QED  BY <1>6, <1>7

\* A step that brings the client no message for the first time.
NothingSent ==
    /\ UNCHANGED toSend
    /\ {upserted', kept'} \subseteq RetainedOnes \cup {NoMessage}
    /\ Once(events') /\ ToSet(events') \cap Single \subseteq ToSet(events)

\* Every step is of this kind but that of a sender that publishes.
LEMMA StreamKinds ==
    ASSUME Steady, StreamExact, [Next]_vars
    PROVE  NothingSent \/ \E s \in Senders, allowed \in BOOLEAN : Publish(s, allowed)
<1> USE DEF Database, Network, Client, Sending, Faults, Ghosts
<1>0. TypeOK /\ Once(events) /\ {upserted, kept} \subseteq RetainedOnes \cup {NoMessage}
  BY DEF Steady, StreamExact
<1>1. ASSUME UNCHANGED <<toSend, upserted, kept, events>> PROVE NothingSent
  BY <1>0, <1>1 DEF NothingSent
<1>2. ASSUME UNCHANGED <<toSend, upserted, kept>>,
             Once(events') /\ ToSet(events') \cap Single \subseteq ToSet(events)
      PROVE  NothingSent
  BY <1>0, <1>2 DEF NothingSent
<1>3. "connack" \notin Single /\ NoMessage \notin Messages
  BY SessionAssumption DEF Single
<1>4. CASE Connect
  BY <1>0, <1>2, <1>3, <1>4, EventsGrow DEF Connect
<1>5. CASE Subscribe
  <2>1. kept # NoMessage => kept \notin Single
    BY <1>0 DEF Single
  <2>2. CASE events' = events
    BY <1>1, <1>5, <2>2 DEF Subscribe
  <2>3. CASE kept # NoMessage /\ events' = Append(events, kept)
    BY <1>0, <1>2, <1>5, <2>1, <2>3, EventsGrow DEF Subscribe
  <2> QED  BY <1>5, <2>2, <2>3 DEF Subscribe
<1>6. CASE Disconnect \/ Fetch \/ LoopStopped \/ Disconnected
  BY <1>1, <1>6 DEF Disconnect, Fetch, LoopStopped, Disconnected
<1>7. CASE Close \/ LoseLink
  <2>1. UNCHANGED <<toSend, upserted, kept>> /\ (LinkEnds \/ events' = events)
    BY <1>7 DEF Close, LoseLink
  <2> QED  BY <1>0, <1>1, <1>2, <2>1, EventsLost
<1>8. CASE OnConnect \/ OnDisconnect \/ OnMessage
  <2>1. UNCHANGED <<toSend, upserted, kept>> /\ events # <<>> /\ events' = Tail(events)
    BY <1>8 DEF OnConnect, OnDisconnect, OnMessage
  <2> QED  BY <1>0, <1>2, <2>1, EventsFall
<1>9. CASE Reconnect
  <2>1. UNCHANGED <<toSend, upserted, kept>> /\ events' = <<"connack">>
    BY <1>9 DEF Reconnect
  <2>2. \A i \in DOMAIN events' : events'[i] = "connack"
    BY <2>1
  <2>3. Once(events') /\ ToSet(events') \cap Single \subseteq ToSet(events)
    BY <1>3, <2>2 DEF Once, ToSet
  <2> QED  BY <1>2, <2>1, <2>3
<1>10. CASE Crash
  <2>1. UNCHANGED <<toSend, upserted, kept>> /\ events' = <<>>
    BY <1>10 DEF Crash
  <2>2. Once(events') /\ ToSet(events') \cap Single \subseteq ToSet(events)
    BY <2>1 DEF Once, ToSet
  <2> QED  BY <1>2, <2>1, <2>2
<1>11. ASSUME NEW t \in Threads, ReplaySteps(t) PROVE NothingSent
  BY <1>1, <1>11 DEF ReplaySteps, SetOnline, RecoverAll, Select, HandRow, MarkRow, ReplayEnds
<1>12. CASE StartHeartbeat \/ HeartbeatEnds \/ UNCHANGED vars
  BY <1>1, <1>12 DEF StartHeartbeat, HeartbeatEnds, vars
<1>13. ASSUME NEW s \in Senders, Send(s) PROVE NothingSent
  <2>1. UNCHANGED <<toSend, kept, events>> /\ upserted' \in RetainedOnes \cup {NoMessage}
    BY <1>0, <1>13 DEF Send, Others
  <2> QED  BY <1>0, <2>1 DEF NothingSent
<1>14. ASSUME NEW s \in Senders, Look(s) \/ Enqueue(s) PROVE NothingSent
  BY <1>1, <1>14 DEF Look, Enqueue, Others
<1> QED  BY <1>4, <1>5, <1>6, <1>7, <1>8, <1>9, <1>10, <1>11, <1>12, <1>13, <1>14
         DEF Next, AppSteps, PahoSteps, SenderSteps

\* What a sender publishes it has sent, and the client has it once.
LEMMA PublishStream ==
    ASSUME Steady, SendingExact, StreamExact, NEW s \in Senders, NEW allowed \in BOOLEAN,
           Publish(s, allowed)
    PROVE  /\ StreamExact'
           /\ \A m \in Single : (MayStream(m))' => MayStream(m)
<1>0. TypeOK
  BY DEF Steady
<1>1. /\ toSend[s] # <<>> /\ toSend[s] \in Seq(Messages) /\ IsInjective(toSend[s])
      /\ toSend' = [toSend EXCEPT ![s] = Tail(toSend[s])]
      /\ upserted' = upserted
  BY <1>0 DEF Publish, Others, Database, Steady, ControlExact, TypeOK, SendingExact
<1> PICK m \in Messages : m = Head(toSend[s])
  BY <1>1
<1>2. /\ ToSet(Tail(toSend[s])) \subseteq ToSet(toSend[s]) /\ m \in ToSet(toSend[s])
      /\ m \notin ToSet(Tail(toSend[s]))
  BY <1>1, TailToSend
<1>3. /\ toSend'[s] = Tail(toSend[s]) /\ \A r \in Senders : r # s => toSend'[r] = toSend[r]
  BY <1>0, <1>1 DEF TypeOK
<1>4. \A r \in Senders : r # s => m \notin ToSet(toSend[r])
  <2>1. m \in ToSet(Sent[s]) /\ \A r \in Senders : ToSet(toSend[r]) \subseteq ToSet(Sent[r])
    BY <1>2 DEF SendingExact
  <2> QED  BY <2>1, SessionAssumption
<1>5. Ahead(m) /\ ~(Ahead(m))' /\ \A n \in Messages : (Ahead(n))' => Ahead(n)
  <2>1. Ahead(m)
    BY <1>2 DEF Ahead
  <2>2. \A r \in Senders : m \notin ToSet(toSend'[r])
    BY <1>2, <1>3, <1>4
  <2>3. \A n \in Messages : \A r \in Senders : n \in ToSet(toSend'[r]) => n \in ToSet(toSend[r])
    BY <1>2, <1>3
  <2> QED  BY <2>1, <2>2, <2>3 DEF Ahead
<1>6. kept' \in RetainedOnes \cup {NoMessage}
  BY DEF Publish, StreamExact
<1>7. events' = events \/ events' = Append(events, m)
  BY DEF Publish
<1>8. CASE events' = events
  BY <1>1, <1>5, <1>6, <1>8 DEF StreamExact, MayStream, Single
<1>9. CASE events' = Append(events, m)
  <2>1. events \in Seq({"connack", "lost"} \cup Messages)
    BY <1>0 DEF TypeOK
  <2>2. /\ DOMAIN events' = DOMAIN events \cup {Len(events) + 1}
        /\ \A i \in DOMAIN events : events'[i] = events[i]
        /\ events'[Len(events) + 1] = m
    BY <1>9, <2>1
  <2>3. ToSet(events') = ToSet(events) \cup {m}
    BY <2>2 DEF ToSet
  <2>4. m \in Single => m \notin ToSet(events)
    BY <1>5 DEF StreamExact
  <2>5. Once(events')
    BY <2>2, <2>4 DEF Once, StreamExact, ToSet
  <2>6. \A n \in ToSet(events') \cap Single : ~(Ahead(n))'
    <3> SUFFICES ASSUME NEW n \in ToSet(events') \cap Single PROVE ~(Ahead(n))'
      OBVIOUS
    <3>1. CASE n = m
      BY <1>5, <3>1
    <3>2. CASE n # m
      <4>1. n \in ToSet(events) \cap Single /\ n \in Messages
        BY <2>3, <3>2 DEF Single
      <4>2. ~Ahead(n)
        BY <4>1 DEF StreamExact
      <4> QED  BY <1>5, <4>1, <4>2
    <3> QED  BY <3>1, <3>2
  <2>7. \A n \in Single : (MayStream(n))' => MayStream(n)
    BY <1>5, <2>3 DEF MayStream, Single
  <2> QED  BY <1>1, <1>6, <2>5, <2>6, <2>7 DEF StreamExact
<1> QED  BY <1>7, <1>8, <1>9

\* Every step keeps what is on its way, and adds nothing to it.
LEMMA StreamStep ==
    ASSUME Steady, SendingExact, StreamExact, [Next]_vars
    PROVE  /\ StreamExact'
           /\ \A m \in Single : (MayStream(m))' => MayStream(m)
<1>1. CASE NothingSent
  <2>1. \A m : (Ahead(m))' = Ahead(m)
    BY <1>1 DEF NothingSent, Ahead
  <2> QED  BY <1>1, <2>1 DEF NothingSent, StreamExact, MayStream
<1> QED  BY <1>1, StreamKinds, PublishStream

\* A step after which a thread may hand over no row that it might not before.
LEMMA MayReplayFalls ==
    ASSUME NEW t \in Threads, NEW m \in Messages,
           DOMAIN queue' = DOMAIN queue,
           \A r \in DOMAIN queue : /\ queue'[r].msg = queue[r].msg
                                   /\ queue[r].msg = m /\ (Open(t, r))' => Open(t, r)
    PROVE  (MayReplay(t, m))' => MayReplay(t, m)
  BY DEF MayReplay

\* No step but a crash lets a thread hand over a message again.
LEMMA ReplayStep ==
    ASSUME Steady, SendingExact, ReplaysSorted, [Next]_vars, ~Crash,
           NEW t \in Threads, NEW m \in Messages
    PROVE  (MayReplay(t, m))' => MayReplay(t, m)
<1>0. TypeOK
  BY DEF Steady
<1>1. CASE Keeps
  BY <1>1 DEF Keeps, MayReplay, Open
<1>2. ASSUME NEW u \in Threads, Select(u) PROVE (MayReplay(t, m))' => MayReplay(t, m)
  <2>1. /\ ToSet(thread'[u].rows) = Undelivered /\ UNCHANGED queue
        /\ \A v \in Threads : v # u => thread'[v] = thread[v]
        /\ thread[u].at = "select"
    BY <1>0, <1>2, SelectType DEF Select, Database
  <2>2. CASE u = t
    <3>1. \A r \in DOMAIN queue : (Open(t, r))' => Open(t, r)
      BY <2>1, <2>2 DEF Open, Undelivered
    <3> QED  BY <2>1, <3>1, MayReplayFalls
  <2>3. CASE u # t
    BY <2>1, <2>3 DEF MayReplay, Open
  <2> QED  BY <2>2, <2>3
<1>3. ASSUME NEW u \in Threads, HandRow(u) PROVE (MayReplay(t, m))' => MayReplay(t, m)
  <2>1. Goto(u, "mark") /\ "mark" \in Positions /\ UNCHANGED queue /\ thread[u].at = "replay"
    BY <1>3 DEF HandRow, Positions, Database
  <2>2. \A v \in Threads : /\ thread'[v].rows = thread[v].rows
                           /\ v # u => thread'[v] = thread[v]
    BY <1>0, <2>1, GotoType
  <2>3. \A r \in DOMAIN queue : (Open(t, r))' => Open(t, r)
    BY <2>1, <2>2 DEF Open
  <2> QED  BY <2>1, <2>3, MayReplayFalls
<1>4. ASSUME NEW u \in Threads, MarkRow(u) PROVE (MayReplay(t, m))' => MayReplay(t, m)
  <2> DEFINE row == thread[u].rows[1]
             rows == thread[u].rows
  <2>1. thread[u].at = "mark" /\ rows # <<>> /\ row \in DOMAIN queue
    BY <1>4, MarkHasRow DEF MarkRow
  <2>2. /\ DOMAIN queue' = DOMAIN queue /\ queue'[row].delivered
        /\ \A r \in DOMAIN queue : /\ queue'[r].msg = queue[r].msg
                                   /\ queue[r].delivered => queue'[r].delivered
        /\ thread'[u].at = "replay" /\ thread'[u].rows = Tail(rows)
        /\ \A v \in Threads : v # u => thread'[v] = thread[v]
    BY <1>0, <1>4, <2>1, MarkType
  <2>3. /\ rows \in Seq(Nat) /\ 1 \in DOMAIN rows
        /\ ToSet(Tail(rows)) \subseteq ToSet(rows)
        /\ \A i \in DOMAIN Tail(rows) : /\ i \in Nat \ {0} /\ i + 1 \in DOMAIN rows
                                        /\ Tail(rows)[i] = rows[i + 1]
    <3>1. rows \in Seq(Nat)
      BY <1>0 DEF TypeOK
    <3>2. \A i \in DOMAIN Tail(rows) : i \in Nat \ {0}
      BY <2>1, <3>1
    <3> QED  BY <2>1, <3>1, <3>2, TailOfRows
  <2>4. row \notin ToSet(Tail(rows))
    <3> SUFFICES ASSUME NEW i \in DOMAIN Tail(rows) PROVE Tail(rows)[i] # row
      BY DEF ToSet
    <3>1. i + 1 # 1 /\ i + 1 \in DOMAIN rows
      BY <2>3
    <3>2. rows[i + 1] # rows[1]
      BY <2>3, <3>1 DEF ReplaysSorted
    <3> QED  BY <2>3, <3>2
  <2> HIDE DEF row, rows
  <2>5. ASSUME NEW r \in DOMAIN queue, (Open(t, r))' PROVE Open(t, r)
    <3>1. CASE t = u
      <4>1. ~queue'[r].delivered \/ r \in ToSet(Tail(rows))
        BY <2>2, <2>5, <3>1 DEF Open
      <4>2. r # row
        BY <2>2, <2>4, <4>1
      <4>3. ~queue[r].delivered \/ r \in ToSet(rows)
        BY <2>2, <2>3, <4>1
      <4> QED  BY <3>1, <4>2, <4>3 DEF Open, row, rows
    <3>2. CASE t # u
      BY <2>2, <2>5, <3>2 DEF Open
    <3> QED  BY <3>1, <3>2
  <2> QED  BY <2>2, <2>5, MayReplayFalls
<1>5. ASSUME NEW s \in Senders, Enqueue(s) PROVE (MayReplay(t, m))' => MayReplay(t, m)
  <2> DEFINE n == Len(queue) + 1
  <2>1. /\ DOMAIN queue' = DOMAIN queue \cup {n}
        /\ \A r \in DOMAIN queue : queue'[r] = queue[r]
        /\ queue'[n].msg = Head(toSend[s]) /\ toSend[s] # <<>>
    BY <1>5, EnqueueType
  <2> HIDE DEF n
  <2>2. UNCHANGED thread
    BY <1>5 DEF Enqueue, Others
  <2>3. ASSUME NEW r \in DOMAIN queue PROVE queue[r].msg # Head(toSend[s])
    <3>1. Head(toSend[s]) \in ToSet(toSend[s])
      BY <1>0, <2>1, TailToSend DEF SendingExact, TypeOK
    <3>2. sender[s] = "enqueue" /\ queue[r].from \in Senders
      BY <1>0, <1>5, QueueRows DEF Enqueue
    <3>3. queue[r].from = s => queue[r].msg \notin ToSet(toSend[s])
      BY <3>2 DEF SendingExact
    <3>4. queue[r].from # s => queue[r].msg \notin ToSet(toSend[s])
      BY <3>2, SessionAssumption DEF SendingExact
    <3> QED  BY <3>1, <3>3, <3>4
  <2>4. \A r \in DOMAIN queue : (Open(t, r))' => Open(t, r)
    BY <2>1, <2>2 DEF Open
  <2>5. CASE m = Head(toSend[s])
    BY <2>3, <2>5 DEF MayReplay
  <2>6. CASE m # Head(toSend[s])
    BY <2>1, <2>4, <2>6 DEF MayReplay
  <2> QED  BY <2>5, <2>6
<1> QED  BY <1>1, <1>2, <1>3, <1>4, <1>5, StepKinds

\* The number of a message that is handed over grows by one, and only when it
\* comes from the broker or a replay.
LEMMA HandedKinds ==
    ASSUME Steady, StreamExact, [Next]_vars, NEW m \in Single
    PROVE  \/ handed'[m] = handed[m]
           \/ OnMessage /\ Head(events) = m /\ handed'[m] <= handed[m] + 1
           \/ \E t \in Threads : /\ HandRow(t) /\ queue[thread[t].rows[1]].msg = m
                                 /\ handed'[m] <= handed[m] + 1
<1> USE DEF Database, Network, Client, Sending, Faults, Ghosts
<1>0. TypeOK /\ m \in Messages /\ m \notin RetainedOnes
  BY DEF Steady, Single
<1>1. ASSUME HandOver(upserted) PROVE handed'[m] = handed[m]
  <2>1. upserted \in Messages \cup {NoMessage} /\ upserted # m
    BY <1>0, SessionAssumption DEF StreamExact, TypeOK
  <2> QED  BY <1>0, <1>1, <2>1, HandOverType
<1>2. CASE OnMessage
  <2>1. Head(events) \in Messages /\ HandOver(Head(events))
    BY <1>2 DEF OnMessage
  <2> QED  BY <1>0, <1>2, <2>1, HandOverType
<1>3. ASSUME NEW t \in Threads, HandRow(t)
      PROVE  \/ handed'[m] = handed[m]
             \/ queue[thread[t].rows[1]].msg = m /\ handed'[m] <= handed[m] + 1
  <2>1. /\ queue[thread[t].rows[1]].msg \in Messages
        /\ HandOver(queue[thread[t].rows[1]].msg)
    BY <1>0, <1>3, HandRowType
  <2> QED  BY <1>0, <2>1, HandOverType
<1>4. CASE Fetch
  BY <1>1, <1>4 DEF Fetch
<1>5. ASSUME NEW t \in Threads, RecoverAll(t) PROVE handed'[m] = handed[m]
  BY <1>1, <1>5 DEF RecoverAll
<1>6. CASE Connect \/ Subscribe \/ Disconnect \/ Close \/ LoopStopped
  BY <1>6 DEF Connect, Subscribe, Disconnect, Close, LoopStopped
<1>7. CASE OnConnect \/ OnDisconnect \/ Disconnected \/ Reconnect
  BY <1>7 DEF OnConnect, OnDisconnect, Disconnected, Reconnect
<1>8. ASSUME NEW t \in Threads, SetOnline(t) \/ Select(t) \/ MarkRow(t) \/ ReplayEnds(t)
      PROVE  handed'[m] = handed[m]
  BY <1>8 DEF SetOnline, Select, MarkRow, ReplayEnds
<1>9. CASE StartHeartbeat \/ HeartbeatEnds \/ LoseLink \/ Crash \/ UNCHANGED vars
  BY <1>9 DEF StartHeartbeat, HeartbeatEnds, LoseLink, Crash, vars
<1>10. ASSUME NEW s \in Senders, Send(s) \/ SenderSteps(s) PROVE handed'[m] = handed[m]
  BY <1>10 DEF Send, SenderSteps, Look, Enqueue, Publish, Others
<1> QED  BY <1>2, <1>3, <1>4, <1>5, <1>6, <1>7, <1>8, <1>9, <1>10
         DEF Next, AppSteps, PahoSteps, ReplaySteps

\* Possibilities count once.
LEMMA OneIfType == \A a \in BOOLEAN : OneIf(a) \in {0, 1} /\ (OneIf(a) = 1 <=> a)
  BY DEF OneIf

\* What may still happen is a truth value.
LEMMA MayType ==
    ASSUME NEW m
    PROVE  MayStream(m) \in BOOLEAN /\ \A t : MayReplay(t, m) \in BOOLEAN
  BY DEF MayStream, MayReplay, Ahead

\* The count when nothing more may happen than could before.
LEMMA CountFalls ==
    ASSUME NEW h \in Nat, NEW a \in {0, 1}, NEW b \in {0, 1}, NEW c \in {0, 1},
           NEW i \in Nat, NEW x \in {0, 1}, NEW y \in {0, 1}, NEW z \in {0, 1},
           NEW k \in Nat, h + a + b + c <= 1 + 2 * (1 + k),
           i + x + y + z <= h + a + b + c
    PROVE  i + x + y + z <= 1 + 2 * (1 + k)
  OBVIOUS

\* The first states.
LEMMA RepeatsInit == ASSUME Init PROVE StreamExact /\ RepeatsCounted
<1>1. DOMAIN events = {} /\ ToSet(events) = {}
  BY DEF Init, ToSet
<1>2. StreamExact
  BY <1>1 DEF Init, StreamExact, Once
<1>3. ASSUME NEW m \in Single
      PROVE  /\ handed[m] = 0 /\ crashes = 0
             /\ OneIf(MayStream(m)) \in {0, 1}
             /\ \A t \in Threads : OneIf(MayReplay(t, m)) \in {0, 1}
  BY OneIfType, MayType DEF Init, Single
<1>4. "app" \in Threads /\ "paho" \in Threads
  BY DEF Threads
<1>5. RepeatsCounted
  BY <1>3, <1>4 DEF RepeatsCounted
<1> QED  BY <1>2, <1>5

\* Every step keeps the count.
LEMMA RepeatsStep ==
    ASSUME Steady, Steady', SendingExact, ReplaysSorted, StreamExact, RepeatsCounted, [Next]_vars
    PROVE  RepeatsCounted'
<1> SUFFICES ASSUME NEW m \in Single
             PROVE  handed'[m] + OneIf((MayStream(m))') + OneIf((MayReplay("app", m))')
                      + OneIf((MayReplay("paho", m))') <= 1 + 2 * (1 + crashes')
  BY DEF RepeatsCounted, OneIf
<1> DEFINE a == OneIf(MayStream(m))
           b == OneIf(MayReplay("app", m))
           c == OneIf(MayReplay("paho", m))
           x == OneIf((MayStream(m))')
           y == OneIf((MayReplay("app", m))')
           z == OneIf((MayReplay("paho", m))')
<1>0. /\ m \in Messages /\ handed[m] \in Nat /\ handed'[m] \in Nat
      /\ crashes \in Nat /\ crashes' \in Nat
      /\ "app" \in Threads /\ "paho" \in Threads /\ \A t \in Threads : t = "app" \/ t = "paho"
  BY DEF Steady, TypeOK, Single, Threads
<1>1. /\ MayStream(m) \in BOOLEAN /\ MayReplay("app", m) \in BOOLEAN
      /\ MayReplay("paho", m) \in BOOLEAN
  BY MayType
<1>2. /\ (MayStream(m))' \in BOOLEAN /\ (MayReplay("app", m))' \in BOOLEAN
      /\ (MayReplay("paho", m))' \in BOOLEAN
  BY DEF MayStream, MayReplay, Ahead
<1>3. a \in {0, 1} /\ b \in {0, 1} /\ c \in {0, 1} /\ x \in {0, 1} /\ y \in {0, 1} /\ z \in {0, 1}
  BY <1>1, <1>2, OneIfType
<1>4. handed[m] + a + b + c <= 1 + 2 * (1 + crashes)
  BY DEF RepeatsCounted
<1>5. (MayStream(m))' => MayStream(m)
  BY StreamStep
<1>6. x <= a
  BY <1>1, <1>2, <1>5 DEF OneIf
<1>7. CASE Crash
  <2>1. handed'[m] = handed[m] /\ crashes' = crashes + 1
    BY <1>7 DEF Crash, Ghosts
  <2> HIDE DEF a, b, c, x, y, z
  <2>2. handed[m] + x + y + z <= handed[m] + a + b + c + 2
    BY <1>0, <1>3, <1>6
  <2> QED  BY <1>0, <1>3, <1>4, <2>1, <2>2 DEF x, y, z
<1>8. CASE ~Crash
  <2>1. crashes' = crashes
    <3> USE DEF Faults
    <3>1. ASSUME NEW t \in Threads, ReplaySteps(t) PROVE crashes' = crashes
      BY <3>1 DEF ReplaySteps, SetOnline, RecoverAll, Select, HandRow, MarkRow, ReplayEnds
    <3>2. ASSUME NEW s \in Senders, Send(s) \/ SenderSteps(s) PROVE crashes' = crashes
      BY <3>2 DEF Send, SenderSteps, Look, Enqueue, Publish, Others
    <3>3. CASE Connect \/ Subscribe \/ Disconnect \/ AppSteps \/ PahoSteps
      BY <3>3 DEF Connect, Subscribe, Disconnect, AppSteps, Fetch, Close, LoopStopped,
                  PahoSteps, OnConnect, OnDisconnect, Disconnected, OnMessage, Reconnect
    <3>4. CASE StartHeartbeat \/ HeartbeatEnds \/ LoseLink \/ UNCHANGED vars
      BY <3>4 DEF StartHeartbeat, HeartbeatEnds, LoseLink, vars
    <3> QED  BY <1>8, <3>1, <3>2, <3>3, <3>4 DEF Next
  <2>2. /\ (MayReplay("app", m))' => MayReplay("app", m)
        /\ (MayReplay("paho", m))' => MayReplay("paho", m)
    BY <1>0, <1>8, ReplayStep
  <2>3. y <= b /\ z <= c
    BY <1>1, <1>2, <2>2 DEF OneIf
  <2>4. handed'[m] + x + y + z <= handed[m] + a + b + c
    <3>1. CASE handed'[m] = handed[m]
      <4> HIDE DEF a, b, c, x, y, z
      <4> QED  BY <1>0, <1>3, <1>6, <2>3, <3>1
    <3>2. CASE OnMessage /\ Head(events) = m /\ handed'[m] <= handed[m] + 1
      <4>1. events # <<>> /\ events' = Tail(events) /\ UNCHANGED toSend
        BY <3>2 DEF OnMessage, Sending
      <4>2. m \in ToSet(events) /\ m \notin ToSet(events')
        BY <3>2, <4>1, EventsFall DEF Steady, StreamExact
      <4>3. ~Ahead(m) /\ ~(Ahead(m))'
        BY <4>1, <4>2 DEF StreamExact, Ahead
      <4>4. MayStream(m) /\ ~(MayStream(m))'
        BY <4>2, <4>3 DEF MayStream
      <4>5. a = 1 /\ x = 0
        BY <4>4 DEF OneIf
      <4> HIDE DEF a, b, c, x, y, z
      <4> QED  BY <1>0, <1>3, <2>3, <3>2, <4>5
    <3>3. ASSUME NEW t \in Threads, HandRow(t), queue[thread[t].rows[1]].msg = m,
                 handed'[m] <= handed[m] + 1
          PROVE  handed'[m] + x + y + z <= handed[m] + a + b + c
      <4> PICK row : row = thread[t].rows[1]
        OBVIOUS
      <4>1. row \in DOMAIN queue /\ 1 \in DOMAIN thread[t].rows
        <5>1. thread[t].rows # <<>> /\ thread[t].rows \in Seq(Nat)
          BY <3>3 DEF HandRow, Steady, TypeOK
        <5> QED  BY <3>3, <5>1, HandRowType DEF Steady
      <4>2. Goto(t, "mark") /\ "mark" \in Positions /\ UNCHANGED queue /\ thread[t].at = "replay"
        BY <3>3 DEF HandRow, Positions, Database
      <4>3. thread'[t].at = "mark" /\ thread'[t].rows = thread[t].rows
        BY <4>2, GotoType DEF Steady
      <4>4. MayReplay(t, m)
        BY <3>3, <4>1, <4>2 DEF MayReplay, Open, ToSet
      <4>5. \A r \in DOMAIN queue : queue[r].msg = m => r = row
        <5>1. \A r \in DOMAIN queue : r \in Nat
          BY QueueRows DEF Steady
        <5>2. \A r \in DOMAIN queue : r < row \/ r = row \/ row < r
          BY <4>1, <5>1
        <5> QED  BY <3>3, <4>1, <5>2 DEF SendingExact
      <4>6. ~(Open(t, row))'
        BY <4>3 DEF Open
      <4>7. ~(MayReplay(t, m))'
        BY <3>3, <4>1, <4>2, <4>5, <4>6 DEF MayReplay
      <4>8. (b = 1 /\ y = 0) \/ (c = 1 /\ z = 0)
        BY <1>0, <4>4, <4>7 DEF OneIf
      <4> HIDE DEF a, b, c, x, y, z
      <4> QED  BY <1>0, <1>3, <1>6, <2>3, <3>3, <4>8
    <3> QED  BY <3>1, <3>2, <3>3, HandedKinds
  <2> HIDE DEF a, b, c, x, y, z
  <2>5. handed'[m] + x + y + z <= 1 + 2 * (1 + crashes')
    BY <1>0, <1>3, <1>4, <2>1, <2>4, CountFalls
  <2> QED  BY <2>5 DEF x, y, z
<1> QED  BY <1>7, <1>8

\* The callback gets a message that is not retained at most three times, and twice
\* more for each crash, whatever threads, reconnections and the broker repeat
\* (persistence.py:278).
THEOREM RepeatsAreBounded == Spec => []RepeatsBounded
<1> DEFINE Inv == /\ Steady /\ SendingExact /\ Ordered /\ QueueInOrder
                  /\ StreamExact /\ RepeatsCounted
<1>1. Init => Inv
  BY SteadyInit, SendingInit, OrderInit, RepeatsInit
<1>2. Inv /\ [Next]_vars => Inv'
  <2> SUFFICES ASSUME Inv, [Next]_vars PROVE Inv'
    OBVIOUS
  <2>1. Steady' /\ SendingExact' /\ Ordered' /\ QueueInOrder' /\ StreamExact'
    BY SteadyStep, SendingStep, OrderStep, StreamStep
  <2>2. RepeatsCounted'
    BY <2>1, RepeatsStep DEF Ordered
  <2> QED  BY <2>1, <2>2
<1>3. Inv => RepeatsBounded
  <2> SUFFICES ASSUME Inv, NEW m \in Messages \ RetainedOnes
               PROVE  handed[m] <= 1 + 2 * (1 + crashes)
    BY DEF RepeatsBounded
  <2> DEFINE a == OneIf(MayStream(m))
             b == OneIf(MayReplay("app", m))
             c == OneIf(MayReplay("paho", m))
  <2>1. a \in {0, 1} /\ b \in {0, 1} /\ c \in {0, 1}
    BY OneIfType, MayType
  <2>2. handed[m] \in Nat /\ crashes \in Nat
    BY DEF Steady, TypeOK
  <2>3. handed[m] + a + b + c <= 1 + 2 * (1 + crashes)
    BY DEF RepeatsCounted, Single
  <2> HIDE DEF a, b, c
  <2> QED  BY <2>1, <2>2, <2>3
<1> HIDE DEF Inv
<1> QED  BY <1>1, <1>2, <1>3, PTL DEF Spec
=============================================================================
