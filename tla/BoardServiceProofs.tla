------------------------ MODULE BoardServiceProofs ------------------------
(***************************************************************************)
(* Proofs about the requests to the bulletin board, for any number of      *)
(* clients and calls, any capacity of the channel and any number of        *)
(* crashes, lost connections, database errors and timeouts.                *)
(***************************************************************************)
EXTENDS BoardService, FiniteSetTheorems, TLAPS

-----------------------------------------------------------------------------
(* Sequences.                                                              *)

\* What is left when the head is taken.
LEMMA TailElements ==
    ASSUME NEW S, NEW s \in Seq(S), s # <<>>
    PROVE  /\ Head(s) \in S /\ Head(s) = s[1] /\ 1 \in DOMAIN s
           /\ Tail(s) \in Seq(S) /\ Len(Tail(s)) = Len(s) - 1
           /\ \A i \in DOMAIN Tail(s) :
                i \in Nat /\ i + 1 \in DOMAIN s /\ Tail(s)[i] = s[i + 1]
           /\ \A i \in DOMAIN s : i # 1 => i - 1 \in DOMAIN Tail(s)
OBVIOUS

\* What a sequence holds when something was appended.
LEMMA AppendElements ==
    ASSUME NEW S, NEW s \in Seq(S), NEW e \in S
    PROVE  /\ Append(s, e) \in Seq(S) /\ Len(Append(s, e)) = Len(s) + 1
           /\ \A i \in DOMAIN Append(s, e) :
                \/ i \in DOMAIN s /\ Append(s, e)[i] = s[i]
                \/ i = Len(s) + 1 /\ Append(s, e)[i] = e
           /\ \A i \in DOMAIN s : i \in DOMAIN Append(s, e) /\ Append(s, e)[i] = s[i]
           /\ Len(s) + 1 \in DOMAIN Append(s, e) /\ Append(s, e)[Len(s) + 1] = e
OBVIOUS

\* What a sequence holds when others were put before it.
LEMMA ConcatElements ==
    ASSUME NEW S, NEW r \in Seq(S), NEW s \in Seq(S)
    PROVE  /\ r \o s \in Seq(S) /\ Len(r \o s) = Len(r) + Len(s)
           /\ \A i \in DOMAIN r : i \in DOMAIN (r \o s) /\ (r \o s)[i] = r[i]
           /\ \A i \in DOMAIN (r \o s) :
                \/ i \in DOMAIN r /\ (r \o s)[i] = r[i]
                \/ i > Len(r) /\ i - Len(r) \in DOMAIN s /\ (r \o s)[i] = s[i - Len(r)]
           /\ \A i \in DOMAIN s : i + Len(r) \in DOMAIN (r \o s) /\ (r \o s)[i + Len(r)] = s[i]
OBVIOUS

-----------------------------------------------------------------------------
(* Calls and what is sent for them.                                        *)

\* A call is one of a client, up to its bound.
LEMMA IdFacts ==
    /\ \A c \in Clients : \A n \in 1..MaxCalls[c] : <<c, n>> \in Ids
    /\ \A id \in Ids : /\ id[1] \in Clients /\ id[2] \in 1..MaxCalls[id[1]]
                       /\ id = <<id[1], id[2]>>
<1>1. ASSUME NEW c \in Clients, NEW n \in 1..MaxCalls[c] PROVE <<c, n>> \in Ids
  BY DEF Ids
<1>2. ASSUME NEW id \in Ids
      PROVE  /\ id[1] \in Clients /\ id[2] \in 1..MaxCalls[id[1]] /\ id = <<id[1], id[2]>>
  <2>1. PICK c \in Clients : id \in {c} \X (1..MaxCalls[c])
    BY DEF Ids
  <2> QED  BY <2>1
<1> QED  BY <1>1, <1>2

\* There are finitely many calls.
LEMMA IdsFinite == IsFiniteSet(Ids)
<1> DEFINE Of(c) == {c} \X (1..MaxCalls[c])
           All == {Of(c) : c \in Clients}
           f == [c \in Clients |-> Of(c)]
<1>1. ASSUME NEW c \in Clients PROVE IsFiniteSet(Of(c))
  <2>1. MaxCalls[c] \in Nat
    BY ServiceAssumption
  <2>2. IsFiniteSet(1..MaxCalls[c])
    BY <2>1, FS_Interval
  <2> QED  BY <2>2, FS_Singleton, FS_Product
<1>2. IsFiniteSet(All)
  <2>1. f \in Surjection(Clients, All)
    BY DEF Surjection
  <2> QED  BY <2>1, FS_Surjection, ServiceAssumption
<1>3. \A T \in All : IsFiniteSet(T)
  BY <1>1
<1>4. IsFiniteSet(UNION All)
  BY <1>2, <1>3, FS_UNION
<1> QED  BY <1>4 DEF Ids

\* The calls that were begun.
Issued == {id \in Ids : id[2] <= calls[id[1]]}

\* A call that has not returned is the last one its client has begun.
Pending ==
    \A c \in Clients :
      phase[c] # "idle" =>
        /\ calls[c] \in 1..MaxCalls[c]
        /\ request[c] \in Requests /\ request[c].id = Id(c)

\* There are no more rows and requests than calls begun and requests repeated.
Bounded == Len(posts) + Len(incoming) <= Cardinality(Issued) + faults

\* What the number of rows may come to.
LEMMA RowsBounded ==
    ASSUME TypeOK, Bounded
    PROVE  /\ incoming # <<>> => Len(posts) + 1 \in Rows
           /\ Len(posts) \in {0} \cup Rows
<1>1. Cardinality(Issued) \in Nat /\ Cardinality(Issued) <= Cardinality(Ids)
      /\ Cardinality(Ids) \in Nat
  <2>1. Issued \in SUBSET Ids
    BY DEF Issued
  <2>2. IsFiniteSet(Issued)
    BY <2>1, IdsFinite, FS_Subset
  <2> QED  BY <2>1, <2>2, IdsFinite, FS_Subset, FS_CardinalityType
<1>2. /\ Len(posts) \in Nat /\ Len(incoming) \in Nat
      /\ incoming # <<>> => Len(incoming) >= 1
      /\ faults \in Nat /\ faults <= MaxFaults /\ MaxFaults \in Nat
  BY ServiceAssumption DEF TypeOK
<1> DEFINE n == Cardinality(Ids)
           m == Cardinality(Issued)
<1>3. Rows = 1..(n + MaxFaults) /\ Len(posts) + Len(incoming) <= m + faults
  BY DEF Rows, Bounded
<1> HIDE DEF n, m
<1>4. n \in Nat /\ m \in Nat /\ m <= n
  BY <1>1 DEF n, m
<1> QED  BY <1>2, <1>3, <1>4

\* What the service publishes.
LEMMA PacketFacts ==
    /\ \A id \in Ids : \A body \in Bodies :
         Response(id, body) \in Messages /\ Response(id, body) \in Packets
    /\ \A row \in Rows : NewPost(row) \in Messages /\ NewPost(row) \in Packets
    /\ Event \in Packets /\ Subscribe \in Packets
BY DEF Response, NewPost, Messages, Packets, Event, Subscribe

\* What a message is.
LEMMA MessageKinds ==
    ASSUME NEW msg \in Messages
    PROVE  \/ msg.type = "response" /\ msg.id \in Ids /\ msg.body \in Bodies
              /\ msg = Response(msg.id, msg.body)
           \/ msg.type = "new_post" /\ msg.row \in Rows /\ msg = NewPost(msg.row)
BY DEF Messages, Response, NewPost

\* What a packet is.
LEMMA PacketKinds ==
    ASSUME NEW packet \in Packets
    PROVE  \/ packet \in Messages /\ packet.type \in {"response", "new_post"}
           \/ packet = Event /\ packet.type = "event"
           \/ packet = Subscribe /\ packet.type = "subscribe"
BY DEF Packets, Messages, Event, Subscribe

\* The bodies the handlers make.
LEMMA BodyFacts ==
    /\ \A id \in Ids : [token |-> id] \in Bodies
    /\ \A row \in Rows : [row |-> row] \in Bodies
    /\ \A n \in {0} \cup Rows : [total |-> n] \in Bodies
    /\ [error |-> "invalid token"] \in Bodies
BY DEF Bodies

-----------------------------------------------------------------------------
(* TypeOK.                                                                 *)

\* Beginning a call.
LEMMA CallType ==
    ASSUME TypeOK, NEW c \in Clients, NEW op \in Operations, NEW tok \in Ids \cup {None},
           Call(c, op, tok)
    PROVE  TypeOK'
<1> DEFINE req == [id |-> <<c, calls[c] + 1>>, op |-> op, token |-> tok]
<1>1. calls[c] \in Nat /\ MaxCalls[c] \in Nat /\ calls[c] + 1 \in 1..MaxCalls[c]
  <2>1. calls[c] \in Nat /\ MaxCalls[c] \in Nat
    BY ServiceAssumption DEF TypeOK
  <2>2. calls[c] < MaxCalls[c]
    BY DEF Call
  <2> QED  BY <2>1, <2>2
<1>2. req \in Requests
  BY <1>1, IdFacts DEF Requests
<1>3. /\ request' = [request EXCEPT ![c] = req]
      /\ incoming' = IF subscribed THEN Append(incoming, req) ELSE incoming
      /\ calls' = [calls EXCEPT ![c] = @ + 1]
      /\ phase' = [phase EXCEPT ![c] = "published"]
  BY DEF Call
<1> HIDE DEF req
<1>4. request' \in [Clients -> Requests \cup {None}]
  BY <1>2, <1>3 DEF TypeOK
<1>5. incoming' \in Seq(Requests)
  BY <1>2, <1>3, AppendElements DEF TypeOK
<1>6. calls' \in [Clients -> Nat] /\ \A d \in Clients : calls'[d] <= MaxCalls[d]
  BY <1>1, <1>3, SMTT(20) DEF TypeOK
<1>7. phase' \in [Clients -> {"idle", "published", "waiting"}]
  BY <1>3 DEF TypeOK
<1> QED
  BY <1>4, <1>5, <1>6, <1>7 DEF Call, TypeOK, arrivals, database

\* Other steps of a client.
LEMMA ClientType ==
    ASSUME TypeOK, Pending, NEW c \in Clients,
           Expect(c) \/ OnMessage(c) \/ Return(c) \/ Timeout(c) \/ ClientLinkLost(c)
    PROVE  TypeOK'
<1>1. CASE Expect(c)
  BY <1>1 DEF Expect, TypeOK, arrivals, database
<1>2. CASE OnMessage(c)
  <2>1. inbox[c] \in Seq(Messages) /\ inbox[c] # <<>>
    BY <1>2 DEF TypeOK, OnMessage
  <2>2. Head(inbox[c]) \in Messages /\ Tail(inbox[c]) \in Seq(Messages)
    BY <2>1, TailElements
  <2>3. PICK msg \in Messages : msg = Head(inbox[c])
    BY <2>2
  <2>4. inbox' \in [Clients -> Seq(Messages)]
    BY <1>2, <2>2 DEF OnMessage, TypeOK
  <2>5. CASE msg.type = "response"
    <3>1. msg.body \in Bodies
      BY <2>5, MessageKinds
    <3>2. slot' \in [Clients -> Bodies \cup {None}] /\ seen' = seen
      BY <1>2, <2>3, <2>5, <3>1 DEF OnMessage, TypeOK
    <3> QED  BY <1>2, <2>4, <3>2 DEF OnMessage, TypeOK, database
  <2>6. CASE msg.type = "new_post"
    <3>1. msg.row \in Rows
      BY <2>6, MessageKinds
    <3>2. seen[c] \in Seq(Rows)
      BY DEF TypeOK
    <3>3. Append(seen[c], msg.row) \in Seq(Rows)
      BY <3>1, <3>2, AppendElements
    <3>4. seen' \in [Clients -> Seq(Rows)] /\ slot' = slot
      BY <1>2, <2>3, <2>6, <3>3 DEF OnMessage, TypeOK
    <3> QED  BY <1>2, <2>4, <3>4 DEF OnMessage, TypeOK, database
  <2> QED  BY <2>5, <2>6, MessageKinds
<1>3. ASSUME NEW result \in Bodies \cup {TimedOut}, End(c, result)
      PROVE  /\ outcome' \in [Ids -> Bodies \cup {TimedOut, None}]
             /\ slot' \in [Clients -> Bodies \cup {None}]
             /\ phase' \in [Clients -> {"idle", "published", "waiting"}]
  BY <1>3 DEF End, TypeOK
<1>4. CASE Return(c)
  <2>1. slot[c] \in Bodies
    BY <1>4 DEF Return, TypeOK
  <2>2. End(c, slot[c])
    BY <1>4 DEF Return
  <2>3. cached' \in [Clients -> Ids \cup {None}]
    <3>1. slot[c] \in [token : Ids] => slot[c].token \in Ids
      OBVIOUS
    <3> QED  BY <1>4, <3>1 DEF Return, TypeOK
  <2> QED
    BY <1>3, <1>4, <2>1, <2>2, <2>3 DEF Return, End, TypeOK, arrivals, database
<1>5. CASE Timeout(c)
  <2>1. End(c, TimedOut) /\ faults' \in 0..MaxFaults
    BY <1>5, ServiceAssumption DEF Timeout, Fault, TypeOK
  <2> QED
    BY <1>3, <1>5, <2>1 DEF Timeout, End, TypeOK, arrivals, database
<1>6. CASE ClientLinkLost(c)
  <2>1. faults' \in 0..MaxFaults
    BY <1>6, ServiceAssumption DEF ClientLinkLost, Fault, TypeOK
  <2>2. incoming' \in Seq(Requests)
    <3>1. CASE incoming' = incoming
      BY <3>1 DEF TypeOK
    <3>2. CASE phase[c] # "idle" /\ incoming' = Append(incoming, request[c])
      <4>1. request[c] \in Requests /\ incoming \in Seq(Requests)
        BY <3>2 DEF Pending, TypeOK
      <4> QED  BY <3>2, <4>1, AppendElements
    <3> QED  BY <1>6, <3>1, <3>2 DEF ClientLinkLost
  <2>3. inbox' \in [Clients -> Seq(Messages)] /\ listening' \subseteq Clients
    BY <1>6 DEF ClientLinkLost, TypeOK
  <2> QED
    BY <1>6, <2>1, <2>2, <2>3 DEF ClientLinkLost, TypeOK, client, database
<1> QED  BY <1>1, <1>2, <1>4, <1>5, <1>6

\* A handler's messages and rows.
LEMMA HandleType ==
    ASSUME TypeOK, Bounded, NEW req \in Requests, incoming # <<>>,
           HandleRegister(req) \/ HandlePost(req) \/ HandleCount(req)
    PROVE  /\ handler' \in Seq(Packets) /\ token' \in Ids \cup {None} /\ posts' \in Seq(Ids)
<1>1. Len(posts) + 1 \in Rows /\ Len(posts) \in {0} \cup Rows
  BY RowsBounded
<1>2. req.id \in Ids
  BY DEF Requests
<1>3. token \in Ids \cup {None} /\ posts \in Seq(Ids)
  BY DEF TypeOK
<1>4. PICK n : n = Len(posts) /\ n + 1 \in Rows /\ n \in {0} \cup Rows
  BY <1>1
<1>5. CASE HandleRegister(req)
  <2>1. PICK p \in Packets : p = Response(req.id, [token |-> req.id])
    BY <1>2, PacketFacts, BodyFacts
  <2>2. handler' = <<p>> /\ token' = req.id /\ posts' = posts
    BY <1>5, <2>1 DEF HandleRegister
  <2> QED  BY <1>2, <1>3, <2>2
<1>6. CASE HandleCount(req)
  <2>1. PICK p \in Packets : p = Response(req.id, [total |-> n])
    BY <1>2, <1>4, PacketFacts, BodyFacts
  <2>2. handler' = <<p>> /\ token' = token /\ posts' = posts
    BY <1>4, <1>6, <2>1 DEF HandleCount, database
  <2> QED  BY <1>3, <2>2
<1>7. CASE HandlePost(req)
  <2>1. PICK p \in Packets : p = Response(req.id, [row |-> n + 1])
    BY <1>2, <1>4, PacketFacts, BodyFacts
  <2>2. PICK q \in Packets : q = NewPost(n + 1)
    BY <1>4, PacketFacts
  <2>3. PICK r \in Packets : r = Response(req.id, [error |-> "invalid token"])
    BY <1>2, PacketFacts, BodyFacts
  <2>4. PICK e \in Packets : e = Event
    BY PacketFacts
  <2>5. /\ token' = token
        /\ \/ posts' = Append(posts, req.id) /\ handler' = <<p, q, e>>
           \/ posts' = posts /\ handler' = <<r>>
    BY <1>4, <1>7, <2>1, <2>2, <2>3, <2>4 DEF HandlePost
  <2>6. posts' \in Seq(Ids)
    BY <1>2, <1>3, <2>5, AppendElements
  <2>7. handler' \in Seq(Packets)
    <3>1. <<p, q, e>> \in Seq(Packets) /\ <<r>> \in Seq(Packets)
      OBVIOUS
    <3> QED  BY <2>5, <3>1
  <2> QED  BY <1>3, <2>5, <2>6, <2>7
<1> QED  BY <1>5, <1>6, <1>7

\* The steps of the service.
LEMMA ServiceType ==
    ASSUME TypeOK, Bounded,
           TakeRequest \/ Publish \/ Send \/ LinkLost \/ Crash \/ Restart
    PROVE  TypeOK'
<1>1. CASE TakeRequest
  <2>1. /\ incoming # <<>> /\ incoming \in Seq(Requests)
        /\ Head(incoming) \in Requests /\ incoming' \in Seq(Requests)
    BY <1>1, TailElements DEF TakeRequest, TypeOK
  <2>2. PICK req \in Requests : req = Head(incoming)
    BY <2>1
  <2>3. CASE (HandleRegister(req) \/ HandlePost(req) \/ HandleCount(req)) /\ faults' = faults
    <3>1. /\ handler' \in Seq(Packets) /\ token' \in Ids \cup {None} /\ posts' \in Seq(Ids)
      BY <2>1, <2>3, HandleType
    <3> QED
      BY <1>1, <2>1, <2>3, <3>1 DEF TakeRequest, TypeOK, client, arrivals
  <2>4. CASE Fault /\ UNCHANGED <<handler, database>>
    <3>1. faults' \in 0..MaxFaults
      BY <2>4, ServiceAssumption DEF Fault, TypeOK
    <3> QED
      BY <1>1, <2>1, <2>4, <3>1 DEF TakeRequest, TypeOK, client, arrivals, database
  <2> QED  BY <1>1, <2>2, <2>3, <2>4 DEF TakeRequest
<1>2. CASE Publish
  <2>1. handler # <<>> /\ handler \in Seq(Packets) /\ channel \in Seq(Packets)
    BY <1>2 DEF Publish, TypeOK
  <2>2. PICK p \in Packets : p = Head(handler)
    BY <2>1, TailElements
  <2>3. channel' = Append(channel, p) /\ handler' = Tail(handler)
    BY <1>2, <2>2 DEF Publish
  <2>4. /\ channel' \in Seq(Packets) /\ Len(channel') = Len(channel) + 1
        /\ handler' \in Seq(Packets)
    BY <2>1, <2>3, AppendElements, TailElements
  <2>5. Len(channel') <= ChannelCap
    <3>1. Len(channel) < ChannelCap /\ Len(channel) \in Nat /\ ChannelCap \in Nat
      BY <1>2, <2>1, ServiceAssumption DEF Publish
    <3> QED  BY <2>4, <3>1
  <2> QED
    BY <1>2, <2>4, <2>5 DEF Publish, TypeOK, client, arrivals, database
<1>3. CASE Send
  <2>1. channel # <<>> /\ channel \in Seq(Packets)
    BY <1>3 DEF Send, TypeOK
  <2>2. PICK packet \in Packets : packet = Head(channel)
    BY <2>1, TailElements
  <2>3. channel' \in Seq(Packets) /\ Len(channel') <= ChannelCap
    <3>1. channel' = Tail(channel) /\ Len(channel) <= ChannelCap
      BY <1>3 DEF Send, TypeOK
    <3>2. Tail(channel) \in Seq(Packets) /\ Len(Tail(channel)) = Len(channel) - 1
      BY <2>1, TailElements
    <3>3. Len(channel) \in Nat /\ ChannelCap \in Nat
      BY <2>1, ServiceAssumption
    <3> QED  BY <3>1, <3>2, <3>3
  <2>4. inbox' \in [Clients -> Seq(Messages)]
    <3> SUFFICES ASSUME NEW c \in Clients
                 PROVE  (IF Hears(c, packet) THEN Append(inbox[c], packet) ELSE inbox[c])
                          \in Seq(Messages)
      BY <1>3, <2>2 DEF Send
    <3>1. Hears(c, packet) => packet \in Messages
      BY PacketKinds DEF Hears
    <3>2. inbox[c] \in Seq(Messages)
      BY DEF TypeOK
    <3> QED  BY <3>1, <3>2, AppendElements
  <2>5. subscribed' \in BOOLEAN
    BY <1>3 DEF Send, TypeOK
  <2> QED
    BY <1>3, <2>3, <2>4, <2>5 DEF Send, TypeOK, client, database
<1>4. CASE LinkLost
  <2>1. faults' \in 0..MaxFaults
    BY <1>4, ServiceAssumption DEF LinkLost, Fault, TypeOK
  <2>2. channel' \in Seq(Packets) /\ Len(channel') <= ChannelCap
    <3>1. channel \in Seq(Packets) /\ Len(channel) <= ChannelCap /\ Len(channel) \in Nat
          /\ ChannelCap \in Nat
      BY ServiceAssumption DEF TypeOK
    <3>2. channel' = channel \/ (channel # <<>> /\ channel' = Tail(channel))
      BY <1>4 DEF LinkLost
    <3>3. channel # <<>> => Tail(channel) \in Seq(Packets) /\ Len(Tail(channel)) = Len(channel) - 1
      BY <3>1, TailElements
    <3> QED  BY <3>1, <3>2, <3>3
  <2>3. subscribed' \in BOOLEAN /\ cut' \in BOOLEAN
    BY <1>4 DEF LinkLost
  <2>4. incoming' \in Seq(Requests)
    <3>1. incoming' = <<>>
      BY <1>4 DEF LinkLost
    <3> QED  BY <3>1
  <2> QED
    BY <1>4, <2>1, <2>2, <2>3, <2>4 DEF LinkLost, TypeOK, client, arrivals, database
<1>5. CASE Crash
  <2>1. faults' \in 0..MaxFaults
    BY <1>5, ServiceAssumption DEF Crash, Fault, TypeOK
  <2>2. channel' = <<>> /\ Len(channel') <= ChannelCap
    BY <1>5, ServiceAssumption DEF Crash
  <2>3. subscribed' \in BOOLEAN /\ cut' \in BOOLEAN /\ up' \in BOOLEAN
    BY <1>5 DEF Crash
  <2>4. /\ incoming' \in Seq(Requests) /\ handler' \in Seq(Packets)
        /\ channel' \in Seq(Packets)
    <3>1. incoming' = <<>> /\ handler' = <<>> /\ channel' = <<>>
      BY <1>5 DEF Crash
    <3> QED  BY <3>1
  <2> QED
    BY <1>5, <2>1, <2>2, <2>3, <2>4 DEF Crash, TypeOK, client, arrivals, database
<1>6. CASE Restart
  <2>1. Subscribe \in Packets
    BY PacketFacts
  <2>2. channel' \in Seq(Packets) /\ Len(channel') = 1 /\ ChannelCap >= 1
    BY <1>6, <2>1, ServiceAssumption DEF Restart
  <2> QED
    BY <1>6, <2>2 DEF Restart, TypeOK, client, arrivals, database
<1> QED  BY <1>1, <1>2, <1>3, <1>4, <1>5, <1>6

\* The call that has not returned.
LEMMA PendingStep ==
    ASSUME TypeOK, Pending, [Next]_vars
    PROVE  Pending'
<1> SUFFICES ASSUME NEW c \in Clients, phase'[c] # "idle"
             PROVE  /\ calls'[c] \in 1..MaxCalls[c]
                    /\ request'[c] \in Requests /\ request'[c].id = Id(c)'
  BY DEF Pending
<1>0. DOMAIN calls = Clients /\ DOMAIN request = Clients /\ DOMAIN phase = Clients
  BY DEF TypeOK
<1>1. CASE calls'[c] = calls[c] /\ request'[c] = request[c] /\ phase[c] # "idle"
  BY <1>1 DEF Pending, Id
<1>2. ASSUME NEW d \in Clients, NEW op \in Operations, NEW tok \in Ids \cup {None},
             Call(d, op, tok)
      PROVE  /\ calls'[c] \in 1..MaxCalls[c]
             /\ request'[c] \in Requests /\ request'[c].id = Id(c)'
  <2>1. CASE d # c
    BY <1>0, <1>1, <1>2, <2>1 DEF Call
  <2>2. CASE d = c
    <3>1. calls[c] \in Nat /\ MaxCalls[c] \in Nat /\ calls[c] < MaxCalls[c]
      BY <1>2, <2>2, ServiceAssumption DEF TypeOK, Call
    <3>2. calls'[c] = calls[c] + 1 /\ calls[c] + 1 \in 1..MaxCalls[c]
      BY <1>0, <1>2, <2>2, <3>1 DEF Call
    <3>3. request'[c] = [id |-> <<c, calls[c] + 1>>, op |-> op, token |-> tok]
      BY <1>0, <1>2, <2>2 DEF Call
    <3>4. <<c, calls[c] + 1>> \in Ids
      BY <3>2, IdFacts
    <3>5. request'[c] \in Requests
      BY <3>3, <3>4 DEF Requests
    <3> QED  BY <3>2, <3>3, <3>5 DEF Id
  <2> QED  BY <2>1, <2>2
<1>3. ASSUME NEW d \in Clients, ClientStep(d),
             ~ \E op \in Operations : \E tok \in Ids \cup {None} : Call(d, op, tok)
      PROVE  calls' = calls /\ request' = request /\ phase[c] # "idle"
  <2>1. \/ Expect(d) \/ OnMessage(d) \/ Return(d) \/ Timeout(d) \/ ClientLinkLost(d)
    <3>1. cached[d] \in Ids \cup {None}
      BY DEF TypeOK
    <3> QED
      BY <1>3, <3>1 DEF ClientStep, Register, Post, CountPosts, Operations
  <2>2. calls' = calls /\ request' = request
    BY <2>1 DEF Expect, OnMessage, Return, Timeout, ClientLinkLost, End, client
  <2>3. \/ phase' = phase
        \/ phase' = [phase EXCEPT ![d] = "waiting"] /\ phase[d] = "published"
        \/ phase' = [phase EXCEPT ![d] = "idle"]
    BY <2>1 DEF Expect, OnMessage, Return, Timeout, ClientLinkLost, End, client
  <2> QED  BY <1>0, <2>2, <2>3
<1>4. ASSUME TakeRequest \/ Publish \/ Send \/ LinkLost \/ Crash \/ Restart
      PROVE  calls' = calls /\ request' = request /\ phase' = phase
  BY <1>4 DEF TakeRequest, Publish, Send, LinkLost, Crash, Restart, client
<1>5. UNCHANGED vars => calls' = calls /\ request' = request /\ phase' = phase
  BY DEF vars, client
<1> QED  BY <1>1, <1>2, <1>3, <1>4, <1>5 DEF Next

\* A step begins a call, or leaves the calls begun as they are.
LEMMA CallsStep ==
    ASSUME TypeOK, [Next]_vars
    PROVE  \/ \E c \in Clients : \E op \in Operations : \E tok \in Ids \cup {None} :
                Call(c, op, tok)
           \/ calls' = calls
<1>1. ASSUME NEW c \in Clients, ClientStep(c)
      PROVE  \/ \E op \in Operations : \E tok \in Ids \cup {None} : Call(c, op, tok)
             \/ calls' = calls
  <2>1. cached[c] \in Ids \cup {None}
    BY DEF TypeOK
  <2>2. CASE Register(c) \/ Post(c) \/ CountPosts(c)
    BY <2>1, <2>2 DEF Register, Post, CountPosts, Operations
  <2>3. CASE Expect(c) \/ OnMessage(c) \/ Return(c) \/ Timeout(c) \/ ClientLinkLost(c)
    BY <2>3 DEF Expect, OnMessage, Return, Timeout, ClientLinkLost, End, client
  <2> QED  BY <1>1, <2>2, <2>3 DEF ClientStep
<1>2. TakeRequest \/ Publish \/ Send \/ LinkLost \/ Crash \/ Restart => calls' = calls
  BY DEF TakeRequest, Publish, Send, LinkLost, Crash, Restart, client
<1>3. UNCHANGED vars => calls' = calls
  BY DEF vars, client
<1> QED  BY <1>1, <1>2, <1>3 DEF Next

\* Every request stands for a call or a fault, every row for a request.
LEMMA BoundedStep ==
    ASSUME TypeOK, Bounded, [Next]_vars
    PROVE  Bounded'
<1>0. /\ Len(posts) \in Nat /\ Len(incoming) \in Nat /\ faults \in Nat
      /\ posts \in Seq(Ids) /\ incoming \in Seq(Requests)
      /\ DOMAIN calls = Clients
  BY ServiceAssumption DEF TypeOK
<1>a. Cardinality(Issued) \in Nat /\ IsFiniteSet(Issued)
  <2>1. Issued \in SUBSET Ids
    BY DEF Issued
  <2> QED  BY <2>1, IdsFinite, FS_Subset, FS_CardinalityType
<1>1. PICK p \in Nat, n \in Nat, f \in Nat, k \in Nat :
        /\ p = Len(posts) /\ n = Len(incoming) /\ f = faults /\ k = Cardinality(Issued)
        /\ p + n <= k + f
  BY <1>0, <1>a DEF Bounded
<1>2. ASSUME NEW c \in Clients, NEW op \in Operations, NEW tok \in Ids \cup {None},
             Call(c, op, tok)
      PROVE  Bounded'
  <2>1. calls[c] \in Nat /\ MaxCalls[c] \in Nat /\ calls[c] < MaxCalls[c]
    BY <1>2, ServiceAssumption DEF TypeOK, Call
  <2>2. calls' = [calls EXCEPT ![c] = @ + 1] /\ calls[c] + 1 \in 1..MaxCalls[c]
    BY <1>2, <2>1 DEF Call
  <2>3. PICK id \in Ids : id = <<c, calls[c] + 1>>
    BY <2>2, IdFacts
  <2>4. Issued' = Issued \cup {id}
    <3>1. ASSUME NEW x \in Ids
          PROVE  x[2] <= calls'[x[1]] <=> x[2] <= calls[x[1]] \/ x = id
      <4>1. x[1] \in Clients /\ x[2] \in Nat /\ x = <<x[1], x[2]>> /\ calls[x[1]] \in Nat
        <5>1. x[1] \in Clients /\ x[2] \in 1..MaxCalls[x[1]] /\ x = <<x[1], x[2]>>
          BY IdFacts
        <5> QED  BY <5>1 DEF TypeOK
      <4>2. CASE x[1] # c
        BY <1>0, <2>2, <2>3, <4>1, <4>2
      <4>3. CASE x[1] = c
        <5>1. calls'[c] = calls[c] + 1
          BY <1>0, <2>2
        <5>2. x = id <=> x[2] = calls[c] + 1
          BY <2>3, <4>1, <4>3
        <5> QED  BY <2>1, <4>1, <4>3, <5>1, <5>2
      <4> QED  BY <4>2, <4>3
    <3> QED  BY <3>1 DEF Issued
  <2>5. id \notin Issued
    BY <2>1, <2>3 DEF Issued
  <2>6. Cardinality(Issued') = k + 1
    BY <1>a, <1>1, <2>4, <2>5, FS_AddElement
  <2>7. Len(incoming') \in {n, n + 1} /\ posts' = posts /\ faults' = faults
    <3>1. PICK req : /\ req \in Requests
                     /\ incoming' = IF subscribed THEN Append(incoming, req) ELSE incoming
      <4>1. [id |-> <<c, calls[c] + 1>>, op |-> op, token |-> tok] \in Requests
        BY <2>3 DEF Requests
      <4> QED  BY <1>2, <4>1 DEF Call
    <3>2. Len(Append(incoming, req)) = Len(incoming) + 1
      BY <1>0, <3>1, AppendElements
    <3> QED  BY <1>1, <1>2, <3>1, <3>2 DEF Call, database
  <2>8. Len(posts') = p /\ faults' = f
    BY <1>1, <2>7
  <2> QED  BY <1>1, <2>6, <2>7, <2>8 DEF Bounded
<1>3. ASSUME calls' = calls,
             NEW p1 \in Nat, p1 = Len(posts'), NEW n1 \in Nat, n1 = Len(incoming'),
             NEW f1 \in Nat, f1 = faults', p1 + n1 - f1 <= p + n - f
      PROVE  Bounded'
  <2>1. Cardinality(Issued') = k
    BY <1>1, <1>3 DEF Issued
  <2>2. p1 + n1 <= k + f1
    <3>1. p + n <= k + f /\ p1 + n1 - f1 <= p + n - f
      BY <1>1, <1>3
    <3> QED  BY <3>1
  <2> QED  BY <1>3, <2>1, <2>2 DEF Bounded
<1>4. ASSUME NEW c \in Clients,
             Expect(c) \/ OnMessage(c) \/ Return(c) \/ Timeout(c) \/ ClientLinkLost(c)
      PROVE  Bounded'
  <2>1. calls' = calls /\ posts' = posts
    BY <1>4 DEF Expect, OnMessage, Return, Timeout, ClientLinkLost, End, client, database
  <2>2. CASE ClientLinkLost(c)
    <3>1. faults' = f + 1
      BY <1>1, <2>2 DEF ClientLinkLost, Fault
    <3>2. Len(incoming') \in {n, n + 1}
      <4>1. incoming' = incoming \/ incoming' = Append(incoming, request[c])
        BY <2>2 DEF ClientLinkLost
      <4>2. Len(Append(incoming, request[c])) = Len(incoming) + 1
        BY <1>0
      <4> QED  BY <1>1, <4>1, <4>2
    <3>3. PICK n1 \in Nat : n1 = Len(incoming') /\ n1 \in {n, n + 1}
      BY <3>2
    <3>4. p + n1 - (f + 1) <= p + n - f /\ f + 1 \in Nat
      BY <3>3
    <3>5. p = Len(posts')
      BY <1>1, <2>1
    <3> QED  BY <1>3, <2>1, <3>1, <3>3, <3>4, <3>5
  <2>3. CASE ~ClientLinkLost(c)
    <3>1. incoming' = incoming
      BY <1>4, <2>3 DEF Expect, OnMessage, Return, Timeout, End
    <3>2. faults' \in {f, f + 1}
      BY <1>1, <1>4, <2>3 DEF Expect, OnMessage, Return, Timeout, End, Fault
    <3> QED  BY <1>1, <1>3, <2>1, <3>1, <3>2
  <2> QED  BY <2>2, <2>3
<1>5. CASE TakeRequest
  <2>1. calls' = calls
    BY <1>5 DEF TakeRequest, client
  <2>2. incoming # <<>> /\ incoming' = Tail(incoming)
    BY <1>5 DEF TakeRequest
  <2>3. Len(incoming') = n - 1 /\ n >= 1
    <3>1. Len(Tail(incoming)) = Len(incoming) - 1 /\ Len(incoming) # 0
      BY <1>0, <2>2, TailElements
    <3> QED  BY <1>1, <2>2, <3>1
  <2>4. Len(posts') \in {p, p + 1}
    <3>1. posts' = posts \/ \E e : posts' = Append(posts, e)
      BY <1>5 DEF TakeRequest, HandleRegister, HandlePost, HandleCount, database
    <3>2. \A e : Len(Append(posts, e)) = Len(posts) + 1
      BY <1>0
    <3> QED  BY <1>1, <3>1, <3>2
  <2>5. faults' \in {f, f + 1}
    <3>1. faults' = faults \/ faults' = faults + 1
      BY <1>5 DEF TakeRequest, Fault
    <3> QED  BY <1>1, <3>1
  <2>6. PICK p1 \in Nat, f1 \in Nat :
          p1 = Len(posts') /\ f1 = faults' /\ p1 \in {p, p + 1} /\ f1 \in {f, f + 1}
    BY <2>4, <2>5
  <2>7. p1 + (n - 1) - f1 <= p + n - f /\ n - 1 \in Nat
    BY <2>3, <2>6
  <2> QED  BY <1>3, <2>1, <2>3, <2>6, <2>7
<1>6. CASE Publish \/ Send \/ LinkLost \/ Crash \/ Restart
  <2>1. calls' = calls /\ posts' = posts
    BY <1>6 DEF Publish, Send, LinkLost, Crash, Restart, client, database
  <2>2. incoming' = incoming \/ incoming' = <<>>
    BY <1>6 DEF Publish, Send, LinkLost, Crash, Restart
  <2>3. faults' \in {f, f + 1}
    BY <1>1, <1>6 DEF Publish, Send, LinkLost, Crash, Restart, Fault
  <2>4. Len(incoming') \in {n, 0}
    <3>1. Len(<<>>) = 0
      OBVIOUS
    <3> QED  BY <1>1, <2>2, <3>1
  <2>5. PICK n1 \in Nat, f1 \in Nat :
          n1 = Len(incoming') /\ f1 = faults' /\ n1 \in {n, 0} /\ f1 \in {f, f + 1}
    BY <2>3, <2>4
  <2>6. p + n1 - f1 <= p + n - f
    BY <2>5
  <2>7. p = Len(posts')
    BY <1>1, <2>1
  <2> QED  BY <1>3, <2>1, <2>5, <2>6, <2>7
<1>7. CASE UNCHANGED vars
  <2>1. calls' = calls /\ posts' = posts /\ incoming' = incoming /\ faults' = faults
    BY <1>7 DEF vars, client, database
  <2> QED  BY <1>1, <1>3, <2>1
<1>8. ASSUME NEW c \in Clients, ClientStep(c) PROVE Bounded'
  <2>1. cached[c] \in Ids \cup {None}
    BY DEF TypeOK
  <2>2. CASE Register(c) \/ Post(c) \/ CountPosts(c)
    BY <1>2, <2>1, <2>2 DEF Register, Post, CountPosts, Operations
  <2> QED  BY <1>4, <1>8, <2>2 DEF ClientStep
<1> QED  BY <1>5, <1>6, <1>7, <1>8 DEF Next

\* TypeOK, with what it rests on, holds at first and is kept by every step.
LEMMA TypeInvariant ==
    /\ Init => TypeOK /\ Pending /\ Bounded
    /\ TypeOK /\ Pending /\ Bounded /\ [Next]_vars => TypeOK' /\ Pending' /\ Bounded'
<1>1. ASSUME Init PROVE TypeOK /\ Pending /\ Bounded
  <2>1. TypeOK
    <3>1. Subscribe \in Packets
      BY PacketFacts
    <3>2. channel \in Seq(Packets) /\ Len(channel) = 1 /\ ChannelCap >= 1
      BY <1>1, <3>1, ServiceAssumption DEF Init
    <3>3. /\ incoming \in Seq(Requests) /\ handler \in Seq(Packets) /\ posts \in Seq(Ids)
          /\ inbox \in [Clients -> Seq(Messages)] /\ seen \in [Clients -> Seq(Rows)]
      <4>1. /\ incoming = <<>> /\ handler = <<>> /\ posts = <<>>
            /\ inbox = [c \in Clients |-> <<>>] /\ seen = [c \in Clients |-> <<>>]
        BY <1>1 DEF Init
      <4> QED  BY <4>1
    <3>4. /\ calls \in [Clients -> Nat] /\ \A c \in Clients : calls[c] <= MaxCalls[c]
      BY <1>1, ServiceAssumption DEF Init
    <3>5. Len(channel) <= ChannelCap
      BY <3>2, ServiceAssumption
    <3>6. /\ request \in [Clients -> Requests \cup {None}]
          /\ phase \in [Clients -> {"idle", "published", "waiting"}]
          /\ slot \in [Clients -> Bodies \cup {None}]
          /\ cached \in [Clients -> Ids \cup {None}]
          /\ outcome \in [Ids -> Bodies \cup {TimedOut, None}]
      BY <1>1 DEF Init
    <3>7. up \in BOOLEAN /\ subscribed \in BOOLEAN /\ cut \in BOOLEAN
      BY <1>1 DEF Init
    <3>8. /\ listening \subseteq Clients /\ token \in Ids \cup {None}
          /\ faults \in 0..MaxFaults
      BY <1>1, ServiceAssumption DEF Init
    <3> QED  BY <3>2, <3>3, <3>4, <3>5, <3>6, <3>7, <3>8 DEF TypeOK
  <2>2. Pending
    BY <1>1 DEF Init, Pending
  <2>3. Bounded
    <3>1. Len(posts) = 0 /\ Len(incoming) = 0 /\ faults = 0
      BY <1>1 DEF Init
    <3>2. Cardinality(Issued) \in Nat
      <4>1. Issued \in SUBSET Ids
        BY DEF Issued
      <4> QED  BY <4>1, IdsFinite, FS_Subset, FS_CardinalityType
    <3> QED  BY <3>1, <3>2 DEF Bounded
  <2> QED  BY <2>1, <2>2, <2>3
<1>2. ASSUME TypeOK, Pending, Bounded, [Next]_vars PROVE TypeOK'
  <2>1. ASSUME NEW c \in Clients, ClientStep(c) PROVE TypeOK'
    <3>1. cached[c] \in Ids \cup {None}
      BY <1>2 DEF TypeOK
    <3>2. CASE Register(c) \/ Post(c) \/ CountPosts(c)
      BY <1>2, <3>1, <3>2, CallType DEF Register, Post, CountPosts, Operations
    <3> QED  BY <1>2, <2>1, <3>2, ClientType DEF ClientStep
  <2>2. CASE TakeRequest \/ Publish \/ Send \/ LinkLost \/ Crash \/ Restart
    BY <1>2, <2>2, ServiceType
  <2>3. CASE UNCHANGED vars
    BY <1>2, <2>3 DEF vars, TypeOK, client, arrivals, database
  <2> QED  BY <1>2, <2>1, <2>2, <2>3 DEF Next
<1> QED  BY <1>1, <1>2, PendingStep, BoundedStep

\* Every variable holds values of its kind: the channel holds what it is made for,
\* and no call, repeated request or crash makes more rows than there can be ids.
THEOREM BoardTypeCorrect == Spec => []TypeOK
BY TypeInvariant, PTL DEF Spec

-----------------------------------------------------------------------------
(* AnsweredPostIsStored and CountsOwnPosts.  What a response says is true  *)
(* when it is made, and it stays true: rows are only added, and calls of a *)
(* client that were begun before the one it answers have returned.         *)

\* What the rows and the outcomes of earlier calls say of an answer to a call.
Holds(ps, oc, id, body) ==
    /\ body \in [row : Rows] => body.row \in DOMAIN ps /\ ps[body.row] = id
    /\ body \in [total : {0} \cup Rows] =>
         \A m \in 1..(id[2] - 1) :
           oc[<<id[1], m>>] \in [row : Rows] => oc[<<id[1], m>>].row <= body.total

True(ids, ps, oc, e) ==
    e.type = "response" => e.id \in ids /\ Holds(ps, oc, e.id, e.body)

AllTrue(ids, ps, oc, s) == \A i \in DOMAIN s : True(ids, ps, oc, s[i])

\* Responses under way answer calls that were begun, and truly ...
MessagesTrue ==
    /\ \A i \in DOMAIN incoming : incoming[i].id \in Issued
    /\ AllTrue(Issued, posts, outcome, handler)
    /\ AllTrue(Issued, posts, outcome, channel)
    /\ \A c \in Clients : AllTrue(Issued, posts, outcome, inbox[c])

\* ... the one that woke a caller answers its call ...
SlotsTrue ==
    \A c \in Clients :
      slot[c] # None => phase[c] = "waiting" /\ Holds(posts, outcome, Id(c), slot[c])

\* ... and so do the outcomes.
OutcomesTrue ==
    \A id \in Ids :
      outcome[id] # None => id \in Issued /\ Holds(posts, outcome, id, outcome[id])

AnswersExact == MessagesTrue /\ SlotsTrue /\ OutcomesTrue

\* What a step leaves of the rows, of the calls begun and of earlier outcomes.
Grows ==
    /\ Issued \subseteq Issued'
    /\ \A r \in DOMAIN posts : r \in DOMAIN posts' /\ posts'[r] = posts[r]
    /\ \A c \in Clients : \A m \in 1..(calls[c] - 1) : outcome'[<<c, m>>] = outcome[<<c, m>>]

\* Rows stay, and only the last call of a client can get an outcome.
LEMMA GrowsStep ==
    ASSUME TypeOK, Pending, [Next]_vars
    PROVE  Grows
<1>0. DOMAIN calls = Clients /\ posts \in Seq(Ids) /\ DOMAIN outcome = Ids
  BY DEF TypeOK
<1>1. Issued \subseteq Issued'
  <2>1. ASSUME NEW id \in Ids, id[2] <= calls[id[1]] PROVE id[2] <= calls'[id[1]]
    <3>1. id[1] \in Clients /\ id[2] \in Nat /\ calls[id[1]] \in Nat
      <4>1. id[1] \in Clients /\ id[2] \in 1..MaxCalls[id[1]]
        BY IdFacts
      <4> QED  BY <4>1 DEF TypeOK
    <3>2. ASSUME NEW c \in Clients, calls' = [calls EXCEPT ![c] = @ + 1]
          PROVE  id[2] <= calls'[id[1]]
      <4>1. CASE id[1] = c
        <5>1. calls'[c] = calls[c] + 1
          BY <1>0, <3>2
        <5> QED  BY <2>1, <3>1, <4>1, <5>1
      <4>2. CASE id[1] # c
        BY <1>0, <2>1, <3>1, <3>2, <4>2
      <4> QED  BY <4>1, <4>2
    <3>3. CASE \E c \in Clients : \E op \in Operations : \E tok \in Ids \cup {None} :
                 Call(c, op, tok)
      BY <3>2, <3>3 DEF Call
    <3> QED  BY <2>1, <3>3, CallsStep
  <2> QED  BY <2>1 DEF Issued
<1>2. \A r \in DOMAIN posts : r \in DOMAIN posts' /\ posts'[r] = posts[r]
  <2>1. posts' = posts \/ \E id \in Ids : posts' = Append(posts, id)
    <3>1. CASE TakeRequest
      <4>1. incoming # <<>> /\ incoming \in Seq(Requests)
        BY <3>1 DEF TakeRequest, TypeOK
      <4>2. PICK req \in Requests : req = Head(incoming)
        BY <4>1, TailElements
      <4>3. req.id \in Ids
        BY DEF Requests
      <4>4. posts' = posts \/ posts' = Append(posts, req.id)
        BY <3>1, <4>2 DEF TakeRequest, HandleRegister, HandlePost, HandleCount, database
      <4> QED  BY <4>3, <4>4
    <3>2. CASE Publish \/ Send \/ LinkLost \/ Crash \/ Restart
      BY <3>2 DEF Publish, Send, LinkLost, Crash, Restart, database
    <3>3. CASE \E c \in Clients : ClientStep(c)
      BY <3>3 DEF ClientStep, Register, Post, CountPosts, Call, Expect, OnMessage, Return,
                  Timeout, ClientLinkLost, End, database
    <3>4. CASE UNCHANGED vars
      BY <3>4 DEF vars, database
    <3> QED  BY <3>1, <3>2, <3>3, <3>4 DEF Next
  <2>2. ASSUME NEW id \in Ids, posts' = Append(posts, id), NEW r \in DOMAIN posts
        PROVE  r \in DOMAIN posts' /\ posts'[r] = posts[r]
    BY <1>0, <2>2, AppendElements
  <2> QED  BY <2>1, <2>2
<1>3. ASSUME NEW c \in Clients, NEW m \in 1..(calls[c] - 1)
      PROVE  outcome'[<<c, m>>] = outcome[<<c, m>>]
  <2>1. calls[c] \in Nat /\ m \in Nat /\ m < calls[c]
    <3>1. calls[c] \in Nat
      BY DEF TypeOK
    <3> QED  BY <3>1
  <2>2. CASE outcome' = outcome
    BY <2>2
  <2>3. ASSUME NEW d \in Clients, NEW result, End(d, result)
        PROVE  outcome'[<<c, m>>] = outcome[<<c, m>>]
    <3>1. <<c, m>> # Id(d)
      BY <2>1 DEF Id
    <3>2. <<c, m>> \in Ids
      <4>1. calls[c] <= MaxCalls[c] /\ MaxCalls[c] \in Nat
        BY ServiceAssumption DEF TypeOK
      <4>2. m \in 1..MaxCalls[c]
        BY <2>1, <4>1
      <4> QED  BY <4>2, IdFacts
    <3>3. outcome' = [outcome EXCEPT ![Id(d)] = result]
      BY <2>3 DEF End
    <3> QED  BY <1>0, <3>1, <3>2, <3>3
  <2>4. CASE \E d \in Clients : ClientStep(d)
    <3>1. outcome' = outcome \/ \E d \in Clients : \E result : End(d, result)
      BY <2>4 DEF ClientStep, Register, Post, CountPosts, Call, Expect, OnMessage, Return,
                  Timeout, ClientLinkLost, client
    <3> QED  BY <2>2, <2>3, <3>1
  <2>5. CASE TakeRequest \/ Publish \/ Send \/ LinkLost \/ Crash \/ Restart
    BY <2>2, <2>5 DEF TakeRequest, Publish, Send, LinkLost, Crash, Restart, client
  <2>6. CASE UNCHANGED vars
    BY <2>2, <2>6 DEF vars, client
  <2> QED  BY <2>4, <2>5, <2>6 DEF Next
<1> QED  BY <1>1, <1>2, <1>3 DEF Grows

\* A true answer to a call that was begun stays true.
LEMMA HoldsStays ==
    ASSUME TypeOK, Grows, NEW id \in Issued, NEW body, Holds(posts, outcome, id, body)
    PROVE  Holds(posts', outcome', id, body)
<1>1. body \in [row : Rows] => body.row \in DOMAIN posts' /\ posts'[body.row] = id
  BY DEF Holds, Grows
<1>2. ASSUME body \in [total : {0} \cup Rows], NEW m \in 1..(id[2] - 1),
             outcome'[<<id[1], m>>] \in [row : Rows]
      PROVE  outcome'[<<id[1], m>>].row <= body.total
  <2>1. id \in Ids /\ id[2] <= calls[id[1]]
    BY DEF Issued
  <2>2. id[1] \in Clients /\ id[2] \in Nat
    BY <2>1, IdFacts
  <2>3. m \in 1..(calls[id[1]] - 1)
    <3>1. calls[id[1]] \in Nat
      BY <2>2 DEF TypeOK
    <3> QED  BY <2>1, <2>2, <3>1
  <2>4. outcome'[<<id[1], m>>] = outcome[<<id[1], m>>]
    BY <2>2, <2>3 DEF Grows
  <2> QED  BY <1>2, <2>4 DEF Holds
<1> QED  BY <1>1, <1>2 DEF Holds

\* So do the messages of a sequence.
LEMMA AllStays ==
    ASSUME TypeOK, Grows, NEW s, AllTrue(Issued, posts, outcome, s)
    PROVE  AllTrue(Issued', posts', outcome', s)
<1> SUFFICES ASSUME NEW i \in DOMAIN s, s[i].type = "response"
             PROVE  s[i].id \in Issued' /\ Holds(posts', outcome', s[i].id, s[i].body)
  BY DEF AllTrue, True
<1>1. s[i].id \in Issued /\ Holds(posts, outcome, s[i].id, s[i].body)
  BY DEF AllTrue, True
<1> QED  BY <1>1, HoldsStays DEF Grows

\* The messages that are left when the head is taken, or when one was appended.
LEMMA AllParts ==
    ASSUME NEW S, NEW s \in Seq(S), NEW ids, NEW ps, NEW oc, AllTrue(ids, ps, oc, s)
    PROVE  /\ s # <<>> => AllTrue(ids, ps, oc, Tail(s)) /\ True(ids, ps, oc, Head(s))
           /\ \A e \in S : True(ids, ps, oc, e) => AllTrue(ids, ps, oc, Append(s, e))
<1>1. ASSUME s # <<>> PROVE AllTrue(ids, ps, oc, Tail(s)) /\ True(ids, ps, oc, Head(s))
  <2>1. /\ Head(s) = s[1] /\ 1 \in DOMAIN s
        /\ \A i \in DOMAIN Tail(s) : i + 1 \in DOMAIN s /\ Tail(s)[i] = s[i + 1]
    BY <1>1, TailElements
  <2> QED  BY <2>1 DEF AllTrue
<1>2. ASSUME NEW e \in S, True(ids, ps, oc, e) PROVE AllTrue(ids, ps, oc, Append(s, e))
  <2>1. \A i \in DOMAIN Append(s, e) :
          \/ i \in DOMAIN s /\ Append(s, e)[i] = s[i]
          \/ i = Len(s) + 1 /\ Append(s, e)[i] = e
    BY AppendElements
  <2> QED  BY <1>2, <2>1 DEF AllTrue
<1> QED  BY <1>1, <1>2

\* What a handler answers is true.
LEMMA HandlersTrue ==
    ASSUME TypeOK, Bounded, AnswersExact, NEW req \in Requests, req.id \in Issued,
           incoming # <<>>, outcome' = outcome, calls' = calls,
           HandleRegister(req) \/ HandlePost(req) \/ HandleCount(req)
    PROVE  AllTrue(Issued', posts', outcome', handler')
<1>0. posts \in Seq(Ids) /\ req.id \in Ids /\ Issued' = Issued
  BY DEF TypeOK, Requests, Issued
<1>a. PICK n \in Nat : n = Len(posts)
  BY <1>0
<1>1. ASSUME NEW body, Holds(posts', outcome', req.id, body)
      PROVE  True(Issued', posts', outcome', Response(req.id, body))
  BY <1>0, <1>1 DEF True, Response
<1>2. \A row : True(Issued', posts', outcome', NewPost(row))
  BY DEF True, NewPost
<1>3. True(Issued', posts', outcome', Event)
  BY DEF True, Event
<1>4. CASE HandleRegister(req)
  <2>1. Holds(posts', outcome', req.id, [token |-> req.id])
    <3>1. /\ [token |-> req.id] \notin [row : Rows]
          /\ [token |-> req.id] \notin [total : {0} \cup Rows]
      OBVIOUS
    <3> QED  BY <3>1 DEF Holds
  <2>2. handler' = <<Response(req.id, [token |-> req.id])>>
    BY <1>4 DEF HandleRegister
  <2> QED  BY <1>1, <2>1, <2>2 DEF AllTrue
<1>5. CASE HandleCount(req)
  <2>1. Holds(posts', outcome', req.id, [total |-> n])
    <3>1. [total |-> n] \notin [row : Rows]
      OBVIOUS
    <3>2. ASSUME NEW m \in 1..(req.id[2] - 1), outcome[<<req.id[1], m>>] \in [row : Rows]
          PROVE  outcome[<<req.id[1], m>>].row <= n
      <4>1. PICK c \in Clients, k \in Nat :
              c = req.id[1] /\ k = req.id[2] /\ k \in 1..MaxCalls[c] /\ MaxCalls[c] \in Nat
        BY <1>0, IdFacts, ServiceAssumption
      <4>2. m \in 1..MaxCalls[c]
        BY <3>2, <4>1
      <4>3. <<c, m>> \in Ids
        BY <4>2, IdFacts
      <4>4. outcome[<<c, m>>] # None /\ outcome[<<c, m>>] \in [row : Rows]
        <5>1. None \notin [row : Rows]
          BY NoneAssumption DEF Bodies
        <5> QED  BY <3>2, <4>1, <5>1
      <4>5. outcome[<<c, m>>].row \in DOMAIN posts
        BY <4>3, <4>4 DEF AnswersExact, OutcomesTrue, Holds
      <4> QED  BY <1>0, <1>a, <4>1, <4>5
    <3> QED  BY <3>1, <3>2 DEF Holds
  <2>2. handler' = <<Response(req.id, [total |-> n])>>
    BY <1>5, <1>a DEF HandleCount
  <2> QED  BY <1>1, <2>1, <2>2 DEF AllTrue
<1>6. CASE HandlePost(req)
  <2>1. CASE /\ posts' = Append(posts, req.id)
             /\ handler' = <<Response(req.id, [row |-> n + 1]), NewPost(n + 1), Event>>
    <3>1. n + 1 \in DOMAIN posts' /\ posts'[n + 1] = req.id
      BY <1>0, <1>a, <2>1, AppendElements
    <3>2. Holds(posts', outcome', req.id, [row |-> n + 1])
      <4>1. [row |-> n + 1] \notin [total : {0} \cup Rows]
        OBVIOUS
      <4> QED  BY <3>1, <4>1 DEF Holds
    <3>3. PICK p, q, r : /\ handler' = <<p, q, r>>
                         /\ True(Issued', posts', outcome', p)
                         /\ True(Issued', posts', outcome', q)
                         /\ True(Issued', posts', outcome', r)
      BY <1>1, <1>2, <1>3, <2>1, <3>2
    <3> QED  BY <3>3 DEF AllTrue
  <2>2. CASE handler' = <<Response(req.id, [error |-> "invalid token"])>>
    <3>1. Holds(posts', outcome', req.id, [error |-> "invalid token"])
      <4>1. /\ [error |-> "invalid token"] \notin [row : Rows]
            /\ [error |-> "invalid token"] \notin [total : {0} \cup Rows]
        OBVIOUS
      <4> QED  BY <4>1 DEF Holds
    <3>2. PICK p : handler' = <<p>> /\ True(Issued', posts', outcome', p)
      BY <1>1, <2>2, <3>1
    <3> QED  BY <3>2 DEF AllTrue
  <2> QED  BY <1>6, <1>a, <2>1, <2>2 DEF HandlePost
<1> QED  BY <1>4, <1>5, <1>6


\* Requests under way belong to calls that were begun.
LEMMA IncomingStep ==
    ASSUME TypeOK, Pending, MessagesTrue, Grows, [Next]_vars
    PROVE  \A i \in DOMAIN incoming' : incoming'[i].id \in Issued'
<1>0. incoming \in Seq(Requests) /\ \A i \in DOMAIN incoming : incoming[i].id \in Issued'
  BY DEF TypeOK, MessagesTrue, Grows
<1>1. CASE incoming' = incoming
  BY <1>0, <1>1
<1>2. CASE incoming # <<>> /\ incoming' = Tail(incoming)
  BY <1>0, <1>2, TailElements
<1>3. CASE incoming' = <<>>
  BY <1>3
<1>4. ASSUME NEW req \in Requests, req.id \in Issued', incoming' = Append(incoming, req)
      PROVE  \A i \in DOMAIN incoming' : incoming'[i].id \in Issued'
  BY <1>0, <1>4, AppendElements
<1>5. ASSUME NEW c \in Clients, NEW op \in Operations, NEW tok \in Ids \cup {None},
             Call(c, op, tok)
      PROVE  \A i \in DOMAIN incoming' : incoming'[i].id \in Issued'
  <2>1. calls[c] \in Nat /\ MaxCalls[c] \in Nat /\ calls[c] < MaxCalls[c]
    BY <1>5, ServiceAssumption DEF TypeOK, Call
  <2>2. calls'[c] = calls[c] + 1 /\ calls[c] + 1 \in 1..MaxCalls[c]
    BY <1>5, <2>1 DEF TypeOK, Call
  <2>3. PICK id \in Ids : id = <<c, calls[c] + 1>>
    BY <2>2, IdFacts
  <2>4. id \in Issued'
    BY <2>1, <2>2, <2>3 DEF Issued
  <2>5. PICK req \in Requests : /\ req = [id |-> id, op |-> op, token |-> tok]
                                /\ req.id \in Issued'
    <3>1. [id |-> id, op |-> op, token |-> tok] \in Requests
      BY DEF Requests
    <3> QED  BY <2>4, <3>1
  <2>6. incoming' = incoming \/ incoming' = Append(incoming, req)
    BY <1>5, <2>3, <2>5 DEF Call
  <2> QED  BY <1>1, <1>4, <2>5, <2>6
<1>6. ASSUME NEW c \in Clients, ClientLinkLost(c)
      PROVE  \A i \in DOMAIN incoming' : incoming'[i].id \in Issued'
  <2>1. CASE incoming' = incoming
    BY <1>1, <2>1
  <2>2. CASE phase[c] # "idle" /\ incoming' = Append(incoming, request[c])
    <3>1. request[c] \in Requests /\ request[c].id = Id(c) /\ calls[c] \in 1..MaxCalls[c]
      BY <2>2 DEF Pending
    <3>2. Id(c) \in Issued
      <4>1. calls[c] \in Nat
        BY DEF TypeOK
      <4> QED  BY <3>1, <4>1, IdFacts DEF Issued, Id
    <3> QED  BY <1>4, <2>2, <3>1, <3>2 DEF Grows
  <2> QED  BY <1>6, <2>1, <2>2 DEF ClientLinkLost
<1>7. CASE \E c \in Clients : ClientStep(c)
  <2>1. PICK c \in Clients : ClientStep(c)
    BY <1>7
  <2>2. cached[c] \in Ids \cup {None}
    BY DEF TypeOK
  <2>3. CASE Register(c) \/ Post(c) \/ CountPosts(c)
    BY <1>5, <2>2, <2>3 DEF Register, Post, CountPosts, Operations
  <2>4. CASE Expect(c) \/ OnMessage(c) \/ Return(c) \/ Timeout(c)
    BY <1>1, <2>4 DEF Expect, OnMessage, Return, Timeout, End
  <2> QED  BY <1>6, <2>1, <2>3, <2>4 DEF ClientStep
<1>8. CASE TakeRequest \/ Publish \/ Send \/ LinkLost \/ Crash \/ Restart
  BY <1>1, <1>2, <1>3, <1>8 DEF TakeRequest, Publish, Send, LinkLost, Crash, Restart
<1>9. CASE UNCHANGED vars
  BY <1>1, <1>9 DEF vars
<1> QED  BY <1>7, <1>8, <1>9 DEF Next

\* What the service has still to send is true.
LEMMA HandlerStep ==
    ASSUME TypeOK, Bounded, AnswersExact, Grows, [Next]_vars
    PROVE  AllTrue(Issued', posts', outcome', handler')
<1>0. /\ handler \in Seq(Packets) /\ AllTrue(Issued, posts, outcome, handler)
      /\ AllTrue(Issued', posts', outcome', handler)
  BY AllStays DEF TypeOK, AnswersExact, MessagesTrue
<1>1. CASE handler' = handler
  BY <1>0, <1>1
<1>2. CASE handler # <<>> /\ handler' = Tail(handler)
  BY <1>0, <1>2, AllParts
<1>3. CASE handler' = <<>>
  BY <1>3 DEF AllTrue
<1>4. CASE TakeRequest
  <2>1. incoming # <<>> /\ incoming \in Seq(Requests) /\ outcome' = outcome /\ calls' = calls
    BY <1>4 DEF TakeRequest, TypeOK, client
  <2>2. PICK req \in Requests : req = Head(incoming) /\ req.id \in Issued
    <3>1. Head(incoming) \in Requests /\ Head(incoming) = incoming[1] /\ 1 \in DOMAIN incoming
      BY <2>1, TailElements
    <3> QED  BY <3>1 DEF AnswersExact, MessagesTrue
  <2>3. CASE HandleRegister(req) \/ HandlePost(req) \/ HandleCount(req)
    BY <2>1, <2>2, <2>3, HandlersTrue
  <2> QED  BY <1>1, <1>4, <2>2, <2>3 DEF TakeRequest
<1>5. CASE \E c \in Clients : ClientStep(c)
  BY <1>1, <1>5 DEF ClientStep, Register, Post, CountPosts, Call, Expect, OnMessage, Return,
                    Timeout, ClientLinkLost, End
<1>6. CASE Publish \/ Send \/ LinkLost \/ Crash \/ Restart
  BY <1>1, <1>2, <1>3, <1>6 DEF Publish, Send, LinkLost, Crash, Restart
<1>7. CASE UNCHANGED vars
  BY <1>1, <1>7 DEF vars
<1> QED  BY <1>4, <1>5, <1>6, <1>7 DEF Next

\* What waits for poll() is true.
LEMMA ChannelStep ==
    ASSUME TypeOK, MessagesTrue, Grows, [Next]_vars
    PROVE  AllTrue(Issued', posts', outcome', channel')
<1>0. /\ handler \in Seq(Packets) /\ AllTrue(Issued', posts', outcome', handler)
      /\ channel \in Seq(Packets) /\ AllTrue(Issued', posts', outcome', channel)
  BY AllStays DEF TypeOK, MessagesTrue
<1>1. CASE channel' = channel
  BY <1>0, <1>1
<1>2. CASE channel # <<>> /\ channel' = Tail(channel)
  BY <1>0, <1>2, AllParts
<1>3. CASE channel' = <<>>
  BY <1>3 DEF AllTrue
<1>4. CASE channel' = <<Subscribe>>
  <2>1. True(Issued', posts', outcome', Subscribe)
    BY DEF True, Subscribe
  <2>2. PICK p : channel' = <<p>> /\ True(Issued', posts', outcome', p)
    BY <1>4, <2>1
  <2> QED  BY <2>2 DEF AllTrue
<1>5. CASE handler # <<>> /\ channel' = Append(channel, Head(handler))
  <2>1. Head(handler) \in Packets /\ True(Issued', posts', outcome', Head(handler))
    BY <1>0, <1>5, AllParts, TailElements
  <2> QED  BY <1>0, <1>5, <2>1, AllParts
<1>6. CASE \E c \in Clients : ClientStep(c)
  BY <1>1, <1>6 DEF ClientStep, Register, Post, CountPosts, Call, Expect, OnMessage, Return,
                    Timeout, ClientLinkLost, End
<1>7. CASE TakeRequest \/ Publish \/ Send \/ LinkLost \/ Crash \/ Restart
  BY <1>1, <1>2, <1>3, <1>4, <1>5, <1>7
     DEF TakeRequest, Publish, Send, LinkLost, Crash, Restart
<1>8. CASE UNCHANGED vars
  BY <1>1, <1>8 DEF vars
<1> QED  BY <1>6, <1>7, <1>8 DEF Next

\* What is on its way to a client is true.
LEMMA InboxStep ==
    ASSUME TypeOK, MessagesTrue, Grows, [Next]_vars, NEW c \in Clients
    PROVE  AllTrue(Issued', posts', outcome', inbox'[c])
<1>0. /\ inbox[c] \in Seq(Messages) /\ AllTrue(Issued', posts', outcome', inbox[c])
      /\ channel \in Seq(Packets) /\ AllTrue(Issued', posts', outcome', channel)
      /\ DOMAIN inbox = Clients
  BY AllStays DEF TypeOK, MessagesTrue
<1>1. CASE inbox'[c] = inbox[c]
  BY <1>0, <1>1
<1>2. CASE inbox[c] # <<>> /\ inbox'[c] = Tail(inbox[c])
  BY <1>0, <1>2, AllParts
<1>3. CASE inbox'[c] = <<>>
  BY <1>3 DEF AllTrue
<1>4. CASE Send
  <2>1. channel # <<>>
    BY <1>4 DEF Send
  <2>2. PICK packet \in Packets :
          packet = Head(channel) /\ True(Issued', posts', outcome', packet)
    BY <1>0, <2>1, AllParts, TailElements
  <2>3. inbox'[c] = IF Hears(c, packet) THEN Append(inbox[c], packet) ELSE inbox[c]
    BY <1>4, <2>2 DEF Send
  <2>4. ASSUME Hears(c, packet) PROVE packet \in Messages
    BY <2>4, PacketKinds DEF Hears
  <2>5. CASE Hears(c, packet)
    BY <1>0, <2>2, <2>3, <2>4, <2>5, AllParts
  <2> QED  BY <1>1, <2>3, <2>5
<1>5. ASSUME NEW d \in Clients, ClientStep(d)
      PROVE  AllTrue(Issued', posts', outcome', inbox'[c])
  <2>1. CASE inbox' = inbox
    BY <1>1, <2>1
  <2>2. CASE OnMessage(d)
    <3>1. inbox[d] # <<>> /\ inbox' = [inbox EXCEPT ![d] = Tail(@)]
      BY <2>2 DEF OnMessage
    <3> QED  BY <1>0, <1>1, <1>2, <3>1
  <2>3. CASE ClientLinkLost(d)
    <3>1. inbox' = [inbox EXCEPT ![d] = <<>>]
      BY <2>3 DEF ClientLinkLost
    <3> QED  BY <1>0, <1>1, <1>3, <3>1
  <2>4. CASE \/ Register(d) \/ Post(d) \/ CountPosts(d)
             \/ Expect(d) \/ Return(d) \/ Timeout(d)
    BY <2>1, <2>4 DEF Register, Post, CountPosts, Call, Expect, Return, Timeout, End, arrivals
  <2> QED  BY <1>5, <2>2, <2>3, <2>4 DEF ClientStep
<1>6. CASE TakeRequest \/ Publish \/ LinkLost \/ Crash \/ Restart
  BY <1>1, <1>6 DEF TakeRequest, Publish, LinkLost, Crash, Restart, arrivals
<1>7. CASE UNCHANGED vars
  BY <1>1, <1>7 DEF vars, arrivals
<1> QED  BY <1>4, <1>5, <1>6, <1>7 DEF Next

\* The answer that woke a caller is to its call.
LEMMA SlotsStep ==
    ASSUME TypeOK, Pending, AnswersExact, Grows, [Next]_vars
    PROVE  SlotsTrue'
<1> SUFFICES ASSUME NEW c \in Clients, slot'[c] # None
             PROVE  phase'[c] = "waiting" /\ Holds(posts', outcome', Id(c)', slot'[c])
  BY DEF SlotsTrue
<1>0. DOMAIN slot = Clients /\ DOMAIN phase = Clients /\ DOMAIN calls = Clients
  BY DEF TypeOK
<1>1. ASSUME phase[c] = "waiting" PROVE Id(c) \in Issued
  <2>1. calls[c] \in 1..MaxCalls[c] /\ calls[c] \in Nat
    BY <1>1 DEF Pending, TypeOK
  <2> QED  BY <2>1, IdFacts DEF Issued, Id
<1>2. CASE phase'[c] = phase[c] /\ slot'[c] = slot[c] /\ calls'[c] = calls[c]
  <2>1. phase[c] = "waiting" /\ Holds(posts, outcome, Id(c), slot[c])
    BY <1>2 DEF AnswersExact, SlotsTrue
  <2>2. Id(c)' = Id(c)
    BY <1>2 DEF Id
  <2> QED  BY <1>1, <1>2, <2>1, <2>2, HoldsStays
<1>3. ASSUME slot'[c] = slot[c], phase[c] # "waiting" PROVE FALSE
  BY <1>3 DEF AnswersExact, SlotsTrue
<1>4. ASSUME NEW d \in Clients, ClientStep(d)
      PROVE  phase'[c] = "waiting" /\ Holds(posts', outcome', Id(c)', slot'[c])
  <2>1. cached[d] \in Ids \cup {None}
    BY DEF TypeOK
  <2>2. CASE d # c
    <3>1. phase'[c] = phase[c] /\ slot'[c] = slot[c] /\ calls'[c] = calls[c]
      BY <1>0, <1>4, <2>2
         DEF ClientStep, Register, Post, CountPosts, Call, Expect, OnMessage, Return,
             Timeout, ClientLinkLost, End, client
    <3> QED  BY <1>2, <3>1
  <2>3. CASE d = c /\ (Register(d) \/ Post(d) \/ CountPosts(d) \/ Expect(d))
    BY <1>3, <2>3 DEF Register, Post, CountPosts, Call, Expect
  <2>4. CASE d = c /\ ClientLinkLost(d)
    BY <1>2, <2>4 DEF ClientLinkLost, client
  <2>5. CASE d = c /\ (Return(d) \/ Timeout(d))
    BY <1>0, <2>5 DEF Return, Timeout, End
  <2>6. CASE d = c /\ OnMessage(d)
    <3>1. inbox[c] # <<>> /\ inbox[c] \in Seq(Messages)
      BY <2>6 DEF OnMessage, TypeOK
    <3>2. PICK msg \in Messages :
            msg = Head(inbox[c]) /\ True(Issued, posts, outcome, msg)
      BY <3>1, AllParts, TailElements DEF AnswersExact, MessagesTrue
    <3>3. phase' = phase /\ calls' = calls
      BY <2>6 DEF OnMessage
    <3>4. CASE slot' = slot
      BY <1>2, <3>3, <3>4
    <3>5. CASE msg.type = "response" /\ Expects(c, msg.id) /\ slot' = [slot EXCEPT ![c] = msg.body]
      <4>1. phase[c] = "waiting" /\ msg.id = Id(c) /\ slot'[c] = msg.body
        BY <1>0, <3>5 DEF Expects
      <4>2. Holds(posts, outcome, Id(c), msg.body)
        BY <3>2, <3>5, <4>1 DEF True
      <4>3. Id(c)' = Id(c)
        BY <3>3 DEF Id
      <4> QED  BY <1>1, <3>3, <4>1, <4>2, <4>3, HoldsStays
    <3> QED  BY <2>6, <3>2, <3>4, <3>5 DEF OnMessage
  <2> QED  BY <1>4, <2>2, <2>3, <2>4, <2>5, <2>6 DEF ClientStep
<1>5. CASE TakeRequest \/ Publish \/ Send \/ LinkLost \/ Crash \/ Restart
  BY <1>2, <1>5 DEF TakeRequest, Publish, Send, LinkLost, Crash, Restart, client
<1>6. CASE UNCHANGED vars
  BY <1>2, <1>6 DEF vars, client
<1> QED  BY <1>4, <1>5, <1>6 DEF Next

\* What a call returned is true of it.
LEMMA OutcomesStep ==
    ASSUME TypeOK, Pending, AnswersExact, Grows, [Next]_vars
    PROVE  OutcomesTrue'
<1> SUFFICES ASSUME NEW id \in Ids, outcome'[id] # None
             PROVE  id \in Issued' /\ Holds(posts', outcome', id, outcome'[id])
  BY DEF OutcomesTrue
<1>0. DOMAIN outcome = Ids
  BY DEF TypeOK
<1>1. CASE outcome'[id] = outcome[id]
  <2>1. id \in Issued /\ Holds(posts, outcome, id, outcome[id])
    BY <1>1 DEF AnswersExact, OutcomesTrue
  <2> QED  BY <1>1, <2>1, HoldsStays DEF Grows
<1>2. ASSUME NEW c \in Clients, NEW result, End(c, result), Holds(posts, outcome, Id(c), result)
      PROVE  id \in Issued' /\ Holds(posts', outcome', id, outcome'[id])
  <2>1. outcome' = [outcome EXCEPT ![Id(c)] = result]
    BY <1>2 DEF End
  <2>2. CASE id # Id(c)
    BY <1>0, <1>1, <2>1, <2>2
  <2>3. CASE id = Id(c)
    <3>1. id \in Issued
      <4>1. calls[c] \in 1..MaxCalls[c] /\ calls[c] \in Nat
        BY <1>2 DEF Pending, TypeOK, End
      <4> QED  BY <2>3, <4>1, IdFacts DEF Issued, Id
    <3>2. outcome'[id] = result
      BY <1>0, <2>1, <2>3
    <3> QED  BY <1>2, <2>3, <3>1, <3>2, HoldsStays DEF Grows
  <2> QED  BY <2>2, <2>3
<1>3. ASSUME NEW c \in Clients, Return(c)
      PROVE  id \in Issued' /\ Holds(posts', outcome', id, outcome'[id])
  <2>1. End(c, slot[c]) /\ slot[c] # None
    BY <1>3 DEF Return
  <2>2. Holds(posts, outcome, Id(c), slot[c])
    BY <2>1 DEF AnswersExact, SlotsTrue
  <2> QED  BY <1>2, <2>1, <2>2
<1>4. ASSUME NEW c \in Clients, Timeout(c)
      PROVE  id \in Issued' /\ Holds(posts', outcome', id, outcome'[id])
  <2>1. End(c, TimedOut)
    BY <1>4 DEF Timeout
  <2>2. TimedOut \notin [row : Rows] /\ TimedOut \notin [total : {0} \cup Rows]
    BY DEF TimedOut
  <2>3. Holds(posts, outcome, Id(c), TimedOut)
    BY <2>2 DEF Holds
  <2> QED  BY <1>2, <2>1, <2>3
<1>5. ASSUME NEW c \in Clients, ClientStep(c), ~Return(c), ~Timeout(c)
      PROVE  outcome' = outcome
  BY <1>5 DEF ClientStep, Register, Post, CountPosts, Call, Expect, OnMessage,
              ClientLinkLost, client
<1>6. TakeRequest \/ Publish \/ Send \/ LinkLost \/ Crash \/ Restart => outcome' = outcome
  BY DEF TakeRequest, Publish, Send, LinkLost, Crash, Restart, client
<1>7. UNCHANGED vars => outcome' = outcome
  BY DEF vars, client
<1> QED  BY <1>1, <1>3, <1>4, <1>5, <1>6, <1>7 DEF Next

\* The invariant, whole.
Answers == TypeOK /\ Pending /\ Bounded /\ AnswersExact

\* It holds at first and is kept by every step.
LEMMA AnswersInvariant ==
    /\ Init => Answers
    /\ Answers /\ [Next]_vars => Answers'
<1>1. ASSUME Init PROVE AnswersExact
  <2>1. AllTrue(Issued, posts, outcome, channel)
    <3>1. PICK p : channel = <<p>> /\ True(Issued, posts, outcome, p)
      BY <1>1 DEF Init, True, Subscribe
    <3> QED  BY <3>1 DEF AllTrue
  <2>2. /\ \A i \in DOMAIN incoming : incoming[i].id \in Issued
        /\ AllTrue(Issued, posts, outcome, handler)
        /\ \A c \in Clients : AllTrue(Issued, posts, outcome, inbox[c])
    BY <1>1 DEF Init, AllTrue
  <2>3. SlotsTrue /\ OutcomesTrue
    BY <1>1 DEF Init, SlotsTrue, OutcomesTrue
  <2> QED  BY <2>1, <2>2, <2>3 DEF AnswersExact, MessagesTrue
<1>2. ASSUME Answers, [Next]_vars PROVE AnswersExact'
  <2>1. TypeOK /\ Pending /\ Bounded /\ AnswersExact /\ MessagesTrue /\ Grows
    BY <1>2, GrowsStep DEF Answers, AnswersExact
  <2>2. MessagesTrue'
    <3>1. \A c \in Clients : AllTrue(Issued', posts', outcome', inbox'[c])
      BY <1>2, <2>1, InboxStep
    <3> QED
      BY <1>2, <2>1, <3>1, IncomingStep, HandlerStep, ChannelStep DEF MessagesTrue
  <2>3. SlotsTrue' /\ OutcomesTrue'
    BY <1>2, <2>1, SlotsStep, OutcomesStep
  <2> QED  BY <2>2, <2>3 DEF AnswersExact
<1> QED  BY <1>1, <1>2, TypeInvariant DEF Answers

\* A post that was answered with a row id is that row: no caller takes the answer
\* to another call for its own, and no row is lost or changed.
THEOREM AnsweredPostsAreStored == Spec => []AnsweredPostIsStored
<1>1. Answers => AnsweredPostIsStored
  <2> SUFFICES ASSUME OutcomesTrue, NEW id \in Ids, outcome[id] \in [row : Rows]
               PROVE  outcome[id].row \in DOMAIN posts /\ posts[outcome[id].row] = id
    BY DEF Answers, AnswersExact, AnsweredPostIsStored
  <2>1. outcome[id] # None
    BY NoneAssumption DEF Bodies
  <2> QED  BY <2>1 DEF OutcomesTrue, Holds
<1> QED  BY <1>1, AnswersInvariant, PTL DEF Spec

\* A client that was told the id of its post counts at least that many posts later.
THEOREM OwnPostsAreCounted == Spec => []CountsOwnPosts
<1>1. Answers => CountsOwnPosts
  <2> SUFFICES ASSUME OutcomesTrue, NEW c \in Clients,
                      NEW m \in 1..MaxCalls[c], NEW n \in 1..MaxCalls[c], m < n,
                      outcome[<<c, m>>] \in [row : Rows],
                      outcome[<<c, n>>] \in [total : {0} \cup Rows]
               PROVE  outcome[<<c, m>>].row <= outcome[<<c, n>>].total
    BY DEF Answers, AnswersExact, CountsOwnPosts
  <2>1. <<c, n>> \in Ids /\ outcome[<<c, n>>] # None
    <3>1. outcome[<<c, n>>] \in Bodies
      BY DEF Bodies
    <3> QED  BY <3>1, IdFacts, NoneAssumption
  <2>2. m \in 1..(n - 1)
    OBVIOUS
  <2>3. Holds(posts, outcome, <<c, n>>, outcome[<<c, n>>])
    BY <2>1 DEF OutcomesTrue
  <2> QED  BY <2>2, <2>3 DEF Holds
<1> QED  BY <1>1, AnswersInvariant, PTL DEF Spec

-----------------------------------------------------------------------------
(* HeardInOrder and NoPostUnnoticed.  The notices of a handler are those   *)
(* of the newest row; they follow the ones in the channel, which follow    *)
(* the ones in each inbox, which follow what its client heard.             *)

Below(A, B) == \A a \in A : \A b \in B : a < b
Told(s) == {s[i] : i \in DOMAIN s}

\* What the service has still to send, with n rows in the table.
ServiceLine(n, ch, hd) ==
    /\ Ascending(ch) /\ Ascending(hd)
    /\ Below(Notices(ch), Notices(hd))
    /\ Notices(ch) \cup Notices(hd) \subseteq 1..n

\* What a client heard and has in its inbox, when rows due are still to be sent.
ClientLine(n, due, ib, sn) ==
    /\ Ascending(ib)
    /\ \A i, j \in DOMAIN sn : i < j => sn[i] < sn[j]
    /\ Below(Told(sn), Notices(ib)) /\ Below(Told(sn), due) /\ Below(Notices(ib), due)
    /\ Told(sn) \subseteq 1..n /\ Notices(ib) \subseteq 1..n /\ due \subseteq 1..n

Due == Notices(channel) \cup Notices(handler)

InLine ==
    /\ ServiceLine(Len(posts), channel, handler)
    /\ \A c \in Clients : ClientLine(Len(posts), Due, inbox[c], seen[c])

\* Only crashes and lost connections take notices away.
Covered ==
    /\ ~up => cut
    /\ ~cut => \A c \in listening :
                 Told(seen[c]) \cup Notices(inbox[c]) \cup Due = 1..Len(posts)

\* A new_post message of a sequence tells of its row.
LEMMA NoticesOf ==
    ASSUME NEW s, NEW i \in DOMAIN s, s[i].type = "new_post"
    PROVE  s[i].row \in Notices(s)
BY DEF Notices

\* A sequence of some kind is one of a wider kind.
LEMMA WiderSeq ==
    ASSUME NEW S, NEW T, S \subseteq T, NEW s \in Seq(S)
    PROVE  s \in Seq(T)
OBVIOUS

\* The notices that are left when the head is taken.
LEMMA TailNotices ==
    ASSUME NEW S, NEW s \in Seq(S), s # <<>>
    PROVE  /\ Head(s).type = "new_post" => Notices(s) = Notices(Tail(s)) \cup {Head(s).row}
           /\ Head(s).type # "new_post" => Notices(s) = Notices(Tail(s))
           /\ Ascending(s) => Ascending(Tail(s))
           /\ Ascending(s) /\ Head(s).type = "new_post"
                => Below({Head(s).row}, Notices(Tail(s)))
<1>1. /\ Head(s) = s[1] /\ 1 \in DOMAIN s
      /\ \A i \in DOMAIN Tail(s) : i \in Nat /\ i + 1 \in DOMAIN s /\ Tail(s)[i] = s[i + 1]
      /\ \A i \in DOMAIN s : i # 1 => i - 1 \in DOMAIN Tail(s)
  BY TailElements
<1>2. \A i \in DOMAIN s : i # 1 => i - 1 \in DOMAIN Tail(s) /\ Tail(s)[i - 1] = s[i]
  <2> SUFFICES ASSUME NEW i \in DOMAIN s, i # 1 PROVE i - 1 \in DOMAIN Tail(s) /\ Tail(s)[i - 1] = s[i]
    OBVIOUS
  <2>1. i \in Nat /\ (i - 1) + 1 = i
    OBVIOUS
  <2> QED  BY <1>1, <2>1
<1>3. \A x : x \in Notices(Tail(s)) => x \in Notices(s)
  <2> SUFFICES ASSUME NEW i \in DOMAIN Tail(s), Tail(s)[i].type = "new_post"
               PROVE  Tail(s)[i].row \in Notices(s)
    BY DEF Notices
  <2> QED  BY <1>1 DEF Notices
<1>4. \A x : x \in Notices(s) =>
        \/ x \in Notices(Tail(s))
        \/ x = Head(s).row /\ Head(s).type = "new_post"
  <2> SUFFICES ASSUME NEW i \in DOMAIN s, s[i].type = "new_post", i # 1
               PROVE  s[i].row \in Notices(Tail(s))
    BY <1>1 DEF Notices
  <2> QED  BY <1>2 DEF Notices
<1>5. Head(s).type = "new_post" => Head(s).row \in Notices(s)
  BY <1>1 DEF Notices
<1>6. ASSUME Ascending(s) PROVE Ascending(Tail(s))
  <2> SUFFICES ASSUME NEW i \in DOMAIN Tail(s), NEW j \in DOMAIN Tail(s), i < j,
                      Tail(s)[i].type = "new_post", Tail(s)[j].type = "new_post"
               PROVE  Tail(s)[i].row < Tail(s)[j].row
    BY DEF Ascending
  <2>1. i + 1 < j + 1
    BY <1>1
  <2> QED  BY <1>1, <1>6, <2>1 DEF Ascending
<1>7. ASSUME Ascending(s), Head(s).type = "new_post"
      PROVE  Below({Head(s).row}, Notices(Tail(s)))
  <2> SUFFICES ASSUME NEW i \in DOMAIN Tail(s), Tail(s)[i].type = "new_post"
               PROVE  Head(s).row < Tail(s)[i].row
    BY DEF Below, Notices
  <2>1. 1 < i + 1
    <3>1. i \in Nat /\ i >= 1
      OBVIOUS
    <3> QED  BY <3>1
  <2> QED  BY <1>1, <1>7, <2>1 DEF Ascending
<1> QED  BY <1>3, <1>4, <1>5, <1>6, <1>7

\* The notices of a sequence when something was appended.
LEMMA AppendNotices ==
    ASSUME NEW S, NEW s \in Seq(S), NEW e \in S
    PROVE  /\ e.type = "new_post" => (Notices(Append(s, e)) = Notices(s) \cup {e.row})
           /\ e.type # "new_post" => Notices(Append(s, e)) = Notices(s)
<1>1. /\ \A i \in DOMAIN Append(s, e) :
           \/ i \in DOMAIN s /\ Append(s, e)[i] = s[i]
           \/ i = Len(s) + 1 /\ Append(s, e)[i] = e
      /\ \A i \in DOMAIN s : i \in DOMAIN Append(s, e) /\ Append(s, e)[i] = s[i]
      /\ Len(s) + 1 \in DOMAIN Append(s, e) /\ Append(s, e)[Len(s) + 1] = e
  BY AppendElements
<1>2. \A x : x \in Notices(s) => x \in Notices(Append(s, e))
  <2> SUFFICES ASSUME NEW i \in DOMAIN s, s[i].type = "new_post"
               PROVE  s[i].row \in Notices(Append(s, e))
    BY DEF Notices
  <2> QED  BY <1>1 DEF Notices
<1>3. \A x : x \in Notices(Append(s, e)) =>
        x \in Notices(s) \/ (x = e.row /\ e.type = "new_post")
  <2> SUFFICES ASSUME NEW x, x \in Notices(Append(s, e))
               PROVE  x \in Notices(s) \/ (x = e.row /\ e.type = "new_post")
    OBVIOUS
  <2>1. PICK i \in DOMAIN Append(s, e) :
          Append(s, e)[i].type = "new_post" /\ x = Append(s, e)[i].row
    BY DEF Notices
  <2>2. CASE i \in DOMAIN s /\ Append(s, e)[i] = s[i]
    <3>1. s[i].type = "new_post" /\ x = s[i].row
      BY <2>1, <2>2
    <3>2. s[i].row \in Notices(s)
      BY <2>2, <3>1, NoticesOf
    <3> QED  BY <3>1, <3>2
  <2>3. CASE Append(s, e)[i] = e
    BY <2>1, <2>3
  <2> QED  BY <1>1, <2>2, <2>3
<1>4. e.type = "new_post" => e.row \in Notices(Append(s, e))
  BY <1>1 DEF Notices
<1> QED  BY <1>2, <1>3, <1>4

\* They stay in order when what was appended is of a newer row.
LEMMA AppendAscending ==
    ASSUME NEW S, NEW s \in Seq(S), NEW e \in S, Ascending(s),
           e.type = "new_post" => Below(Notices(s), {e.row})
    PROVE  Ascending(Append(s, e))
<1>1. \A i \in DOMAIN Append(s, e) :
        \/ i \in DOMAIN s /\ Append(s, e)[i] = s[i]
        \/ i = Len(s) + 1 /\ Append(s, e)[i] = e
  BY AppendElements
<1> SUFFICES ASSUME NEW i \in DOMAIN Append(s, e), NEW j \in DOMAIN Append(s, e), i < j,
                    Append(s, e)[i].type = "new_post", Append(s, e)[j].type = "new_post"
             PROVE  Append(s, e)[i].row < Append(s, e)[j].row
  BY DEF Ascending
<1>2. i \in DOMAIN s /\ Append(s, e)[i] = s[i]
  <2>1. i \in Nat /\ j \in Nat /\ j <= Len(s) + 1 /\ Len(s) \in Nat
    OBVIOUS
  <2>2. i # Len(s) + 1
    BY <2>1
  <2> QED  BY <1>1, <2>2
<1>3. CASE j \in DOMAIN s /\ Append(s, e)[j] = s[j]
  BY <1>2, <1>3 DEF Ascending
<1>4. CASE j = Len(s) + 1 /\ Append(s, e)[j] = e
  <2>1. s[i].row \in Notices(s)
    BY <1>2 DEF Notices
  <2>2. e.type = "new_post"
    BY <1>4
  <2>3. s[i].row < e.row
    BY <2>1, <2>2 DEF Below
  <2> QED  BY <1>2, <1>4, <2>3
<1> QED  BY <1>1, <1>3, <1>4

\* publish() hands the oldest message of the handler to the channel.
LEMMA LinePublished ==
    ASSUME NEW S, NEW ch \in Seq(S), NEW hd \in Seq(S), hd # <<>>, NEW n \in Nat,
           ServiceLine(n, ch, hd)
    PROVE  /\ ServiceLine(n, Append(ch, Head(hd)), Tail(hd))
           /\ Notices(Append(ch, Head(hd))) \cup Notices(Tail(hd)) = Notices(ch) \cup Notices(hd)
<1>1. PICK e \in S : e = Head(hd)
  BY TailElements
<1>2. CASE e.type = "new_post"
  <2>1. /\ Notices(hd) = Notices(Tail(hd)) \cup {e.row} /\ Ascending(Tail(hd))
        /\ Below({e.row}, Notices(Tail(hd)))
    BY <1>1, <1>2, TailNotices DEF ServiceLine
  <2>2. Below(Notices(ch), {e.row})
    BY <2>1 DEF ServiceLine, Below
  <2>3. Notices(Append(ch, e)) = Notices(ch) \cup {e.row} /\ Ascending(Append(ch, e))
    BY <1>2, <2>2, AppendNotices, AppendAscending DEF ServiceLine
  <2>4. Below(Notices(Append(ch, e)), Notices(Tail(hd)))
    BY <2>1, <2>3 DEF ServiceLine, Below
  <2> QED  BY <1>1, <2>1, <2>3, <2>4 DEF ServiceLine
<1>3. CASE e.type # "new_post"
  <2>1. Notices(hd) = Notices(Tail(hd)) /\ Ascending(Tail(hd))
    BY <1>1, <1>3, TailNotices DEF ServiceLine
  <2>2. Notices(Append(ch, e)) = Notices(ch) /\ Ascending(Append(ch, e))
    <3>1. Notices(Append(ch, e)) = Notices(ch)
      BY <1>3, AppendNotices
    <3>2. Ascending(ch)
      BY DEF ServiceLine
    <3>3. Ascending(Append(ch, e))
      BY <1>3, <3>2, AppendAscending
    <3> QED  BY <3>1, <3>3
  <2> QED  BY <1>1, <2>1, <2>2 DEF ServiceLine
<1> QED  BY <1>2, <1>3

\* poll() takes the oldest message of the channel.
LEMMA LineSent ==
    ASSUME NEW S, NEW ch \in Seq(S), ch # <<>>, NEW n \in Nat, ServiceLine(n, ch, <<>>)
    PROVE  /\ ServiceLine(n, Tail(ch), <<>>)
           /\ Notices(Tail(ch)) \subseteq Notices(ch)
           /\ Head(ch).type = "new_post" =>
                /\ Notices(ch) = Notices(Tail(ch)) \cup {Head(ch).row}
                /\ Below({Head(ch).row}, Notices(Tail(ch)))
           /\ Head(ch).type # "new_post" => Notices(ch) = Notices(Tail(ch))
<1>1. Ascending(ch)
  BY DEF ServiceLine
<1>2. /\ Head(ch).type = "new_post" =>
           Notices(ch) = Notices(Tail(ch)) \cup {Head(ch).row}
      /\ Head(ch).type # "new_post" => Notices(ch) = Notices(Tail(ch))
      /\ Ascending(Tail(ch))
      /\ Head(ch).type = "new_post" => Below({Head(ch).row}, Notices(Tail(ch)))
  BY <1>1, TailNotices
<1>3. Notices(Tail(ch)) \subseteq Notices(ch)
  BY <1>2
<1>4. Notices(<<>>) = {}
  BY DEF Notices
<1>5. ServiceLine(n, Tail(ch), <<>>)
  BY <1>2, <1>3, <1>4 DEF ServiceLine, Below
<1> QED  BY <1>2, <1>3, <1>5

\* A client is not disturbed when fewer rows are due, or the newest one is.
LEMMA LineRests ==
    ASSUME NEW n \in Nat, NEW due, NEW ib, NEW sn, ClientLine(n, due, ib, sn)
    PROVE  /\ \A due1 \in SUBSET due : ClientLine(n, due1, ib, sn) /\ ClientLine(n, due1, <<>>, sn)
           /\ ClientLine(n + 1, due \cup {n + 1}, ib, sn)
<1>1. ASSUME NEW due1 \in SUBSET due
      PROVE  ClientLine(n, due1, ib, sn) /\ ClientLine(n, due1, <<>>, sn)
  <2>1. Notices(<<>>) = {} /\ Ascending(<<>>)
    BY DEF Notices, Ascending
  <2> QED  BY <2>1 DEF ClientLine, Below
<1>2. ClientLine(n + 1, due \cup {n + 1}, ib, sn)
  <2>1. /\ \A x \in 1..n : x < n + 1 /\ x \in 1..(n + 1)
        /\ n + 1 \in 1..(n + 1)
    OBVIOUS
  <2>2. Below(Told(sn), due \cup {n + 1}) /\ Below(Notices(ib), due \cup {n + 1})
    BY <2>1 DEF ClientLine, Below
  <2> QED  BY <2>1, <2>2 DEF ClientLine
<1> QED  BY <1>1, <1>2

\* A message that was sent joins the inbox.
LEMMA LineArrived ==
    ASSUME NEW S, NEW n \in Nat, NEW due, NEW ib \in Seq(S), NEW sn, NEW e \in S,
           NEW due1 \in SUBSET due, ClientLine(n, due, ib, sn),
           e.type = "new_post" => e.row \in due /\ Below({e.row}, due1)
    PROVE  ClientLine(n, due1, Append(ib, e), sn)
<1>1. CASE e.type = "new_post"
  <2>1. Below(Notices(ib), {e.row})
    BY <1>1 DEF ClientLine, Below
  <2>2. Notices(Append(ib, e)) = Notices(ib) \cup {e.row} /\ Ascending(Append(ib, e))
    BY <1>1, <2>1, AppendNotices, AppendAscending DEF ClientLine
  <2>3. /\ Below(Told(sn), Notices(Append(ib, e))) /\ Below(Told(sn), due1)
        /\ Below(Notices(Append(ib, e)), due1)
    BY <1>1, <2>2 DEF ClientLine, Below
  <2> QED  BY <1>1, <2>2, <2>3 DEF ClientLine
<1>2. CASE e.type # "new_post"
  <2>1. Notices(Append(ib, e)) = Notices(ib) /\ Ascending(Append(ib, e))
    <3>1. Notices(Append(ib, e)) = Notices(ib)
      BY <1>2, AppendNotices
    <3>2. Ascending(ib)
      BY DEF ClientLine
    <3>3. Ascending(Append(ib, e))
      BY <1>2, <3>2, AppendAscending
    <3> QED  BY <3>1, <3>3
  <2>2. ClientLine(n, due1, ib, sn)
    BY LineRests
  <2> QED  BY <2>1, <2>2 DEF ClientLine
<1> QED  BY <1>1, <1>2

\* What a client was told when it hears of one row more.
LEMMA ToldAppend ==
    ASSUME NEW sn \in Seq(Nat), NEW r \in Nat
    PROVE  Told(Append(sn, r)) = Told(sn) \cup {r}
<1>1. /\ \A i \in DOMAIN Append(sn, r) :
           \/ i \in DOMAIN sn /\ Append(sn, r)[i] = sn[i]
           \/ i = Len(sn) + 1 /\ Append(sn, r)[i] = r
      /\ \A i \in DOMAIN sn : i \in DOMAIN Append(sn, r) /\ Append(sn, r)[i] = sn[i]
      /\ Len(sn) + 1 \in DOMAIN Append(sn, r) /\ Append(sn, r)[Len(sn) + 1] = r
  BY AppendElements
<1>2. \A x : x \in Told(Append(sn, r)) => x \in Told(sn) \/ x = r
  <2> SUFFICES ASSUME NEW i \in DOMAIN Append(sn, r)
               PROVE  Append(sn, r)[i] \in Told(sn) \/ Append(sn, r)[i] = r
    BY DEF Told
  <2> QED  BY <1>1 DEF Told
<1>3. \A x : x \in Told(sn) => x \in Told(Append(sn, r))
  <2> SUFFICES ASSUME NEW i \in DOMAIN sn PROVE sn[i] \in Told(Append(sn, r))
    BY DEF Told
  <2> QED  BY <1>1 DEF Told
<1>4. r \in Told(Append(sn, r))
  BY <1>1 DEF Told
<1> QED  BY <1>2, <1>3, <1>4

\* The callback takes a message from the inbox: one that is no notice ...
LEMMA LineAnswered ==
    ASSUME NEW S, NEW n, NEW due, NEW ib \in Seq(S), NEW sn, ib # <<>>,
           ClientLine(n, due, ib, sn), Head(ib).type # "new_post"
    PROVE  ClientLine(n, due, Tail(ib), sn)
<1>1. Ascending(Tail(ib)) /\ Notices(ib) = Notices(Tail(ib))
  BY TailNotices DEF ClientLine
<1> QED  BY <1>1 DEF ClientLine

\* ... or the notice of row r.
LEMMA LineTaken ==
    ASSUME NEW S, NEW n, NEW due, NEW ib \in Seq(S), NEW sn \in Seq(Nat), ib # <<>>,
           ClientLine(n, due, ib, sn), NEW r \in Nat,
           Head(ib).type = "new_post", Head(ib).row = r
    PROVE  ClientLine(n, due, Tail(ib), Append(sn, r))
<1>0. /\ Ascending(ib) /\ Ascending(Tail(ib))
      /\ Notices(ib) = Notices(Tail(ib)) \cup {r}
      /\ Below({r}, Notices(Tail(ib)))
  BY TailNotices DEF ClientLine
<1>1. /\ \A i \in DOMAIN Append(sn, r) :
           \/ i \in DOMAIN sn /\ Append(sn, r)[i] = sn[i]
           \/ i = Len(sn) + 1 /\ Append(sn, r)[i] = r
      /\ \A i \in DOMAIN sn : i \in DOMAIN Append(sn, r) /\ Append(sn, r)[i] = sn[i]
      /\ Len(sn) + 1 \in DOMAIN Append(sn, r) /\ Append(sn, r)[Len(sn) + 1] = r
  BY AppendElements
<1>2. Told(Append(sn, r)) = Told(sn) \cup {r}
  BY ToldAppend
<1>3. ASSUME NEW i \in DOMAIN Append(sn, r), NEW j \in DOMAIN Append(sn, r), i < j
      PROVE  Append(sn, r)[i] < Append(sn, r)[j]
  <2>1. i \in DOMAIN sn /\ Append(sn, r)[i] = sn[i]
    <3>1. i \in Nat /\ j \in Nat /\ j <= Len(sn) + 1 /\ Len(sn) \in Nat
      OBVIOUS
    <3>2. i # Len(sn) + 1
      BY <1>3, <3>1
    <3> QED  BY <1>1, <3>2
  <2>2. CASE j \in DOMAIN sn /\ Append(sn, r)[j] = sn[j]
    BY <1>3, <2>1, <2>2 DEF ClientLine
  <2>3. CASE Append(sn, r)[j] = r
    <3>1. sn[i] \in Told(sn) /\ r \in Notices(ib)
      BY <1>0, <2>1 DEF Told
    <3>2. sn[i] < r
      BY <3>1 DEF ClientLine, Below
    <3> QED  BY <2>1, <2>3, <3>2
  <2> QED  BY <1>1, <2>2, <2>3
<1>4. /\ Below(Told(Append(sn, r)), Notices(Tail(ib))) /\ Below(Told(Append(sn, r)), due)
      /\ Below(Notices(Tail(ib)), due)
  BY <1>2, <1>0 DEF ClientLine, Below
<1>5. Told(Append(sn, r)) \subseteq 1..n /\ Notices(Tail(ib)) \subseteq 1..n
  BY <1>2, <1>0 DEF ClientLine
<1>6. due \subseteq 1..n
  BY DEF ClientLine
<1> QED  BY <1>0, <1>3, <1>4, <1>5, <1>6 DEF ClientLine

\* The notices of what a handler publishes.
LEMMA HandlerNotices ==
    /\ \A p : p.type # "new_post" => Notices(<<p>>) = {} /\ Ascending(<<p>>)
    /\ \A p, q, r : p.type # "new_post" /\ q.type = "new_post" /\ r.type # "new_post" =>
         Notices(<<p, q, r>>) = {q.row} /\ Ascending(<<p, q, r>>)
    /\ Notices(<<>>) = {} /\ Ascending(<<>>)
<1>1. ASSUME NEW p, p.type # "new_post" PROVE Notices(<<p>>) = {} /\ Ascending(<<p>>)
  BY <1>1 DEF Notices, Ascending
<1>2. ASSUME NEW p, NEW q, NEW r, p.type # "new_post", q.type = "new_post", r.type # "new_post"
      PROVE  Notices(<<p, q, r>>) = {q.row} /\ Ascending(<<p, q, r>>)
  <2>1. PICK s : s = <<p, q, r>>
    OBVIOUS
  <2>2. DOMAIN s = {1, 2, 3} /\ s[1] = p /\ s[2] = q /\ s[3] = r
    BY <2>1
  <2>3. \A i \in DOMAIN s : s[i].type = "new_post" <=> i = 2
    BY <1>2, <2>2
  <2>4. Ascending(s)
    <3> SUFFICES ASSUME NEW i \in DOMAIN s, NEW j \in DOMAIN s, i < j, i = 2, j = 2 PROVE FALSE
      BY <2>3 DEF Ascending
    <3> QED  OBVIOUS
  <2>5. Notices(s) = {q.row}
    BY <2>2, <2>3 DEF Notices
  <2> QED  BY <2>1, <2>4, <2>5
<1>3. Notices(<<>>) = {} /\ Ascending(<<>>)
  BY DEF Notices, Ascending
<1> QED  BY <1>1, <1>2, <1>3

\* The steps that neither add a row nor take a message from what is under way.
LEMMA LineKept ==
    ASSUME InLine, Covered, posts' = posts, inbox' = inbox, seen' = seen,
           listening' = listening, cut' = cut, up' = up,
           ServiceLine(Len(posts), channel', handler'), Due' = Due
    PROVE  InLine' /\ Covered'
<1>1. InLine'
  BY DEF InLine
<1>2. Covered'
  BY DEF Covered
<1> QED  BY <1>1, <1>2

\* A post adds the newest row to what is due.
LEMMA LineHandled ==
    ASSUME TypeOK, InLine, Covered, TakeRequest
    PROVE  InLine' /\ Covered'
<1>0. /\ handler = <<>> /\ channel' = channel /\ inbox' = inbox /\ seen' = seen
      /\ listening' = listening /\ cut' = cut /\ up' = up
      /\ posts \in Seq(Ids) /\ incoming \in Seq(Requests) /\ incoming # <<>>
  BY DEF TakeRequest, arrivals, TypeOK
<1>1. PICK n \in Nat : n = Len(posts)
  BY <1>0
<1>2. ServiceLine(n, channel, <<>>) /\ Notices(<<>>) = {} /\ Due = Notices(channel)
  BY <1>0, <1>1, HandlerNotices DEF InLine, Due
<1>3. CASE posts' = posts /\ handler' = handler
  BY <1>0, <1>1, <1>2, <1>3, LineKept DEF Due
<1>4. ASSUME NEW id, NEW body, posts' = posts, handler' = <<Response(id, body)>>
      PROVE  InLine' /\ Covered'
  <2>1. Response(id, body).type # "new_post"
    BY DEF Response
  <2>2. Notices(handler') = {} /\ Ascending(handler')
    BY <1>4, <2>1, HandlerNotices
  <2>3. ServiceLine(Len(posts), channel', handler')
    BY <1>0, <1>1, <1>2, <2>2 DEF ServiceLine, Below
  <2>4. Due' = Due
    BY <1>0, <1>2, <2>2 DEF Due
  <2> QED  BY <1>0, <1>4, <2>3, <2>4, LineKept
<1>5. ASSUME NEW id \in Ids, posts' = Append(posts, id),
             handler' = <<Response(id, [row |-> n + 1]), NewPost(n + 1), Event>>
      PROVE  InLine' /\ Covered'
  <2>1. PICK m \in Nat : m = n + 1 /\ m = Len(posts')
    BY <1>0, <1>1, <1>5, AppendElements
  <2>2. Notices(handler') = {m} /\ Ascending(handler')
    <3>1. PICK p, q, r : /\ handler' = <<p, q, r>> /\ q.row = m
                         /\ p.type # "new_post" /\ q.type = "new_post" /\ r.type # "new_post"
      BY <1>5, <2>1 DEF Response, NewPost, Event
    <3> QED  BY <3>1, HandlerNotices
  <2>3. Due' = Due \cup {m}
    BY <1>0, <1>2, <2>2 DEF Due
  <2>4. \A x \in 1..n : x < m /\ x \in 1..m
    BY <2>1
  <2>5. m \in 1..m /\ 1..m = 1..n \cup {m}
    BY <2>1
  <2>6. Notices(channel) \subseteq 1..n /\ Ascending(channel)
    BY <1>2 DEF ServiceLine
  <2>7. ServiceLine(m, channel', handler')
    <3>1. Below(Notices(channel), Notices(handler'))
      BY <2>2, <2>4, <2>6 DEF Below
    <3> QED  BY <1>0, <2>2, <2>4, <2>5, <2>6, <3>1 DEF ServiceLine
  <2>8. \A c \in Clients : ClientLine(m, Due', inbox'[c], seen'[c])
    BY <1>0, <1>1, <2>1, <2>3, LineRests DEF InLine
  <2>9. InLine'
    BY <2>1, <2>7, <2>8 DEF InLine
  <2>10. Covered'
    <3> SUFFICES ASSUME ~cut, NEW c \in listening
                 PROVE  Told(seen[c]) \cup Notices(inbox[c]) \cup Due' = 1..m
      BY <1>0, <2>1 DEF Covered
    <3>1. Told(seen[c]) \cup Notices(inbox[c]) \cup Due = 1..n
      BY <1>1 DEF Covered
    <3> QED  BY <2>3, <2>5, <3>1
  <2> QED  BY <2>9, <2>10
<1>6. PICK req \in Requests : req = Head(incoming) /\ req.id \in Ids
  <2>1. Head(incoming) \in Requests
    BY <1>0, TailElements
  <2> QED  BY <2>1 DEF Requests
<1>7. CASE HandleRegister(req) \/ HandleCount(req)
  BY <1>4, <1>7 DEF HandleRegister, HandleCount, database
<1>8. CASE HandlePost(req)
  BY <1>1, <1>4, <1>5, <1>6, <1>8 DEF HandlePost
<1>9. CASE UNCHANGED <<handler, database>>
  BY <1>3, <1>9 DEF database
<1> QED  BY <1>6, <1>7, <1>8, <1>9 DEF TakeRequest

\* poll() sends the oldest message to those who hear it.
LEMMA LineToInbox ==
    ASSUME TypeOK, InLine, Covered, Send
    PROVE  InLine' /\ Covered'
<1>0. /\ handler = <<>> /\ handler' = handler /\ channel # <<>> /\ channel \in Seq(Packets)
      /\ channel' = Tail(channel) /\ posts' = posts /\ seen' = seen
      /\ listening' = listening /\ cut' = cut /\ up' = up /\ listening \subseteq Clients
  BY DEF Send, TypeOK, database
<1>1. PICK n \in Nat : n = Len(posts)
  BY DEF TypeOK
<1>2. PICK packet \in Packets : packet = Head(channel)
  BY <1>0, TailElements
<1>3. /\ ServiceLine(n, channel', handler')
      /\ Notices(channel') \subseteq Notices(channel)
      /\ packet.type = "new_post" =>
           /\ Notices(channel) = Notices(channel') \cup {packet.row}
           /\ Below({packet.row}, Notices(channel'))
      /\ packet.type # "new_post" => Notices(channel) = Notices(channel')
  <2>1. ServiceLine(n, channel, <<>>)
    BY <1>0, <1>1 DEF InLine
  <2> QED  BY <1>0, <1>1, <1>2, <2>1, LineSent
<1>4. Due = Notices(channel) /\ Due' = Notices(channel')
  BY <1>0, HandlerNotices DEF Due
<1>5. ASSUME NEW c \in Clients
      PROVE  /\ ClientLine(n, Due, inbox[c], seen[c]) /\ inbox[c] \in Seq(Messages)
             /\ inbox'[c] = IF Hears(c, packet) THEN Append(inbox[c], packet) ELSE inbox[c]
             /\ Hears(c, packet) => packet \in Messages
  <2>1. Hears(c, packet) => packet \in Messages
    BY PacketKinds DEF Hears
  <2> QED  BY <1>1, <1>2, <2>1 DEF InLine, TypeOK, Send
<1>6. ASSUME NEW c \in Clients PROVE ClientLine(n, Due', inbox'[c], seen'[c])
  <2>1. CASE Hears(c, packet)
    <3>1. inbox'[c] = Append(inbox[c], packet) /\ packet \in Messages
      BY <1>5, <2>1
    <3>2. Due' \in SUBSET Due /\ ClientLine(n, Due, inbox[c], seen[c])
      BY <1>3, <1>4, <1>5
    <3>3. packet.type = "new_post" => packet.row \in Due /\ Below({packet.row}, Due')
      BY <1>3, <1>4
    <3>4. ClientLine(n, Due', Append(inbox[c], packet), seen[c])
      BY <1>5, <3>1, <3>2, <3>3, LineArrived
    <3> QED  BY <1>0, <3>1, <3>4
  <2>2. CASE ~Hears(c, packet)
    BY <1>0, <1>3, <1>4, <1>5, <2>2, LineRests
  <2> QED  BY <2>1, <2>2
<1>7. InLine'
  BY <1>0, <1>1, <1>3, <1>6 DEF InLine
<1>8. Covered'
  <2> SUFFICES ASSUME ~cut, NEW c \in listening
               PROVE  Told(seen[c]) \cup Notices(inbox'[c]) \cup Due' = 1..n
    BY <1>0, <1>1 DEF Covered
  <2>1. Told(seen[c]) \cup Notices(inbox[c]) \cup Due = 1..n
    BY <1>1 DEF Covered
  <2>2. CASE packet.type = "new_post"
    <3>1. Hears(c, packet) /\ packet \in Messages /\ inbox[c] \in Seq(Messages)
      BY <1>0, <1>5, <2>2 DEF Hears
    <3>2. Notices(inbox'[c]) = Notices(inbox[c]) \cup {packet.row}
      <4>1. inbox'[c] = Append(inbox[c], packet)
        BY <1>0, <1>5, <3>1
      <4>2. PICK ib \in Seq(Messages) : ib = inbox[c]
        BY <3>1
      <4>3. Notices(Append(ib, packet)) = Notices(ib) \cup {packet.row}
        <5>1. packet \in Messages /\ packet.type = "new_post"
          BY <2>2, <3>1
        <5> QED  BY <5>1, AppendNotices
      <4> QED  BY <4>1, <4>2, <4>3
    <3> QED  BY <1>3, <1>4, <2>1, <2>2, <3>2
  <2>3. CASE packet.type # "new_post"
    <3>1. Notices(inbox'[c]) = Notices(inbox[c])
      <4>1. CASE inbox'[c] = inbox[c]
        BY <4>1
      <4>2. CASE inbox'[c] = Append(inbox[c], packet) /\ packet \in Messages
        <5>1. PICK ib \in Seq(Messages) : ib = inbox[c]
          BY <1>0, <1>5
        <5>2. Notices(Append(ib, packet)) = Notices(ib)
          BY <2>3, <4>2, AppendNotices
        <5> QED  BY <4>2, <5>1, <5>2
      <4> QED  BY <1>0, <1>5, <4>1, <4>2
    <3> QED  BY <1>3, <1>4, <2>1, <2>3, <3>1
  <2> QED  BY <2>2, <2>3
<1> QED  BY <1>7, <1>8

\* The paho thread hands a message to its callback.
LEMMA LineHeard ==
    ASSUME TypeOK, InLine, Covered, NEW d \in Clients, OnMessage(d)
    PROVE  InLine' /\ Covered'
<1>0. /\ inbox[d] # <<>> /\ inbox' = [inbox EXCEPT ![d] = Tail(@)]
      /\ inbox[d] \in Seq(Messages) /\ seen[d] \in Seq(Rows)
      /\ DOMAIN inbox = Clients /\ DOMAIN seen = Clients
      /\ channel' = channel /\ handler' = handler /\ posts' = posts
      /\ listening' = listening /\ cut' = cut /\ up' = up /\ listening \subseteq Clients
  BY DEF OnMessage, TypeOK, database
<1>1. PICK n \in Nat : n = Len(posts)
  BY DEF TypeOK
<1>2. PICK msg \in Messages : msg = Head(inbox[d])
  BY <1>0, TailElements
<1>3. Due' = Due
  BY <1>0 DEF Due
<1>4. ClientLine(n, Due, inbox[d], seen[d]) /\ seen[d] \in Seq(Nat)
  <2>1. Rows \subseteq Nat
    BY DEF Rows
  <2>2. seen[d] \in Seq(Nat)
    BY <1>0, <2>1, WiderSeq
  <2> QED  BY <1>1, <2>2 DEF InLine
<1>5. ASSUME ClientLine(n, Due, inbox'[d], seen'[d]),
             Told(seen'[d]) \cup Notices(inbox'[d]) = Told(seen[d]) \cup Notices(inbox[d]),
             \A c \in Clients \ {d} : inbox'[c] = inbox[c] /\ seen'[c] = seen[c]
      PROVE  InLine' /\ Covered'
  <2>1. InLine'
    <3>1. \A c \in Clients : ClientLine(Len(posts'), Due', inbox'[c], seen'[c])
      BY <1>0, <1>1, <1>3, <1>5 DEF InLine
    <3> QED  BY <1>0, <3>1 DEF InLine
  <2>2. Covered'
    <3> SUFFICES ASSUME ~cut, NEW c \in listening
                 PROVE  Told(seen'[c]) \cup Notices(inbox'[c]) \cup Due = 1..n
      BY <1>0, <1>1, <1>3 DEF Covered
    <3>1. Told(seen[c]) \cup Notices(inbox[c]) \cup Due = 1..n
      BY <1>1 DEF Covered
    <3>2. Told(seen'[c]) \cup Notices(inbox'[c]) = Told(seen[c]) \cup Notices(inbox[c])
      BY <1>0, <1>5
    <3> QED  BY <3>1, <3>2
  <2> QED  BY <2>1, <2>2
<1>6. inbox'[d] = Tail(inbox[d]) /\ \A c \in Clients \ {d} : inbox'[c] = inbox[c]
  BY <1>0
<1>7. CASE msg.type = "response" /\ seen' = seen
  <2>1. Notices(inbox'[d]) = Notices(inbox[d]) /\ ClientLine(n, Due, inbox'[d], seen[d])
    BY <1>0, <1>2, <1>4, <1>6, <1>7, TailNotices, LineAnswered
  <2> QED  BY <1>5, <1>6, <1>7, <2>1
<1>8. CASE msg.type = "new_post" /\ seen' = [seen EXCEPT ![d] = Append(@, msg.row)]
  <2>1. msg.row \in Nat
    <3>1. msg.row \in Rows
      BY <1>8, MessageKinds
    <3> QED  BY <3>1 DEF Rows
  <2>2. seen'[d] = Append(seen[d], msg.row) /\ \A c \in Clients \ {d} : seen'[c] = seen[c]
    BY <1>0, <1>8
  <2>3. /\ ClientLine(n, Due, inbox'[d], seen'[d])
        /\ Told(seen'[d]) = Told(seen[d]) \cup {msg.row}
    <3>1. /\ ClientLine(n, Due, Tail(inbox[d]), Append(seen[d], msg.row))
          /\ Told(Append(seen[d], msg.row)) = Told(seen[d]) \cup {msg.row}
      <4>1. PICK ib \in Seq(Messages), sn \in Seq(Nat), r \in Nat :
              /\ ib = inbox[d] /\ sn = seen[d] /\ r = msg.row
              /\ ib # <<>> /\ Head(ib).type = "new_post" /\ Head(ib).row = r
              /\ ClientLine(n, Due, ib, sn)
        BY <1>0, <1>2, <1>4, <1>8, <2>1
      <4>2. /\ ClientLine(n, Due, Tail(ib), Append(sn, r))
            /\ Told(Append(sn, r)) = Told(sn) \cup {r}
        BY <4>1, LineTaken, ToldAppend
      <4> QED  BY <4>1, <4>2
    <3> QED  BY <1>6, <2>2, <3>1
  <2>4. Notices(inbox[d]) = Notices(inbox'[d]) \cup {msg.row}
    BY <1>0, <1>2, <1>6, <1>8, TailNotices
  <2> QED  BY <1>5, <1>6, <2>2, <2>3, <2>4
<1> QED  BY <1>2, <1>7, <1>8 DEF OnMessage

\* Crashes and lost connections only take messages away.
LEMMA LineBroken ==
    ASSUME TypeOK, InLine, Covered,
           (\E c \in Clients : ClientLinkLost(c)) \/ LinkLost \/ Crash \/ Restart
    PROVE  InLine' /\ Covered'
<1>0. /\ posts' = posts /\ seen' = seen /\ channel \in Seq(Packets)
      /\ DOMAIN inbox = Clients /\ listening \subseteq Clients
  BY DEF ClientLinkLost, LinkLost, Crash, Restart, database, arrivals, TypeOK
<1>1. PICK n \in Nat : n = Len(posts)
  BY DEF TypeOK
<1>2. ServiceLine(n, channel, handler) /\ \A c \in Clients : ClientLine(n, Due, inbox[c], seen[c])
  BY <1>1 DEF InLine
<1>3. ASSUME ServiceLine(n, channel', handler'), Due' \in SUBSET Due,
             \A c \in Clients : inbox'[c] = inbox[c] \/ inbox'[c] = <<>>
      PROVE  InLine'
  <2>1. ASSUME NEW c \in Clients PROVE ClientLine(n, Due', inbox'[c], seen'[c])
    BY <1>0, <1>2, <1>3, LineRests
  <2> QED  BY <1>0, <1>1, <1>3, <2>1 DEF InLine
<1>4. ASSUME NEW c \in Clients, ClientLinkLost(c) PROVE InLine' /\ Covered'
  <2>1. /\ channel' = channel /\ handler' = handler /\ inbox' = [inbox EXCEPT ![c] = <<>>]
        /\ up' = up /\ cut' = cut /\ listening' = listening \ {c}
    BY <1>4 DEF ClientLinkLost
  <2>2. Due' = Due
    BY <2>1 DEF Due
  <2>3. InLine'
    BY <1>0, <1>2, <1>3, <2>1, <2>2
  <2>4. Covered'
    <3>1. ~up' => cut'
      BY <2>1 DEF Covered
    <3>2. ASSUME ~cut', NEW d \in listening'
          PROVE  Told(seen'[d]) \cup Notices(inbox'[d]) \cup Due' = 1..Len(posts')
      <4>1. d \in listening /\ ~cut /\ inbox'[d] = inbox[d]
        BY <1>0, <2>1, <3>2
      <4> QED  BY <1>0, <2>2, <4>1 DEF Covered
    <3> QED  BY <3>1, <3>2 DEF Covered
  <2> QED  BY <2>3, <2>4
<1>5. CASE LinkLost
  <2>1. handler' = handler /\ inbox' = inbox /\ cut'
    BY <1>5 DEF LinkLost, arrivals
  <2>2. ServiceLine(n, channel', handler') /\ Due' \in SUBSET Due
    <3>1. CASE channel' = channel
      BY <1>2, <2>1, <3>1 DEF Due
    <3>2. CASE handler = <<>> /\ channel # <<>> /\ channel' = Tail(channel)
      <4>1. ServiceLine(n, Tail(channel), <<>>) /\ Notices(Tail(channel)) \subseteq Notices(channel)
        BY <1>0, <1>2, <3>2, LineSent
      <4> QED  BY <2>1, <3>2, <4>1 DEF Due
    <3> QED  BY <1>5, <3>1, <3>2 DEF LinkLost
  <2> QED  BY <1>3, <2>1, <2>2 DEF Covered
<1>6. CASE Crash
  <2>1. handler' = <<>> /\ channel' = <<>> /\ inbox' = inbox /\ cut'
    BY <1>6 DEF Crash, arrivals
  <2>2. ServiceLine(n, channel', handler') /\ Due' \in SUBSET Due
    BY <2>1, HandlerNotices DEF ServiceLine, Below, Due
  <2> QED  BY <1>3, <2>1, <2>2 DEF Covered
<1>7. CASE Restart
  <2>1. handler' = handler /\ channel' = <<Subscribe>> /\ inbox' = inbox /\ cut
    BY <1>7 DEF Restart, arrivals, Covered
  <2>2. cut'
    BY <1>7, <2>1 DEF Restart
  <2>3. Notices(channel') = {} /\ Ascending(channel')
    <3>1. Subscribe.type # "new_post"
      BY DEF Subscribe
    <3> QED  BY <2>1, <3>1, HandlerNotices
  <2>4. ServiceLine(n, channel', handler') /\ Due' \in SUBSET Due
    BY <1>2, <2>1, <2>3 DEF ServiceLine, Below, Due
  <2> QED  BY <1>3, <2>1, <2>2, <2>4 DEF Covered
<1> QED  BY <1>4, <1>5, <1>6, <1>7

\* What is in line stays in line, and nothing falls out but by a crash or a lost
\* connection.
LEMMA LineInvariant ==
    /\ Init => InLine /\ Covered
    /\ TypeOK /\ InLine /\ Covered /\ [Next]_vars => InLine' /\ Covered'
<1>1. ASSUME Init PROVE InLine /\ Covered
  <2>1. /\ handler = <<>> /\ posts = <<>> /\ up = TRUE
        /\ \A c \in Clients : inbox[c] = <<>> /\ seen[c] = <<>>
        /\ listening = Clients
    BY <1>1 DEF Init
  <2>2. Notices(channel) = {} /\ Ascending(channel)
    <3>1. Subscribe.type # "new_post" /\ channel = <<Subscribe>>
      BY <1>1 DEF Init, Subscribe
    <3> QED  BY <3>1, HandlerNotices
  <2>3. Notices(<<>>) = {} /\ Ascending(<<>>) /\ Told(<<>>) = {}
    BY HandlerNotices DEF Told
  <2>4. Due = {}
    BY <2>1, <2>2, <2>3 DEF Due
  <2>5. ServiceLine(0, channel, handler)
    BY <2>1, <2>2, <2>3 DEF ServiceLine, Below
  <2>6. ClientLine(0, {}, <<>>, <<>>)
    BY <2>3 DEF ClientLine, Below
  <2>7. Len(posts) = 0
    BY <2>1
  <2>8. InLine
    BY <2>1, <2>4, <2>5, <2>6, <2>7 DEF InLine
  <2>9. Covered
    <3>1. 1..Len(posts) = {}
      BY <2>7
    <3> QED  BY <2>1, <2>3, <2>4, <3>1 DEF Covered
  <2> QED  BY <2>8, <2>9
<1>2. ASSUME TypeOK, InLine, Covered, [Next]_vars PROVE InLine' /\ Covered'
  <2>0. ServiceLine(Len(posts), channel, handler) /\ Len(posts) \in Nat
        /\ channel \in Seq(Packets) /\ handler \in Seq(Packets)
    BY <1>2 DEF InLine, TypeOK
  <2>1. CASE TakeRequest
    BY <1>2, <2>1, LineHandled
  <2>2. CASE Publish
    <3>1. /\ handler # <<>> /\ channel' = Append(channel, Head(handler))
          /\ handler' = Tail(handler) /\ posts' = posts /\ inbox' = inbox /\ seen' = seen
          /\ listening' = listening /\ cut' = cut /\ up' = up
      BY <2>2 DEF Publish, database, arrivals
    <3>2. ServiceLine(Len(posts), channel', handler') /\ Due' = Due
      BY <2>0, <3>1, LinePublished DEF Due
    <3> QED  BY <1>2, <3>1, <3>2, LineKept
  <2>3. CASE Send
    BY <1>2, <2>3, LineToInbox
  <2>4. ASSUME channel' = channel, handler' = handler, posts' = posts,
               inbox' = inbox, seen' = seen, listening' = listening, cut' = cut, up' = up
        PROVE  InLine' /\ Covered'
    BY <1>2, <2>0, <2>4, LineKept DEF Due
  <2>5. ASSUME NEW c \in Clients, ClientStep(c) PROVE InLine' /\ Covered'
    <3>1. CASE OnMessage(c)
      BY <1>2, <3>1, LineHeard
    <3>2. CASE ClientLinkLost(c)
      BY <1>2, <3>2, LineBroken
    <3>3. CASE \/ Register(c) \/ Post(c) \/ CountPosts(c)
               \/ Expect(c) \/ Return(c) \/ Timeout(c)
      BY <2>4, <3>3 DEF Register, Post, CountPosts, Call, Expect, Return, Timeout, End,
                        arrivals, database
    <3> QED  BY <2>5, <3>1, <3>2, <3>3 DEF ClientStep
  <2>6. CASE LinkLost \/ Crash \/ Restart
    BY <1>2, <2>6, LineBroken
  <2>7. CASE UNCHANGED vars
    BY <2>4, <2>7 DEF vars, arrivals, database
  <2> QED  BY <1>2, <2>1, <2>2, <2>3, <2>5, <2>6, <2>7 DEF Next
<1> QED  BY <1>1, <1>2

\* The notices of one sequence after those of another.
LEMMA ConcatNotices ==
    ASSUME NEW S, NEW r \in Seq(S), NEW s \in Seq(S)
    PROVE  Notices(r \o s) = Notices(r) \cup Notices(s)
<1>1. /\ \A i \in DOMAIN r : i \in DOMAIN (r \o s) /\ (r \o s)[i] = r[i]
      /\ \A i \in DOMAIN (r \o s) :
           \/ i \in DOMAIN r /\ (r \o s)[i] = r[i]
           \/ i > Len(r) /\ i - Len(r) \in DOMAIN s /\ (r \o s)[i] = s[i - Len(r)]
      /\ \A i \in DOMAIN s : i + Len(r) \in DOMAIN (r \o s) /\ (r \o s)[i + Len(r)] = s[i]
  BY ConcatElements
<1>2. PICK t : t = r \o s
  OBVIOUS
<1>3. ASSUME NEW x, x \in Notices(t) PROVE x \in Notices(r) \cup Notices(s)
  <2>1. PICK i \in DOMAIN t : t[i].type = "new_post" /\ x = t[i].row
    BY <1>3 DEF Notices
  <2>2. \/ i \in DOMAIN r /\ t[i] = r[i]
        \/ i - Len(r) \in DOMAIN s /\ t[i] = s[i - Len(r)]
    BY <1>1, <1>2
  <2> QED  BY <2>1, <2>2, NoticesOf
<1>4. ASSUME NEW x, x \in Notices(r) PROVE x \in Notices(t)
  <2>1. PICK i \in DOMAIN r : r[i].type = "new_post" /\ x = r[i].row
    BY <1>4 DEF Notices
  <2>2. i \in DOMAIN t /\ t[i] = r[i]
    BY <1>1, <1>2
  <2> QED  BY <2>1, <2>2, NoticesOf
<1>5. ASSUME NEW x, x \in Notices(s) PROVE x \in Notices(t)
  <2>1. PICK i \in DOMAIN s : s[i].type = "new_post" /\ x = s[i].row
    BY <1>5 DEF Notices
  <2>2. i + Len(r) \in DOMAIN t /\ t[i + Len(r)] = s[i]
    BY <1>1, <1>2
  <2> QED  BY <2>1, <2>2, NoticesOf
<1>6. Notices(t) = Notices(r) \cup Notices(s)
  BY <1>3, <1>4, <1>5
<1> QED  BY <1>2, <1>6

\* They are in order when the latter are of newer rows.
LEMMA ConcatAscending ==
    ASSUME NEW S, NEW r \in Seq(S), NEW s \in Seq(S), Ascending(r), Ascending(s),
           Below(Notices(r), Notices(s))
    PROVE  Ascending(r \o s)
<1>0. Len(r) \in Nat /\ DOMAIN r = 1..Len(r)
  OBVIOUS
<1>1. \A i \in DOMAIN (r \o s) :
        \/ i \in DOMAIN r /\ (r \o s)[i] = r[i]
        \/ i > Len(r) /\ i - Len(r) \in DOMAIN s /\ (r \o s)[i] = s[i - Len(r)]
  BY ConcatElements
<1>2. PICK t : t = r \o s
  OBVIOUS
<1>3. ASSUME NEW i \in DOMAIN t, NEW j \in DOMAIN t, i < j,
             t[i].type = "new_post", t[j].type = "new_post"
      PROVE  t[i].row < t[j].row
  <2>0. i \in Nat /\ j \in Nat
    BY <1>2
  <2>1. CASE j \in DOMAIN r /\ t[j] = r[j]
    <3>1. i \in DOMAIN r /\ t[i] = r[i]
      <4>1. ~ i > Len(r)
        BY <1>0, <1>3, <2>0, <2>1
      <4> QED  BY <1>1, <1>2, <4>1
    <3> QED  BY <1>3, <2>1, <3>1 DEF Ascending
  <2>2. CASE j > Len(r) /\ j - Len(r) \in DOMAIN s /\ t[j] = s[j - Len(r)]
    <3>1. CASE i \in DOMAIN r /\ t[i] = r[i]
      <4>1. r[i].row \in Notices(r) /\ s[j - Len(r)].row \in Notices(s)
        BY <1>3, <2>2, <3>1, NoticesOf
      <4> QED  BY <2>2, <3>1, <4>1 DEF Below
    <3>2. CASE i - Len(r) \in DOMAIN s /\ t[i] = s[i - Len(r)]
      <4>1. i - Len(r) < j - Len(r)
        BY <1>0, <1>3, <2>0
      <4> QED  BY <1>3, <2>2, <3>2, <4>1 DEF Ascending
    <3> QED  BY <1>1, <1>2, <3>1, <3>2
  <2> QED  BY <1>1, <1>2, <2>1, <2>2
<1>4. Ascending(t)
  BY <1>3 DEF Ascending
<1> QED  BY <1>2, <1>4

\* Subscribers hear of existing posts only, in the order of their ids, none twice.
THEOREM PostsAreHeardInOrder == Spec => []HeardInOrder
<1>1. TypeOK /\ InLine => HeardInOrder
  <2> SUFFICES ASSUME TypeOK, InLine, NEW c \in Clients
               PROVE  /\ \A i \in DOMAIN seen[c] : seen[c][i] \in DOMAIN posts
                      /\ \A i, j \in DOMAIN seen[c] : i < j => seen[c][i] < seen[c][j]
    BY DEF HeardInOrder
  <2>1. ClientLine(Len(posts), Due, inbox[c], seen[c]) /\ DOMAIN posts = 1..Len(posts)
    BY DEF InLine, TypeOK
  <2> QED  BY <2>1 DEF ClientLine, Told
<1> QED  BY <1>1, TypeInvariant, LineInvariant, PTL DEF Spec

\* While the service neither crashes nor loses its connection, a subscriber heard of
\* every post, or the notice is on its way, in order and once.
THEOREM NoPostGoesUnnoticed == Spec => []NoPostUnnoticed
<1>1. TypeOK /\ InLine /\ Covered => NoPostUnnoticed
  <2> SUFFICES ASSUME TypeOK, InLine, Covered, ~cut, NEW c \in listening,
                      NEW rest, rest = inbox[c] \o channel \o handler
               PROVE  /\ Ascending(rest)
                      /\ \A i \in DOMAIN seen[c] : \A row \in Notices(rest) : seen[c][i] < row
                      /\ Told(seen[c]) \cup Notices(rest) = DOMAIN posts
    BY DEF NoPostUnnoticed, Told
  <2>1. c \in Clients /\ DOMAIN posts = 1..Len(posts)
    BY DEF TypeOK
  <2>2. PICK ib \in Seq(Packets) : ib = inbox[c]
    <3>1. inbox[c] \in Seq(Messages) /\ Messages \subseteq Packets
      BY <2>1 DEF TypeOK, Packets
    <3> QED  BY <3>1, WiderSeq
  <2>3. PICK ch \in Seq(Packets), hd \in Seq(Packets) : ch = channel /\ hd = handler
    BY DEF TypeOK
  <2>4. ServiceLine(Len(posts), ch, hd) /\ ClientLine(Len(posts), Due, ib, seen[c])
    BY <2>1, <2>2, <2>3 DEF InLine
  <2>5. Due = Notices(ch) \cup Notices(hd)
    BY <2>3 DEF Due
  <2>6. PICK first \in Seq(Packets) :
          first = ib \o ch /\ Notices(first) = Notices(ib) \cup Notices(ch) /\ Ascending(first)
    <3>1. Below(Notices(ib), Notices(ch)) /\ Ascending(ib) /\ Ascending(ch)
      BY <2>4, <2>5 DEF ClientLine, ServiceLine, Below
    <3>2. ib \o ch \in Seq(Packets)
      BY ConcatElements
    <3>3. Notices(ib \o ch) = Notices(ib) \cup Notices(ch)
      BY ConcatNotices
    <3>4. Ascending(ib \o ch)
      BY <3>1, ConcatAscending
    <3> QED  BY <3>2, <3>3, <3>4
  <2>7. rest = first \o hd
    BY <2>2, <2>3, <2>6
  <2>8. Notices(rest) = Notices(ib) \cup Due
    <3>1. Notices(first \o hd) = Notices(first) \cup Notices(hd)
      BY ConcatNotices
    <3> QED  BY <2>5, <2>6, <2>7, <3>1
  <2>9. Ascending(rest)
    <3>1. Below(Notices(first), Notices(hd)) /\ Ascending(hd)
      BY <2>4, <2>5, <2>6 DEF ClientLine, ServiceLine, Below
    <3>2. Ascending(first \o hd)
      BY <2>6, <3>1, ConcatAscending
    <3> QED  BY <2>7, <3>2
  <2>10. \A i \in DOMAIN seen[c] : \A row \in Notices(rest) : seen[c][i] < row
    BY <2>4, <2>8 DEF ClientLine, Below, Told
  <2>11. Told(seen[c]) \cup Notices(rest) = DOMAIN posts
    BY <2>1, <2>2, <2>8 DEF Covered
  <2> QED  BY <2>9, <2>10, <2>11
<1> QED  BY <1>1, TypeInvariant, LineInvariant, PTL DEF Spec
=============================================================================
