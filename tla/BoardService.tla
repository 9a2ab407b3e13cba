---------------------------- MODULE BoardService ----------------------------
(***************************************************************************)
(* Requests to the bulletin board: Python BoardClients                     *)
(* (Mqtt_bbs_client/board_client.py) and the Rust service                  *)
(* (tools/board_service_rs).                                               *)
(*                                                                         *)
(* The service has one event loop: poll() takes a message from the broker  *)
(* or sends one of the requests queued in rumqttc's channel, and a handler *)
(* runs to its end before the next poll().  Only poll() empties the        *)
(* channel, and a handler's publish() waits while the channel is full.     *)
(*                                                                         *)
(* A client has one caller and the paho thread that runs its callbacks.    *)
(* It never sends a JWT, so the service knows every client by the same     *)
(* name, "anonymous", and the table bbs_users, whose name column is        *)
(* unique, holds one row.  Both sides open clean sessions and subscribe    *)
(* only when they start, so a connection that broke leaves them deaf.      *)
(*                                                                         *)
(* The service answers on the topic that reply_to names, letter for        *)
(* letter; the client put the prefix before the topics it subscribed to.   *)
(***************************************************************************)
EXTENDS Naturals, Sequences, FiniteSets

CONSTANTS
    Clients,      \* BoardClient instances on one board
    MaxCalls,     \* bound: MaxCalls[c] calls of client c
    ReplyPrefix,  \* what reply_to has before bbs/{board}/response/: nothing
                  \* in BoardClient, "agent/" in a client that names the
                  \* topic it subscribed to
    ChannelCap,   \* capacity of rumqttc's request channel: 100 in main.rs
    MaxFaults,    \* bound: crashes, lost connections, database errors, timeouts
    None          \* no value

ASSUME ServiceAssumption ==
    /\ IsFiniteSet(Clients)
    /\ MaxCalls \in [Clients -> Nat]
    /\ ReplyPrefix \in STRING
    /\ ChannelCap \in Nat \ {0}
    /\ MaxFaults \in Nat

VARIABLES
    calls,       \* calls[c]: calls c has begun
    request,     \* request[c]: the last of them
    phase,       \* phase[c]: how far it has come
    slot,        \* slot[c]: what _pending holds for it
    cached,      \* cached[c]: _cached_token
    inbox,       \* inbox[c]: messages for c whose callback has not run
    listening,   \* the clients whose subscriptions the broker holds
    seen,        \* history: the posts _on_new_post was called with
    outcome,     \* history: the answer each finished call got, or TimedOut
    up,          \* is the service's process running
    subscribed,  \* does the broker hold its subscriptions
    incoming,    \* requests on their way to the event loop
    handler,     \* the publish() calls the running handler has still to make
    channel,     \* requests queued for poll()
    token,       \* the token in the one row of bbs_users
    posts,       \* the rows of bbs_posts, in id order
    cut,         \* history: has the service crashed or lost its connection
    faults       \* faults so far

client == <<calls, request, phase, slot, cached, outcome>>
arrivals == <<inbox, listening, seen>>
database == <<token, posts>>
vars == <<client, arrivals, up, subscribed, incoming, handler, channel,
          database, cut, faults>>

-----------------------------------------------------------------------------
(* Requests and messages.                                                  *)

\* A call is identified by its corr_id; a token by the registration that
\* drew it.
Ids == UNION {{c} \X (1..MaxCalls[c]) : c \in Clients}
Operations == {"register", "post", "count"}
Requests == [id : Ids, op : Operations, token : Ids \cup {None}]
Id(c) == <<c, calls[c]>>

\* Bodies of responses: a token, the id of a row, a number of rows, an error.
Rows == 1..(Cardinality(Ids) + MaxFaults)
Bodies == [token : Ids] \cup [row : Rows] \cup [total : {0} \cup Rows]
          \cup {[error |-> "invalid token"]}
TimedOut == [error |-> "timeout"]

ASSUME NoneAssumption == None \notin Bodies

Response(id, body) == [type |-> "response", id |-> id, body |-> body]
NewPost(row) == [type |-> "new_post", row |-> row]
Messages == [type : {"response"}, id : Ids, body : Bodies]
            \cup [type : {"new_post"}, row : Rows]
\* What else is sent: the event for plugins, the subscriptions of main().
Event == [type |-> "event"]
Subscribe == [type |-> "subscribe"]
Packets == Messages \cup {Event, Subscribe}

\* connect() subscribes to the responses, with the prefix of BBSClient, and to
\* new_post, where the service puts the same prefix.
Prefix == "agent/"
Hears(c, packet) ==
    /\ c \in listening
    /\ \/ packet.type = "response" /\ ReplyPrefix = Prefix
       \/ packet.type = "new_post"

Fault == faults < MaxFaults /\ faults' = faults + 1

Init ==
    /\ calls = [c \in Clients |-> 0]
    /\ request = [c \in Clients |-> None]
    /\ phase = [c \in Clients |-> "idle"]
    /\ slot = [c \in Clients |-> None]
    /\ cached = [c \in Clients |-> None]
    /\ inbox = [c \in Clients |-> <<>>]
    /\ listening = Clients
    /\ seen = [c \in Clients |-> <<>>]
    /\ outcome = [id \in Ids |-> None]
    /\ up = TRUE
    /\ subscribed = FALSE
    /\ incoming = <<>>
    /\ handler = <<>>
    /\ channel = <<Subscribe>>
    /\ token = None
    /\ posts = <<>>
    /\ cut = FALSE
    /\ faults = 0

-----------------------------------------------------------------------------
(* Clients.                                                                *)

\* publish(): the broker passes the request to the service if that has
\* subscribed, and forgets it otherwise.
Call(c, op, tok) ==
    /\ phase[c] = "idle"
    /\ calls[c] < MaxCalls[c]
    /\ calls' = [calls EXCEPT ![c] = @ + 1]
    /\ LET req == [id |-> <<c, calls[c] + 1>>, op |-> op, token |-> tok] IN
       /\ request' = [request EXCEPT ![c] = req]
       /\ incoming' = IF subscribed THEN Append(incoming, req) ELSE incoming
    /\ phase' = [phase EXCEPT ![c] = "published"]
    /\ UNCHANGED <<slot, cached, outcome, arrivals, up, subscribed, handler,
                   channel, database, cut, faults>>

\* register() answers from the cache once it has succeeded.
Register(c) == cached[c] = None /\ Call(c, "register", None)
Post(c) == cached[c] # None /\ Call(c, "post", cached[c])
CountPosts(c) == Call(c, "count", None)

\* _wait_response registers the call after it was published.
Expect(c) ==
    /\ phase[c] = "published"
    /\ phase' = [phase EXCEPT ![c] = "waiting"]
    /\ UNCHANGED <<calls, request, slot, cached, outcome, arrivals, up,
                   subscribed, incoming, handler, channel, database, cut,
                   faults>>

\* Mutation: any response wakes the caller, whatever its corr_id.
ExpectsAny(c, id) == phase[c] = "waiting"
\* _on_response: all clients of a board share the topic, corr_id tells.
Expects(c, id) == phase[c] = "waiting" /\ id = Id(c)

OnMessage(c) ==
    /\ inbox[c] # <<>>
    /\ inbox' = [inbox EXCEPT ![c] = Tail(@)]
    /\ LET msg == Head(inbox[c]) IN
       \/ /\ msg.type = "response"
          /\ slot' = IF Expects(c, msg.id)
                     THEN [slot EXCEPT ![c] = msg.body] ELSE slot
          /\ UNCHANGED seen
       \/ /\ msg.type = "new_post"
          /\ seen' = [seen EXCEPT ![c] = Append(@, msg.row)]
          /\ UNCHANGED slot
    /\ UNCHANGED <<calls, request, phase, cached, outcome, listening, up,
                   subscribed, incoming, handler, channel, database, cut,
                   faults>>

\* The call returns.
End(c, result) ==
    /\ phase[c] = "waiting"
    /\ outcome' = [outcome EXCEPT ![Id(c)] = result]
    /\ slot' = [slot EXCEPT ![c] = None]
    /\ phase' = [phase EXCEPT ![c] = "idle"]
    /\ UNCHANGED <<calls, request, arrivals, up, subscribed, incoming,
                   handler, channel, database, cut>>

\* A token, which is what register() is answered with, is cached.
Return(c) ==
    /\ slot[c] # None
    /\ End(c, slot[c])
    /\ cached' = IF slot[c] \in [token : Ids]
                 THEN [cached EXCEPT ![c] = slot[c].token] ELSE cached
    /\ UNCHANGED faults

\* The callers are told in their own ways: register() gives an empty token,
\* post() an error, count_posts() no posts.
Timeout(c) ==
    /\ slot[c] = None
    /\ Fault
    /\ End(c, TimedOut)
    /\ UNCHANGED cached

\* The client's connection breaks and paho makes a new one.  A request of QoS 1
\* that the broker has not acknowledged is sent again.
ClientLinkLost(c) ==
    /\ Fault
    /\ listening' = listening \ {c}
    /\ inbox' = [inbox EXCEPT ![c] = <<>>]
    /\ \/ UNCHANGED incoming
       \/ /\ phase[c] # "idle" /\ subscribed
          /\ incoming' = Append(incoming, request[c])
    /\ UNCHANGED <<client, seen, up, subscribed, handler, channel, database,
                   cut>>

-----------------------------------------------------------------------------
(* The handlers: the database first, then the messages to publish.         *)

\* A row with the new token, in place of the one before.
HandleRegister(req) ==
    /\ req.op = "register"
    /\ token' = req.id
    /\ handler' = <<Response(req.id, [token |-> req.id])>>
    /\ UNCHANGED posts

\* Mutation: the subscribers hear of the post, nothing is stored.
HandlePostUnstored(req) ==
    /\ req.op = "post"
    /\ handler' = <<Response(req.id, [row |-> Len(posts) + 1]),
                    NewPost(Len(posts) + 1), Event>>
    /\ UNCHANGED <<token, posts>>

\* Mutation: without the notification.
HandlePostUnnoticed(req) ==
    /\ req.op = "post"
    /\ posts' = Append(posts, req.id)
    /\ handler' = <<Response(req.id, [row |-> Len(posts) + 1]), Event>>
    /\ UNCHANGED token

HandlePost(req) ==
    /\ req.op = "post"
    /\ IF token # None /\ req.token = token
       THEN /\ posts' = Append(posts, req.id)
            /\ handler' = <<Response(req.id, [row |-> Len(posts) + 1]),
                            NewPost(Len(posts) + 1), Event>>
       ELSE /\ handler' = <<Response(req.id, [error |-> "invalid token"])>>
            /\ UNCHANGED posts
    /\ UNCHANGED token

HandleCount(req) ==
    /\ req.op = "count"
    /\ handler' = <<Response(req.id, [total |-> Len(posts)])>>
    /\ UNCHANGED database

-----------------------------------------------------------------------------
(* The event loop.                                                         *)

\* poll() returns a message and its handler starts; on a database error it
\* ends without an answer.
TakeRequest ==
    /\ up /\ handler = <<>>
    /\ incoming # <<>>
    /\ incoming' = Tail(incoming)
    /\ LET req == Head(incoming) IN
       \/ /\ HandleRegister(req) \/ HandlePost(req) \/ HandleCount(req)
          /\ UNCHANGED faults
       \/ Fault /\ UNCHANGED <<handler, database>>
    /\ UNCHANGED <<client, arrivals, up, subscribed, channel, cut>>

\* Mutation: without waiting for room.
PublishUnbounded ==
    /\ handler # <<>>
    /\ channel' = Append(channel, Head(handler))
    /\ handler' = Tail(handler)
    /\ UNCHANGED <<client, arrivals, up, subscribed, incoming, database, cut,
                   faults>>

\* The handler's next publish() has room in the channel.
Publish ==
    /\ handler # <<>>
    /\ Len(channel) < ChannelCap
    /\ channel' = Append(channel, Head(handler))
    /\ handler' = Tail(handler)
    /\ UNCHANGED <<client, arrivals, up, subscribed, incoming, database, cut,
                   faults>>

\* poll() sends the oldest request of the channel.
Send ==
    /\ up /\ handler = <<>>
    /\ channel # <<>>
    /\ channel' = Tail(channel)
    /\ LET packet == Head(channel) IN
       /\ subscribed' = (subscribed \/ packet = Subscribe)
       /\ inbox' = [c \in Clients |->
                       IF Hears(c, packet) THEN Append(inbox[c], packet)
                       ELSE inbox[c]]
    /\ UNCHANGED <<client, listening, seen, up, incoming, handler, database,
                   cut, faults>>

\* The connection breaks and poll() makes a new one with a clean session: the
\* subscriptions of main() are not repeated.  What was sent last may be lost.
LinkLost ==
    /\ up
    /\ Fault
    /\ cut' = TRUE
    /\ subscribed' = FALSE
    /\ incoming' = <<>>
    /\ \/ UNCHANGED channel
       \/ handler = <<>> /\ channel # <<>> /\ channel' = Tail(channel)
    /\ UNCHANGED <<client, arrivals, up, handler, database>>

Crash ==
    /\ up
    /\ Fault
    /\ cut' = TRUE
    /\ up' = FALSE
    /\ subscribed' = FALSE
    /\ incoming' = <<>>
    /\ handler' = <<>>
    /\ channel' = <<>>
    /\ UNCHANGED <<client, arrivals, database>>

Restart ==
    /\ ~up
    /\ up' = TRUE
    /\ channel' = <<Subscribe>>
    /\ UNCHANGED <<client, arrivals, subscribed, incoming, handler, database,
                   cut, faults>>

-----------------------------------------------------------------------------
ClientStep(c) ==
    \/ Register(c) \/ Post(c) \/ CountPosts(c)
    \/ Expect(c) \/ OnMessage(c) \/ Return(c) \/ Timeout(c) \/ ClientLinkLost(c)

Next ==
    \/ \E c \in Clients : ClientStep(c)
    \/ TakeRequest \/ Publish \/ Send \/ LinkLost \/ Crash \/ Restart

Spec == Init /\ [][Next]_vars

-----------------------------------------------------------------------------
(* Properties.                                                             *)

\* Every variable holds values of its kind.
TypeOK ==
    /\ calls \in [Clients -> Nat] /\ \A c \in Clients : calls[c] <= MaxCalls[c]
    /\ request \in [Clients -> Requests \cup {None}]
    /\ phase \in [Clients -> {"idle", "published", "waiting"}]
    /\ slot \in [Clients -> Bodies \cup {None}]
    /\ cached \in [Clients -> Ids \cup {None}]
    /\ inbox \in [Clients -> Seq(Messages)]
    /\ listening \subseteq Clients
    /\ seen \in [Clients -> Seq(Rows)]
    /\ outcome \in [Ids -> Bodies \cup {TimedOut, None}]
    /\ up \in BOOLEAN /\ subscribed \in BOOLEAN
    /\ incoming \in Seq(Requests)
    /\ handler \in Seq(Packets)
    /\ channel \in Seq(Packets) /\ Len(channel) <= ChannelCap
    /\ token \in Ids \cup {None}
    /\ posts \in Seq(Ids)
    /\ cut \in BOOLEAN
    /\ faults \in 0..MaxFaults

\* A post that was answered with a row id is that row of the table, whatever
\* crashed, timed out, was sent twice or arrived late in between: a caller
\* never takes the answer to another call, or of another client, for its own.
AnsweredPostIsStored ==
    \A id \in Ids : outcome[id] \in [row : Rows] =>
        /\ outcome[id].row \in DOMAIN posts
        /\ posts[outcome[id].row] = id

\* A client that was told the id of its post counts at least that many posts
\* whenever it is answered from then on.
CountsOwnPosts ==
    \A c \in Clients : \A m, n \in 1..MaxCalls[c] :
        (/\ m < n
         /\ outcome[<<c, m>>] \in [row : Rows]
         /\ outcome[<<c, n>>] \in [total : {0} \cup Rows])
        => outcome[<<c, m>>].row <= outcome[<<c, n>>].total

\* The subscribers of new_post hear of existing posts only, in the order of
\* their ids and of none twice; a crash or a lost connection leaves gaps.
HeardInOrder ==
    \A c \in Clients :
        /\ \A i \in DOMAIN seen[c] : seen[c][i] \in DOMAIN posts
        /\ \A i, j \in DOMAIN seen[c] : i < j => seen[c][i] < seen[c][j]

\* The rows that the new_post messages of a sequence tell of, and whether they
\* do in ascending order.
Notices(s) == {s[i].row : i \in {j \in DOMAIN s : s[j].type = "new_post"}}
Ascending(s) ==
    \A i, j \in DOMAIN s :
        i < j /\ s[i].type = "new_post" /\ s[j].type = "new_post" => s[i].row < s[j].row

\* While the service neither crashes nor loses its connection, no post goes
\* unnoticed: a subscriber heard of every post, in order and once, or the rest
\* is under way, whatever handlers failed, calls timed out or requests were
\* repeated, and even if the event loop hangs.
NoPostUnnoticed ==
    ~cut => \A c \in listening :
        LET rest == inbox[c] \o channel \o handler IN
        /\ Ascending(rest)
        /\ \A i \in DOMAIN seen[c] : \A row \in Notices(rest) : seen[c][i] < row
        /\ {seen[c][i] : i \in DOMAIN seen[c]} \cup Notices(rest) = DOMAIN posts
=============================================================================
