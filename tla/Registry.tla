------------------------------ MODULE Registry ------------------------------
(***************************************************************************)
(* The two registries of agents and their capabilities: CapabilityRegistry *)
(* of board_db.py, which keeps a table in memory, and                      *)
(* RetainCapabilityRegistry of the client's registry.py, which collects    *)
(* what the broker retains and keeps that for a second; and the masters    *)
(* that query them to route tasks (query_capabilities and                  *)
(* post_task_routed of bbs.py).                                            *)
(*                                                                         *)
(* A collection fills a dictionary of its own, which then becomes the      *)
(* cache: tables holds the dictionaries, cache says which of them _cache   *)
(* is.  Messages reach a registry in the order the broker got them.        *)
(***************************************************************************)
EXTENDS Integers, FiniteSets, Sequences, SequencesExt

CONSTANTS
    Agents,
    Masters,
    MaxTables,    \* bound on the dictionaries made
    MaxEvents,    \* bound on what agents do: connect, declare, beat, leave
    MaxQueries,   \* bound on the queries of a master
    MaxRestarts   \* bound on restarts of the registry

ASSUME RegistryAssumption ==
    /\ Agents \cap Masters = {}
    /\ IsFiniteSet(Agents)
    /\ {MaxTables, MaxEvents, MaxQueries, MaxRestarts} \subseteq Nat
    /\ MaxTables > 0

VARIABLES
    mode,        \* which registry this is: "memory" or "retain"
    life,        \* per agent: "down", "up", or "stopping" between the two calls of stop()
    kept,        \* per agent, what the broker retains: the capability and the status
    beaten,      \* ghost: per agent, a heartbeat came after the retained status
    running,     \* start() has subscribed the registry
    inbox,       \* messages the registry's paho thread has not handled
    tables,      \* the dictionaries made so far
    cache,       \* _cache, or _agents: the number of a table
    fresh,       \* the cache was collected less than _cache_ttl ago
    listening,   \* tables whose temporary callbacks are registered
    collecting,  \* per thread of the registry, the collection it waits for
    responses,   \* answers on their way to masters
    query,       \* per master, its call of query_capabilities
    events, restarts

Broker == <<life, kept, beaten>>
Dictionaries == <<tables, cache, fresh, listening>>
vars == <<mode, Broker, running, inbox, Dictionaries, collecting, responses, query,
          events, restarts>>

Statuses == {"online", "offline"}
Absent == [caps |-> FALSE, status |-> "absent"]
Empty == [a \in Agents |-> Absent]
Resting == [at |-> "rest"]
NoQuery == [at |-> "idle", corr |-> 0, answer |-> Empty, online |-> {}, declared |-> {}]

Init ==
    /\ mode \in {"memory", "retain"}
    /\ life = [a \in Agents |-> "down"]
    /\ kept = [a \in Agents |-> [caps |-> FALSE, status |-> "none"]]
    /\ beaten = [a \in Agents |-> FALSE]
    /\ running = FALSE
    /\ inbox = <<>>
    /\ tables = <<Empty>>
    /\ cache = 1
    /\ fresh = FALSE
    /\ listening = {}
    /\ collecting = [t \in {"app", "paho"} |-> Resting]
    /\ responses = {}
    /\ query = [m \in Masters |-> NoQuery]
    /\ events = 0
    /\ restarts = 0

Happens ==
    /\ events < MaxEvents
    /\ events' = events + 1

News(a, what, value) == [what |-> what, about |-> a, value |-> value]

Query(m, corr) == [what |-> "query", about |-> m, corr |-> corr]

Sent(m) == inbox' = IF running THEN Append(inbox, m) ELSE inbox

\* The agent is, or says it is, online: the masters that wait may be told so.
SeenOnline(as) ==
    query' = [m \in Masters |-> IF query[m].at = "waiting"
                                  THEN [query[m] EXCEPT !.online = @ \cup as] ELSE query[m]]

----------------------------------------------------------------------------
(* Agents.                                                                 *)

Says(a, status) ==
    /\ kept' = [kept EXCEPT ![a].status = status]
    /\ beaten' = [beaten EXCEPT ![a] = FALSE]
    /\ Sent(News(a, "status", status))
    /\ SeenOnline(IF status = "online" THEN {a} ELSE {})

\* _on_connect() of an agent's client publishes its status.
Connect(a) ==
    /\ life[a] = "down"
    /\ Happens
    /\ life' = [life EXCEPT ![a] = "up"]
    /\ Says(a, "online")
    /\ UNCHANGED <<mode, running, Dictionaries, collecting, responses, restarts>>

\* start() of a worker declares its capabilities.
Declare(a) ==
    /\ life[a] = "up"
    /\ Happens
    /\ kept' = [kept EXCEPT ![a].caps = TRUE]
    /\ Sent(News(a, "caps", "declared"))
    /\ UNCHANGED <<mode, life, beaten, running, Dictionaries, collecting, responses, query,
                   restarts>>

\* The heartbeat is not retained.  It says online until the client is disconnected.
Heartbeat(a) ==
    /\ life[a] \in {"up", "stopping"}
    /\ Happens
    /\ beaten' = [beaten EXCEPT ![a] = TRUE]
    /\ Sent(News(a, "beat", "online"))
    /\ SeenOnline({a})
    /\ UNCHANGED <<mode, life, kept, running, Dictionaries, collecting, responses, restarts>>

\* stop() of a worker publishes offline, then disconnects.
Stop(a) ==
    /\ life[a] = "up"
    /\ Happens
    /\ life' = [life EXCEPT ![a] = "stopping"]
    /\ Says(a, "offline")
    /\ UNCHANGED <<mode, running, Dictionaries, collecting, responses, restarts>>

\* disconnect() of any client.  The broker drops its will.
Disconnect(a) ==
    /\ life[a] \in {"up", "stopping"}
    /\ life[a] = "up" => Happens
    /\ life[a] = "stopping" => UNCHANGED events
    /\ life' = [life EXCEPT ![a] = "down"]
    /\ UNCHANGED <<mode, kept, beaten, running, inbox, Dictionaries, collecting, responses,
                   query, restarts>>

\* The connection of an agent is lost: the broker publishes its will.
Will(a) ==
    /\ life[a] # "down"
    /\ Happens
    /\ life' = [life EXCEPT ![a] = "down"]
    /\ Says(a, "offline")
    /\ UNCHANGED <<mode, running, Dictionaries, collecting, responses, restarts>>

----------------------------------------------------------------------------
(* The registry.                                                           *)

Declared == {a \in Agents : kept[a].caps}
Known == {a \in Agents : kept[a].status # "none"}

Declarations(order) == [i \in DOMAIN order |-> News(order[i], "caps", "declared")]
Reports(order) == [i \in DOMAIN order |-> News(order[i], "status", kept[order[i]].status)]

\* Mutation: the topic of the statuses is not subscribed to.
RetainedCapabilities == {Declarations(declared) : declared \in SetToSeqs(Declared)}

\* What the broker sends when the topics of capabilities and statuses are
\* subscribed to, be it again: the messages of one topic in any order.
Retained == {Declarations(declared) \o Reports(known) :
               declared \in SetToSeqs(Declared), known \in SetToSeqs(Known)}

Start ==
    /\ ~running
    /\ running' = TRUE
    /\ inbox' \in Retained
    /\ UNCHANGED <<mode, Broker, Dictionaries, collecting, responses, query, events, restarts>>

\* The process of the registry ends and is started again.
Restart ==
    /\ running
    /\ restarts < MaxRestarts
    /\ restarts' = restarts + 1
    /\ running' = FALSE
    /\ inbox' = <<>>
    /\ tables' = <<Empty>>
    /\ cache' = 1
    /\ fresh' = FALSE
    /\ listening' = {}
    /\ collecting' = [t \in {"app", "paho"} |-> Resting]
    /\ UNCHANGED <<mode, Broker, responses, query, events>>

\* _on_capability, _on_status, _on_heartbeat, and the two temporary callbacks.
Noted(table, n) ==
    LET old == table[n.about] IN
      [table EXCEPT ![n.about] =
         IF n.what = "caps"
           THEN [caps |-> TRUE, status |-> IF old = Absent THEN "unknown" ELSE old.status]
           ELSE [old EXCEPT !.status = n.value]]

\* The dictionaries that somebody will read.
Read == {cache} \cup {collecting[t].table : t \in {u \in DOMAIN collecting : collecting[u] # Resting}}

\* A message is handled: by the registry's own callbacks, which write to what
\* _cache is now, and by the temporary ones, of which none is for heartbeats.
Handle ==
    /\ collecting["paho"] = Resting
    /\ inbox # <<>>
    /\ Head(inbox).what # "query"
    /\ inbox' = Tail(inbox)
    /\ LET written == {cache} \cup (IF Head(inbox).what = "beat" THEN {} ELSE listening \cap Read) IN
         tables' = [i \in DOMAIN tables |->
                      IF i \in written THEN Noted(tables[i], Head(inbox)) ELSE tables[i]]
    /\ UNCHANGED <<mode, Broker, running, cache, fresh, listening, collecting, responses,
                   query, events, restarts>>

\* The second of _cache_ttl is over.
Expire ==
    /\ fresh
    /\ fresh' = FALSE
    /\ UNCHANGED <<mode, Broker, running, inbox, tables, cache, listening, collecting,
                   responses, query, events, restarts>>

\* _collect(): the cache will do if it is fresh and not empty.
CacheServes == mode = "memory" \/ (fresh /\ tables[cache] # Empty)

\* Mutation: the callbacks are not registered.
CollectUnheard(thread, for) ==
    /\ Len(tables) < MaxTables
    /\ tables' = Append(tables, Empty)
    /\ collecting' = [collecting EXCEPT ![thread] =
                        [at |-> "sleep", table |-> Len(tables) + 1, for |-> for]]
    /\ UNCHANGED listening

\* _collect_retain() subscribes two callbacks for a new dictionary and sleeps.
Collect(thread, for) ==
    /\ Len(tables) < MaxTables
    /\ tables' = Append(tables, Empty)
    /\ listening' = listening \cup {Len(tables) + 1}
    /\ collecting' = [collecting EXCEPT ![thread] =
                        [at |-> "sleep", table |-> Len(tables) + 1, for |-> for]]

\* The dictionary becomes the cache; the old one is not read again, and left
\* empty here.  unsubscribe() is given what subscribe() returned, the client,
\* and takes no callback away.
Swaps(thread) ==
    /\ tables' = [tables EXCEPT ![cache] = Empty]
    /\ cache' = collecting[thread].table
    /\ fresh' = TRUE
    /\ UNCHANGED listening

\* get_agents() of a thread of the application.
GetAgents ==
    /\ running
    /\ collecting["app"] = Resting
    /\ ~CacheServes
    /\ Collect("app", Resting)
    /\ \E retained \in Retained : inbox' = inbox \o retained
    /\ UNCHANGED <<mode, Broker, running, cache, fresh, responses, query, events, restarts>>

AppWakes ==
    /\ collecting["app"].at = "sleep"
    /\ Swaps("app")
    /\ collecting' = [collecting EXCEPT !["app"] = Resting]
    /\ UNCHANGED <<mode, Broker, running, inbox, responses, query, events, restarts>>

\* The agents of a table that have the capability asked for.
Filtered(table) == [a \in Agents |-> IF table[a].caps THEN table[a] ELSE Absent]

\* The answer is published on a topic of its own, which nobody listens to when
\* the call is over.
Responds(q, table) ==
    responses' = IF query[q.about].at = "waiting" /\ query[q.about].corr = q.corr
                   THEN responses \cup {[to |-> q.about, agents |-> Filtered(table)]}
                   ELSE responses

\* _on_query(): answered from the cache, or after a collection, for which this
\* thread sleeps, the one that would handle what the broker sends.
AnswerQuery ==
    /\ collecting["paho"] = Resting
    /\ inbox # <<>>
    /\ Head(inbox).what = "query"
    /\ CacheServes
    /\ inbox' = Tail(inbox)
    /\ Responds(Head(inbox), tables[cache])
    /\ UNCHANGED <<mode, Broker, running, Dictionaries, collecting, query, events, restarts>>

CollectForQuery ==
    /\ collecting["paho"] = Resting
    /\ inbox # <<>>
    /\ Head(inbox).what = "query"
    /\ ~CacheServes
    /\ Collect("paho", Head(inbox))
    /\ \E retained \in Retained : inbox' = Tail(inbox) \o retained
    /\ UNCHANGED <<mode, Broker, running, cache, fresh, responses, query, events, restarts>>

PahoWakes ==
    /\ collecting["paho"].at = "sleep"
    /\ Swaps("paho")
    /\ Responds(collecting["paho"].for, tables[collecting["paho"].table])
    /\ collecting' = [collecting EXCEPT !["paho"] = Resting]
    /\ UNCHANGED <<mode, Broker, running, inbox, query, events, restarts>>

----------------------------------------------------------------------------
(* Masters.                                                                *)

\* query_capabilities().  The query does not arrive if the rate limiter drops
\* it or TOPIC_PREFIX is not empty: what is published to board/... has the prefix
\* then, what is subscribed to has not.
Ask(m, arrives) ==
    /\ query[m].at = "idle"
    /\ query[m].corr < MaxQueries
    /\ query' = [query EXCEPT ![m] =
                   [at |-> "waiting", corr |-> @.corr + 1, answer |-> Empty,
                    online |-> {a \in Agents : kept[a].status = "online" \/ beaten[a]},
                    declared |-> {a \in Agents : kept[a].caps}]]
    /\ IF arrives
         THEN Sent(Query(m, query[m].corr + 1))
         ELSE UNCHANGED inbox
    /\ UNCHANGED <<mode, Broker, running, Dictionaries, collecting, responses, events, restarts>>

\* The call is over: its topic is given up.
Ends(m, answer) ==
    /\ query' = [query EXCEPT ![m].at = "done", ![m].answer = answer]
    /\ responses' = {r \in responses : r.to # m}

\* on_response(): an empty list is no answer.
TakeResponse(m) ==
    \E r \in responses :
      /\ r.to = m
      /\ IF r.agents = Empty
           THEN responses' = responses \ {r} /\ UNCHANGED query
           ELSE Ends(m, r.agents)
      /\ UNCHANGED <<mode, Broker, running, inbox, Dictionaries, collecting, events, restarts>>

TimeOut(m) ==
    /\ query[m].at = "waiting"
    /\ Ends(m, Empty)
    /\ UNCHANGED <<mode, Broker, running, inbox, Dictionaries, collecting, events, restarts>>

\* Mutation: everyone who has the capability gets the task.
RoutedToAll(m) == {a \in Agents : query[m].answer[a] # Absent}

\* The agents of an answer that post_task_routed() takes.
RoutedTo(m) == {a \in Agents : query[m].answer[a].status = "online"}

\* post_task_routed() pushes the task to the agents that are said to be online.
Route(m) ==
    /\ query[m].at = "done"
    /\ query' = [query EXCEPT ![m] = [NoQuery EXCEPT !.corr = query[m].corr]]
    /\ UNCHANGED <<mode, Broker, running, inbox, Dictionaries, collecting, responses, events,
                   restarts>>

Next ==
    \/ \E a \in Agents : \/ Connect(a) \/ Declare(a) \/ Heartbeat(a) \/ Stop(a)
                         \/ Disconnect(a) \/ Will(a)
    \/ Start \/ Restart \/ Handle \/ Expire
    \/ GetAgents \/ AppWakes \/ AnswerQuery \/ CollectForQuery \/ PahoWakes
    \/ \E m \in Masters : \/ \E allowed \in BOOLEAN : Ask(m, allowed)
                          \/ TakeResponse(m) \/ TimeOut(m) \/ Route(m)

Spec == Init /\ [][Next]_vars

----------------------------------------------------------------------------
Entries == [caps : BOOLEAN, status : Statuses \cup {"absent", "unknown"}]
Tables == [Agents -> Entries]
Notices == [what : {"caps"}, about : Agents, value : {"declared"}]
             \cup [what : {"status"}, about : Agents, value : Statuses]
             \cup [what : {"beat"}, about : Agents, value : {"online"}]
Queries == [what : {"query"}, about : Masters, corr : 1..MaxQueries]
Collections == [at : {"sleep"}, table : Nat, for : {Resting} \cup Queries]

\* Type invariant.
TypeOK ==
    /\ mode \in {"memory", "retain"}
    /\ life \in [Agents -> {"down", "up", "stopping"}]
    /\ kept \in [Agents -> [caps : BOOLEAN, status : Statuses \cup {"none"}]]
    /\ beaten \in [Agents -> BOOLEAN]
    /\ {running, fresh} \subseteq BOOLEAN
    /\ inbox \in Seq(Notices \cup Queries)
    /\ tables \in Seq(Tables)
    /\ cache \in DOMAIN tables
    /\ listening \subseteq DOMAIN tables
    /\ collecting \in [{"app", "paho"} -> {Resting} \cup Collections]
    /\ \A t \in {"app", "paho"} : collecting[t] # Resting =>
         /\ collecting[t].table \in listening
         /\ collecting[t].for \in Queries <=> t = "paho"
    /\ responses \subseteq [to : Masters, agents : Tables]
    /\ query \in [Masters -> [at : {"idle", "waiting", "done"}, corr : 0..MaxQueries,
                              answer : Tables, online : SUBSET Agents,
                              declared : SUBSET Agents]]
    /\ {events, restarts} \subseteq Nat

\* When the registry has handled all it was sent, its table says of each agent
\* what the broker retains, whatever was collected, swapped, expired or restarted
\* meanwhile.  Only a heartbeat may have made an agent online that said otherwise
\* before (registry.py:8-12, 136-139; board_db.py:60-121).
RegistryAgrees ==
    running /\ inbox = <<>> =>
      \A a \in Agents :
        LET e == tables[cache][a] IN
          /\ e.caps = kept[a].caps
          /\ \/ e.status = kept[a].status
             \/ kept[a].status = "none" /\ e.status = "absent"
             \/ beaten[a] /\ e.status = "online"

\* A task is routed only to agents that were online, or said so, at some moment
\* after the query was sent: the answer is never older than the question, for
\* all the caches and threads in between (bbs.py:276-287, registry.py:79-85).
RoutedToOnline ==
    \A m \in Masters : query[m].at = "done" => RoutedTo(m) \subseteq query[m].online

\* The answer to a query lists every agent that had declared the capability
\* before (registry.py:27: "all queries are served by collecting the retained
\* messages").
QueryFindsAll ==
    \A r \in responses : \A a \in query[r.to].declared : r.agents[a] # Absent
=============================================================================
