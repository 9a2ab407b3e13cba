# A verification development for Mqtt_bbs

Mqtt_bbs is a task board and bulletin board for agents that talk to each other
over MQTT, with MariaDB behind it. This directory holds TLA+ modules that model
its core, the TLC configurations that check them on small instances, and proofs
of the most important theorems that the TLA+ proof system checks for every
instance. Paths below are relative to the repository root; `client.py` is
`Mqtt_bbs_client/client.py`, `persistence.py` is `Mqtt_bbs_server/persistence.py`,
the Rust service is `tools/board_service_rs`, the cache `tools/llm_cache_rs`.

## 1. Inventory

### The system's parts

| Part | State it keeps | Operations | Correct when |
|---|---|---|---|
| **Task board** (`persistence.py`, `mqtt_agent_runner.py`, `types.py`) | retained messages in the broker and in the table `retained_messages`; per master `_results` and the closure of the running wait; per worker `_running`, `_current_task_id` | `post_task`, `wait_task`, `cancel_task`; `start`, `on_new_task`, `claim_task`, `complete`, `stop` | a wait returns an output some capable worker produced for that task; an ended task has an output; nobody who waits misses it; every capable worker sees every task |
| **MQTT client** (`client.py`, `config.py`) | `_subscriptions`, `_connected`, the session at the broker, the heartbeat thread | `connect`, `publish`, `subscribe`, `_on_message`, heartbeats | what is published reaches those who subscribed to it |
| **Bulletin board** (`board_client.py`, the Rust service) | client: `_pending`, `_cached_token`; service: the request channel of rumqttc, `bbs_users`, `bbs_posts` | `register`, `post`, `query` and its variants; `event_loop`, `handle_*`, `publish_response` | an answer belongs to its request; an answered post is stored; subscribers hear of every post once and in order; the loop does not hang |
| **LLM response cache** (`cache.rs`) | entries, hierarchical index, frequency queues, `min_freq`, counter | `store`, `lookup`, `lookup_hkey`, `delete`, `clear`, `evict_one`, `evict_expired` | the indexes agree with the entries; the victim is the least used entry; every store ends |
| **Its pipe** (`server.rs`, `lib.rs`) | permits, instances of the pipe, bytes under way | `run`, `handle_client`, `send_request` | an answer is the answer to the caller's request; permits are kept; calls end; the daemon stays reachable |
| **Session queue** (`persistence.py`, `client.py`) | tables `session_queue` and `agent_sessions`; `_connected`, `_recovered`, `_loop_started`; the heartbeat thread | `connect`, `disconnect`, `_on_connect`, `_on_disconnect`, `subscribe`; enqueue for an offline agent, replay | what is queued is handed over, in order and not without end; who is connected is marked online |
| **Capabilities and presence** (`board_db.py`, `registry.py`, `bbs.py`; Rust `capability.rs`) | a table of agents, or dictionaries collected from retained messages and cached for a second | heartbeat, capability, status, last will; `get_agents`, queries, `post_task_routed` | the table follows what the broker retains; tasks go to agents that are online |
| **Files** (`handlers/file.rs`, `file_transfer_v2.py`) | upload sessions, chunks, hashes | init, chunk, commit, download; upload, delete | a committed file is the file that was sent |
| **Plugins** (`plugin_manager.py`, `plugin.py`, `plugin_signer.py`; `plugin_ipc.rs`) | loaded plug-ins, modules, subscriptions, filter chain | load, unload, reload, sign, verify, filter | every loaded filter is asked, once, in the order of priorities |
| **DAG, scheduler** (`dag.py`, `scheduler.py`) | nodes with status; job files, trigger memory | validate, ready tasks (`run` was removed); poll, trigger | dependencies first; one trigger per due time |
| **Rate limiters** (`rate_limiter.py`, one of the client and one of the server) | a global and per-topic token buckets | `allow`, setters, `reset`, `stats` | the rate is kept |
| **Python board service** (`board_core.py`, `board_handlers.py`) | the same tables | the same requests | superseded by the Rust service; `board_handlers.py` lacks the `def` lines of four handlers, so it does not start |
| **AgentBoard and WorkerAgent** (`bbs.py`) | retained messages; per worker `_current_task_id`, `_interventions`, `_subscribed_dynamic`; per master the results of a wait | `post_task`, `post_task_routed`, `cancel_task`, `wait_task`, `wait_all`, commands; `start`, `claim_task`, `complete`, `get_interventions`, `stop` | a wait returns its own task's output; a claim leads to one output; nothing of a completed task stays retained |
| **Rust client library** (`tools/mqtt_bbs_rs`) | as its Python counterparts | as its Python counterparts | - |
| authentication service, web UI, HTML simplifier, audit logs, start scripts | none that outlives a request | - | - |

### How they interact

Agents never call each other: all communication is MQTT messages, and what must
survive (inputs, outputs, claims, statuses) is a *retained* message, written
twice: as a row of `retained_messages` and at the broker. Python agents have two
threads, the application's and paho's; callbacks run in the second and share
closures and dictionaries with the first. The Rust service is one tokio event
loop that awaits each handler before it polls again. The bulletin board is
request/response over a response topic all clients share, with a `corr_id` to
tell answers apart. The cache is a daemon of its own, behind a named pipe.

### What is hard here

* interleavings of `wait_task` with `complete`: the database is looked at before
  the subscription exists;
* methods that make several `publish()` calls, each of them a database write and
  a packet that may fail separately, in processes that may die between two;
* broadcast execution: every worker sees every task, re-executes it after a
  restart, and overwrites what others have published;
* clean sessions: a connection that breaks forgets all subscriptions, and
  nobody subscribes again;
* topics built in two places, with and without the prefix `agent/`;
* a bounded channel filled by the loop that empties it;
* answers that arrive before the caller waits, or after it gave up;
* three indexes and a counter kept in step by hand;
* two threads of one agent that replay the same rows, and mark them delivered after
  the callback has run;
* callbacks that run inside `subscribe()`, in a thread that is in the middle of
  another callback;
* a callback that sleeps until messages have come that only its own thread can
  handle;
* a list of filters that is walked while other threads insert into it, remove from
  it, or sort it;
* buckets that are refilled, replaced and reconfigured while threads hold references
  to them;
* a length-prefixed stream that must stay in step after a message is refused, and
  permits that must survive every way a task can end.

`PROJECT.json` lists each of these hazards at its line, with the properties that
would catch it, or the reason why there is none yet.

## 2. Modules

| Module | What it is |
|---|---|
| `TaskService` | abstract specification: what `post_task`/`wait_task` promise |
| `TaskBoard` | the task board: masters, workers, broker, database, faults |
| `TaskBoardProperties` | its type invariant, invariants, action and liveness properties, the refinement of `TaskService` |
| `TaskBoardProofs` | theorems about it |
| `MCTaskBoard` | instances for TLC |
| `BoardService`, `MCBoardService` | requests to the bulletin board, and instances |
| `BoardServiceProofs` | theorems about them |
| `LlmCache`, `MCLlmCache` | the response cache, and instances |
| `CachePipe`, `MCCachePipe` | the named pipe in front of it: server, clients, framing, and instances |
| `ResponseCacheProofs` | theorems about both |
| `Session`, `MCSession` | the connection of an agent with a persistent session, its queue and its status, and instances |
| `SessionProofs` | theorems about them |
| `WorkerAgent`, `MCWorkerAgent` | masters and workers of `bbs.py`, and instances |
| `WorkerAgentProofs` | theorems about them |
| `Registry`, `MCRegistry` | the two capability registries and the queries that route tasks, and instances |
| `RegistryProofs` | theorems about them |
| `Plugins`, `MCPlugins` | the two plug-in managers, their filters and signatures, and instances |
| `PluginsProofs` | theorems about them |
| `RateLimiter`, `MCRateLimiter` | the two rate limiters, and instances |
| `RateLimiterProofs` | theorems about them |

Definitions carry the names of the code where TLA+ allows it; the map in
`PROJECT.json` gives the lines each one stands for. Definitions marked
*Mutation* are never part of a specification. Each is a plausible bug in the
definition that follows it; put in its place it makes TLC find a property
violated, which shows that the property says something about the code.

### TaskBoard

One agent has an application thread (`proc`, `job`) and a paho thread that takes
messages from `inbox` one by one. A worker's whole `claim_task` is one callback,
so a worker does not look at its inbox while it executes. Each method that
publishes puts its remaining `publish()` calls into `outbox`; `Publish(a)` makes
one of them: an upsert of the row, which may fail, and a packet into `netq`,
which the rate limiter may drop. All other agents run between two calls. The
broker processes the packets of a connection in order (`BrokerPublish`,
`BrokerSubscribe`, `BrokerDisconnect`), keeps `retained` and `subs`, and answers a
SUBSCRIBE with the retained messages in any order.

`wait_task` is five actions, because that is how it interleaves: `WaitLookup`
(the database), `WaitSubscribe` (the callback and the SUBSCRIBE), `WaitRecover`
(`_recover_retained`), `WaitReturn`, `WaitTimeout`. `holder` is the dictionary
`result_holder` of the running wait; `OnOutput` writes it in the paho thread.
Worker: `Start`, `OnNewTask` (guards of `on_new_task` and `claim_task` up to the
handler), `HandlerReturns` or `HandlerCompletes` followed by `RunnerReturns` for
the workers of `mqtt_agent_runner.py` (`SelfCompleting`), `Finish`, `Stop`.
Faults: a database statement fails (`"db"`), a message is dropped (`"drop"`), a
connection breaks (`LinkLost`, `Reconnect`), a process dies (`Crash`), each
counted against `Budget`.

Some consequences of the code are visible in the definitions: the LIKE pattern
that `_recover_retained` builds for `board/task/+/input` matches only ids of one
character, so a starting worker recovers nothing from the database;
`Prefix` decides whether publications match subscriptions at all (`Routed`);
`_on_connect` does not subscribe again.

Left out: the session queue and the online marks (`Session` has them), `post_fast`, streams of
stdout and stderr, the `on_signal` callback (it has no effect), and `wait_task`
without a timeout, which raises NameError (`persistence.py:425`).

### BoardService

A client is one caller (`phase`, `slot`, `cached`) and one paho thread (`inbox`,
`seen`). A call publishes (`Call`), then registers itself in `_pending`
(`Expect`): an answer that comes in between is dropped, as in the code. `Return`
and `Timeout` end it. The service takes one request at a time (`TakeRequest`):
the handler's database work happens, and the messages it has to publish go to
`handler`; `Publish` moves one of them into rumqttc's `channel` when there is
room, `Send` is `poll()` sending one, possible only when no handler runs. Faults:
`LinkLost` and `Crash` of the service, `ClientLinkLost` (with the repetition of an
unacknowledged request of QoS 1), database errors, timeouts.

Left out: JWTs (the Python client never sends one, so every client is
"anonymous" and `bbs_users` has one row), read-only query types other than the
count, webhooks, files, capabilities.

### LlmCache

Every request and every round of the monitor is one step: the daemon runs all
tasks on one thread and no method of `LlmCache` awaits. Kept: entries with their
access count and expiry, both indexes, `min_freq`, the counter, and `recency` for
the order of `last_access`. `BatchLookup` is its lookups, one after the other.
Left out: values and sizes, statistics nothing reads back, requests without an
effect (misses, `stats`, `ping`, entries too large). The pipe is `CachePipe`.

### CachePipe

The daemon's main loop (`main`, `permits`) acquires a permit, creates an instance
(`Acquire`, `Create`, `CreateFails`, `Retry`) and leaves it to a task: `task[i]` goes
from listening over taken (a client has opened it) to serving (`connect()` has
returned) and back to none (`Ended`). A client opens, writes, reads and closes
(`Open`, `Write`, `Read`); it may find the pipe broken (`Broken`) or drop the call
anywhere in it (`GoesAway`). `toServer[i]` is what was written and not read, in
groups of four bytes, because that is the unit the server reads a length in: when a
message is longer than the buffer, `Drain` removes one buffer of it and the next
group of *text* is taken for a length. Such a number is never below 2^29, since
JSON text has no character below a blank. `Serve` reads one message, parses it,
processes it (`applied`) and answers; what is not one whole text is answered with
an error or ends the task, whose log excerpt may cut a character in two.

The specification is called `PipeSpec`, and its parts `PipeInit`, `PipeNext` and
`PipeTypeOK`, so that one module can speak of the cache and of the pipe.

Left out: what a request does to the cache (`LlmCache`), `ping_server` (nothing calls
it), messages whose length is no multiple of four, and writes that block because
the pipe's buffer is full.

### Session

One agent, and senders that notify it. `thread` says where the application's and
the paho thread are; both go through the same steps of a replay (`Select`,
`HandRow`, `MarkRow`, `ReplayEnds`), the first from `connect()` and `subscribe()`, the
second from `on_connect`. `OnConnect`, `OnDisconnect` and `OnMessage` are the callbacks,
taken from `events` one at a time; `Disconnect`, `Close`, `LoopStopped` and
`Disconnected` are the steps of `disconnect()`, between which the loop thread still
runs. A sender's `publish()` is `Look` (is the agent offline?), `Enqueue` (the row) and
`Publish` (the packet), so the agent may connect in between. The subscription at the
broker ends with every connection (the session is a clean one), and `_on_connect`
does not renew it. Faults: `LoseLink`, `Crash`, a dropped message.

Kept from the code: rows are selected once and then handed over one by one; a row is
marked after its callback has run, and also when no callback matches it; the packet is
sent even if the row was queued, so that a message may arrive both ways. Left out: all
topics but one, more than one callback, and restarts of senders.

### WorkerAgent

The masters and workers of `bbs.py`. A method leaves the calls it has still to
make in `todo`; `Publish` and `Subscribe` make one of them, and `Subscribe` runs
the callback at once, in the same thread, with what the database holds
(`RecoverOutput`, `RecoverSignal`), before the next call. The worker's paho thread
takes one message at a time (`TakeTask`, `TakeSignal`, `TakeCommand`,
`TakeShutdown`), and only when its `todo` is empty, because `claim_task` runs the
handler and `complete()` inside the callback. `Note` enters a subscription among
those that `complete()` gives up, the handler may call `complete()` itself
(`HandlerCompletes`) before it returns or raises (`HandlerEnds`), and `Finish` is
the end of `complete()`, where subscriptions and commands are given up. A master
waits with `Wait`, `RecoverOutput`, `TakeOutput`, `WaitEnds` or `TimeOut`. Faults:
messages the rate limiter drops, `Stop`, `Crash`.

`secret` stands for `config.HMAC_SECRET`, which `config.py` does not define:
without it `post_task` raises AttributeError before it publishes anything, and
only tasks that a master publishes to one agent (`Push`, `Direct`) reach workers.
`prefixed` stands for a non-empty `TOPIC_PREFIX`, under which the subscriptions of
this module match nothing. Both are chosen in `Init`. Left out: the copies on
`v2/`, stdout and stderr, the notices on the bulletin board, and the saving of
brainstorms.

### Registry

`mode` chooses the registry: `"memory"` is `CapabilityRegistry` of `board_db.py`, whose
table every message updates; `"retain"` is `RetainCapabilityRegistry` of
`registry.py`. There a collection (`GetAgents`, `CollectForQuery`) makes a dictionary,
subscribes temporary callbacks that fill it from what the broker retains
(`Retained`: the declarations, then the statuses, each in any order), sleeps, and makes it the cache (`AppWakes`,
`PahoWakes`); `Expire` lets the second pass. The temporary callbacks are never removed,
because `unsubscribe` is given the client that `subscribe` returned, so `listening` only
grows and a heartbeat is written into every dictionary some collection still reads.
Agents connect, declare, beat, stop in two calls, disconnect or die (`Will`); a master
asks, and routes its task to those of the answer that are online (`Ask`, `AnswerQuery`,
`TakeResponse`, `TimeOut`, `Route`). Left out: a lost connection of the registry itself,
and the mirror of the table in MariaDB.

### Plugins

`manager` chooses between `plugin_manager.py` of the server and `plugin.py` of the
client. `job` says where an admin's call is: a file is read (`Load`, `NextFile`), its
classes are instantiated one by one (`Instantiate`), and each `on_load` subscribes and
registers a filter (`Subscribe`, `FindPlace`, `InsertFilter` for the server's sorted
insertion; `AppendFilter`, `SortBegins`, `SortEnds` for the client, whose list is empty
for others while CPython sorts it). `Places` are the positions `bisect_left` may return,
by what it guarantees: one in a list that is in order, and possibly several in one that
overlapping registrations have put out of order. `Sorted` is the stable sort: it moves
each filter to its rank (`Rank`). `OnLoadRaises` may happen at any point and leaves
behind what was done. `Unload` takes the plug-in out of the tables and leaves its
callback and its filter where they are, because `unregister_all()` only empties a list
of its own; `Reload` of the server is an unloading and a loading of the whole file.
`Begin`, `Ask`, `Exhausted` are a message on its way through the filters, by index, in
another thread. A file is a sequence of lines, a signature a line that stands for the
lines it was computed from (those that are `Kept`); `Sign` and `Edit` change files, and a manager with a secret
refuses those that do not verify. Left out: events and configuration of plug-ins,
`FilterChain.unregister`, which nothing calls, and `on_unload`.

### RateLimiter

`kind` chooses between the client's limiter, which makes a full bucket for every new
prefix, and the server's, which limits the prefixes it was given. `allow()` is
`Call`, `AskGlobal`, `FindBucket` or `MakeBucket`, `AskTopic`: between two of them other
threads take tokens, settings change, or `Reset` replaces the buckets, so that the
thread asks one nobody else sees (`stale`). `Consume` is a bucket's own step, under its
lock. Tokens are whole units, of which a message costs `Cost`, so that a bucket can
hold a part of a token. `used` and `mark` are ghosts: what each bucket has given since
the start of each tick. Left out: the statistics, and messages that cost more than one
token, which nobody asks for.

## 3. Runs

| Run | Module, configuration | Expectation | Question |
|---|---|---|---|
| `board_safety` | `MCTaskBoard`, `TaskBoard_safety.cfg` | holds | safety and refinement under any two faults or extra calls |
| `board_liveness` | `MCTaskBoard`, `TaskBoard_liveness.cfg` | holds | does every capable worker execute, does every wait end |
| `llm_cache` | `MCLlmCache`, `LlmCache.cfg` | holds | are the indexes exact, does every store end, is the victim right |
| `board_service` | `MCBoardService`, `BoardService.cfg` | holds | do answers and notifications match the database, with any two faults |
| `cache_pipe` | `MCCachePipe`, `CachePipe.cfg` | holds | do answers reach their callers, do calls end, does the daemon stay reachable |
| `session` | `MCSession`, `Session.cfg` | holds | what do two replaying threads do to the queue, and is a connected agent marked online |
| `worker_agent` | `MCWorkerAgent`, `WorkerAgent.cfg` | holds | do claims, cancellations, commands and waits of two tasks stay apart |
| `registry` | `MCRegistry`, `Registry.cfg` | holds | do the registries follow the broker, and are tasks routed to agents that are online |
| `plugins` | `MCPlugins`, `Plugins.cfg` | holds | is every filter in the chain once, in order, and asked |
| `rate_limiter` | `MCRateLimiter`, `RateLimiter.cfg` | holds | is the rate kept, whatever threads, setters and resets do |
| `worker_commands` | `MCWorkerAgent`, `WorkerAgent_commands.cfg` | violated | the handler of one task gets a command for another |
| `registry_query` | `MCRegistry`, `Registry_query.cfg` | violated | a query with an expired cache finds nothing |

The runs that are violated check one property each: what a comment of the
repository says. `PROJECT.json` quotes it under "findings".

### Properties

* `OutputsGenuine`: wherever an input or an output is found, in the database, the
  broker, a queue, a closure or an answer, a master posted that task and a
  capable worker called `complete()` with that output.
* `EndedHasOutput`: who reads "done", "failed" or `[ROUND_END]` finds the output,
  in the database unless a statement failed, at the broker unless a message was
  dropped.
* `NoLostWakeup`: a subscribed master with nothing under way and nothing received
  waits for a task without output.
* `OutputNeverRetracted`: an output is replaced, never removed.
* `ServiceSpec`: `TaskBoard` implements `TaskService` with `answered <- results`.
* `EveryCapableWorkerExecutes`, `WaitsEnd`: liveness, below.
* `IndexesExact`, `StoreEnds`, `EvictsLeastUsed`: the cache.
  `min_freq` may be stale (hits and deletions leave it alone), yet there is always
  something to evict at or above it, and it is the right entry. A capacity of 0,
  which the configuration admits, is excluded from `StoreEnds`: there the search
  has no end.
* `AnsweredPostIsStored`, `CountsOwnPosts`, `HeardInOrder`, `NoPostUnnoticed`: the
  bulletin board.
* `AnswersOwnRequest`, `PermitsExact`, `Reachable`, `FittingCallsEnd`: the pipe. No text
  taken for a length, and nothing a former client left in an instance, is ever
  processed or answered as somebody's request; permits are neither lost nor made up;
  the daemon, while it runs, keeps coming back to listening unless oversized calls
  hold all instances; a call whose message fits the buffer ends.
* `RepeatsBounded`, `QueueInOrder`, `QueuedIsHanded`, `OnlineWhileUp`: the session. A
  message is handed over by the broker, and at most twice per life of the process by
  replays, since each thread selects undelivered rows and marks those it selected;
  a sender's rows are first handed over in the order of their inserts; a row that was
  inserted when the callback was registered is not marked unheard; a connection that
  stays up is in the end an online status that stays.
* `AnswersOwn`, `OneOutput`, `CommandsOwn`, `NothingPilesUp`: masters and workers of
  `bbs.py`. `complete()` is called by the handler, after it and by a cancellation; the
  check and reset of `_current_task_id` makes one output of it. `CommandsOwn` holds where
  `CommandsReachOwnTask` (violated) fails: only a task that was cancelled before its
  claim leaves commands behind.
* `RegistryAgrees`, `RoutedToOnline`, and `QueryFindsAll` (violated): the registries. An
  answer may miss an agent, but who is routed to was online after the question.
* `EveryFilterAsked`, `ChainExact`: the plug-ins. `register()` inserts into the list that
  `apply()` walks, which makes it ask a filter twice, never skip one, and nothing takes
  a filter out. Two overlapping registrations of the server may put filters out of order
  (`raced`), never lose one.
* `RateKept`: the rate limiters, over every interval of the clock.

### What the code does differently

Beside the two findings, the modules contain what the code does where one would
expect something else. These are part of the definitions, so the properties above
hold in spite of them, or are stated so that they speak of the other cases.

* With the default prefix `agent/`, `publish()` puts it before `board/...` and
  `subscribe()` does not (`client.py:413`): workers see no tasks. The task board's runs
  take the empty prefix; with `Prefix = "agent/"` in `TaskBoard_liveness.cfg` TLC shows
  `EveryCapableWorkerExecutes` violated.
* `claim_task` compares a claim with the worker's own current task only
  (`persistence.py:531`), so two workers execute one task.
* A handler that completes the task itself and returns nothing has its output
  replaced by None (`mqtt_agent_runner.py:59`).
* `wait_task` without a timeout raises NameError (`persistence.py:425`), and
  `post_task` of `bbs.py` AttributeError, both over a name of the configuration.
* After a reconnect nobody subscribes again: a worker is deaf from then on
  (`persistence.py:350`), and so is the Rust service (`main.rs:77`).
* An agent that connects before it subscribes has its queued messages marked as
  delivered without a callback (`persistence.py:303`); `QueuedIsHanded` is about rows that
  came when the callback was there.
* Handlers of the Rust service wait for room in the channel that their own loop
  empties (`mqtt_handler.rs:166`): a full channel stops the service.
* All clients without a JWT are one user with one token (`register.rs:58`): who
  registers invalidates the token of the others.
* `BoardClient` names its reply topic without the prefix it subscribes with
  (`board_client.py:65`), so answers to it do not arrive when there is a prefix.
* What is left of an oversized message in the pipe is read as a length
  (`server.rs:115`): the call is never answered.
* `unsubscribe(sub1)` of the registry gets the client instead of a topic, so the
  temporary callbacks stay (`registry.py:133`).
* `unload()` of a plug-in leaves its callback and its filter in place
  (`plugin_manager.py:127`), and a plug-in file that was just signed does not verify,
  because the note above the signature was not signed (`plugin_signer.py:107`; proved as
  `SecretLoadsNothing`, section 4), although the module's docstring shows a file being
  signed and then verified.
* A message that its topic's bucket denies has used up a token of the global one.

### Bounds, and why they are enough

* **Task board**: one task, one master, one worker (two for the claim). A worker
  treats every task alike and by itself, a wait knows one task; what two tasks
  could mix up are the closures and queues, and that is what the proofs cover for
  any number. `Budget` allows any two of: each fault once, a cancellation, two
  waits, so that a wait meets what an earlier one, or a fault, left behind.
  `MaxInFlight` = 2 packets between an agent and the broker: one more lets
  publications overtake nothing, since the order of a connection is kept.
* **Board service**: client `c1` registers, posts and makes a third call, `c2`
  makes one; `ChannelCap` = 3 is the smallest channel a post fits into (the code
  has 100; the hang needs more requests then, not other ones); two faults.
  `ReplyPrefix = "agent/"` stands for clients that name the full topic in
  `reply_to`; with the empty prefix of `BoardClient` no answer arrives at all
  and the properties would hold for want of answers.
* **Cache**: four keys at capacities 0 to 3, so that a full cache of every size
  must evict; two hierarchical keys; access counts to 3, so that `min_freq` can be
  below, at and above the first queue in use. Keys are hashes: symmetric.
* **Pipe**: two instances and two clients, one of them with two calls, so that all
  instances can be busy and one is used again; a buffer of two groups, one request
  that fills it and one of twice its size, of which one buffer is drained and the
  rest leaves a length without its text; one crash, failed creation or client that
  goes away at any point.

* **Session**: one sender and two messages, one of them retained, since the replays
  treat rows alike and an order needs two; one loss of the connection, one
  `disconnect()` and one crash, each at any point, which lets both threads replay while
  the status, the queue and the subscription of three connections overlap.
* **Masters and workers**: two tasks, so that what belongs to one can reach the other;
  one worker and one master, because workers share nothing but what `TaskBoard` covers;
  one fault, one cancellation, one wait and one direct message.
* **Registries**: two agents, a master with two queries, three dictionaries (the first,
  one that is being collected while a second thread collects the next), three events of
  the agents and one restart.
* **Plug-ins**: two admins and one handler; a file with two plug-ins and one with a plug-in
  of the same name as one of them; three instances, so that one is reloaded while the
  others are in the chain; one signing or edit per file.
* **Rate limiters**: two threads, two topics of which the server limits one; a message
  costs two units, the global bucket gets one per tick, so that half a token is carried
  over; a clock of three ticks.

Deadlock is checked in the run of the rate limiters, which always go on. Elsewhere it
is not: those systems may come to rest, and faults and calls are bounded.

### Fairness

`FairSpec` of `TaskBoard` assumes weak fairness of what the operating system, the
broker and paho do by themselves: threads that can go on do, handlers return
(`claim_task` has no timeout: a handler that does not return blocks its worker,
and nothing is claimed of it), the network delivers, paho reconnects, and
a worker that died is started again. The last is up to whoever runs
`start_all.ps1`, which starts what it finds missing; without it nothing could be
said of a worker that crashed, and `EveryCapableWorkerExecutes` is about what the
retained messages then do for it. There is no fairness of `post_task`, `cancel_task`,
`wait_task`, `stop` or `WaitTimeout`: nobody has to call anything, and `WaitsEnd` says
that a wait ends without its timeout. The liveness run has crashes but no broken
connections, because a worker that reconnects has no subscriptions and stays
deaf.

`CachePipe` assumes weak fairness of each step of a call that has begun, of the main
loop (its sleep ends) and of each task: tokio runs what is ready. Nobody has to call,
creations need not fail, and nothing restarts the daemon: no script of the
repository does, so `Reachable` speaks of a running one.

`Session` assumes weak fairness of the paho thread (its callbacks and its
reconnections), of the application's method that is under way, and of a replay that
has begun. Nobody has to call `connect()`, senders need not send, and the heartbeat is
not fair, because `OnlineWhileUp` does not need it. The other modules state no
fairness: their properties are about safety.

## 4. Proofs

`TaskBoardProofs` proves, for any finite set of tasks, any masters, workers,
capabilities, prefix and budgets of faults:

* `TypeCorrect`: `Spec => []TypeOK`.
* `OutputsAreGenuine`: `Spec => []OutputsGenuine`.
* `BoardImplementsService`: `Spec => ServiceSpec`.
* `OutputsAreNeverRetracted`: `Spec => OutputNeverRetracted`.
* `EndedTasksHaveOutput`: `Spec => []EndedHasOutput`.
* `NoWakeupIsLost`: `Spec => []NoLostWakeup`.

The assumptions are `BoardAssumption` in `TaskBoard`: masters are not workers,
`Capable` pairs workers with tasks, `None` is none of the values it stands beside,
tasks are finitely many (the retained messages of a new subscription are
delivered as a finite sequence). TLC evaluates it in every run.

`TypeOK` is inductive as stated, because it ties `job` to `proc` (a master or
worker in the middle of something knows its task) and keeps the kinds of agents
apart. `OutputsGenuine` is inductive together with `TypeOK`. A weaker invariant
about answers alone would not be: an answer comes from the holder, the holder from
an inbox or from the database, the inbox from the broker's retained messages or
a queue, the queue from an outbox, and the outbox from `complete()`. So it says of
all of these stores that they hold genuine messages only (`QueuesGenuine`,
`StoresGenuine`, `WorkGenuine`, `AnswersGenuine`). `MessagesAbout(posted, produced)` is
monotone in both arguments (`MessagesAboutType`), which disposes of every action
that only adds to the history; `Kept` disposes of those that move nothing.
The refinement then needs two facts of a step: an answer was in `produced`
(`AnswersGenuine`, or `StoresGenuine` for the database), and what `Complete` adds is by
a capable worker for a posted task (`WorkGenuine`). All other steps leave
`posted`, `produced` and `results` alone.

`OutputNeverRetracted` follows from `TypeOK`: only a publication stores anything, and what
is published under the topic of an output is one (`OutputsStay`). `EndedHasOutput` is about
what is stored; its invariant `OutputsLead` is about what will be. As long as no output is
stored, the calls a method still makes have the output before the end (`Leads`), and so
have the packets of its connection, where the output may have gone ahead (`PacketsLead`).
Heads are taken, packets are appended or resent in their places, and each of these keeps
the order (`LeadsTail`, `PacketsTail`, `PacketsAppend`, `PacketsResent`). A connection that ends
may lose an output whose end is still to be published: this does no harm because only
an agent that was told to stop disconnects, and it will not be connected again with what it
left (`Connects`, `DownIsClean`). For `NoLostWakeup`, `OutputComes` says where an output that a
waiting master is subscribed to must be: in its inbox, or still to come for its SUBSCRIBE.
The second case is needed because a session keeps the topics of earlier waits: a second
wait for the same task begins subscribed, with an empty inbox. The SUBSCRIBE then has
every retained output delivered again, since the orders of a finite set list all of it
(`RetainedType`), and the broker routes what it has once routed (`SubscriptionsRouted`).

`RateLimiterProofs` proves, for any threads, topics, rates, capacities and lengths of
the clock, from `LimiterAssumption` in `RateLimiter`:

* `LimiterTypeCorrect`: `Spec => []TypeOK`.
* `RateIsKept`: `Spec => []RateKept`.

`RateKept` bounds what a bucket has given since a tick. It is not inductive: what is in
the bucket may be taken next, and so may what the time since its last refill will
bring. `PotentialKept` therefore adds to what was given what could be taken now with the
highest settings (`Level`). A `consume()` moves units from the second to the first, a
tick adds a tick's units to both sides, and setters change neither, since `Level` does not
speak of the current ones (`SettingsBounded` bounds those). A bucket the client makes is
full, which is right because nothing was taken from it before (`UnmadeUnused`), and that
in turn because a thread asks only buckets that exist (`AskedExist`). The bounds are
products, so the arithmetic that the steps need is in three lemmas of its own
(`ProductNat`, `ProductMonotone`, `ProductNext`).

`SessionProofs` proves, for any senders, messages, and numbers of losses, departures
and crashes:

* `SessionTypeCorrect`: `Spec => []TypeOK`.
* `QueuedIsHandedOver`: `Spec => []QueuedIsHanded`.
* `QueueIsInOrder`: `Spec => []QueueInOrder`.
* `RepeatsAreBounded`: `Spec => []RepeatsBounded`.

`SessionAssumption` says what the constants mean: a message stands for one call of
`publish()`, so it has one sender and is sent once. `TypeOK` is inductive together with
`ControlExact`, which says which of the two threads may be where. `QueuedIsHanded` needs
that a row a thread is about to mark was handed over (`MarkedIsHanded`); the callback
can only appear while the application is in `subscribe()`, when paho replays nothing.
For `QueueInOrder` one has to know what has been handed over when a replay is in its
middle: a replay's rows are sorted (`ReplaysSorted`), it took every earlier undelivered
row of the sender (`EarlierDelivered`), its rows are rows of the queue (`ReplaysKnown`),
and no later one of the same sender was handed over before (`NoneOvertaken`). A message
that is about to be enqueued is not in the queue yet (`SendingExact`).
`RepeatsBounded` is proved by counting: what the callback got, plus what the broker may
still bring (the message is being sent or on its way, and `StreamExact` says it is there
once) plus what each thread's replay may still hand over (`RepeatsCounted`) never
exceeds 1 + 2 (1 + crashes), and only a crash lets the last part grow again.

`WorkerAgentProofs` proves, for any masters, finite sets of workers and tasks, and
budgets:

* `AgentsTypeCorrect`: `Spec => []TypeOK`.
* `OneOutputPerClaim`: `Spec => []OneOutput`.
* `AnswersAreOwn`: `Spec => []AnswersOwn`.
* `CommandsAreOwn`: `Spec => []CommandsOwn`.
* `CompletedTasksAreCleared`: `Spec => []NothingPilesUp`.

The assumptions are `AgentsAssumption` in `WorkerAgent`. What a method has still to do is
in `todo`, so the invariants are about these sequences. `WorkExact`: of the calls of a
completion, the output comes first and what remains belongs to the current task
(`CompletionFirst`, `OwnWork`), the handler's end is the last entry (`RunLast`), and a
claim whose output is missing is still to be completed (`DueEnough`); `OneOutput` follows.
`MessagesRight` follows an output on its way, from the call that will publish it
(`OutputsRight`) through both stores and the inboxes (`StoresRight`, `InboxRight`) to the
master (`ResultsRight`), as `OutputsGenuine` does for the task board. `CommandsExact` says
which subscriptions to commands a worker without a current task can have: those that the
end of `complete()` will give up, which is in `todo` (`Followed`), and those of claims that
were cancelled before they began (`LeftOver`). For `NothingPilesUp`, each publication in
`todo` is followed by its clearing (`ClearsFollow`), so what a store holds is about a task
somebody works on or will be cleared (`PilesExact`).

`BoardServiceProofs` proves, for any finite set of clients, any numbers of calls, any
prefix, capacity of the channel and number of faults:

* `BoardTypeCorrect`: `Spec => []TypeOK`.
* `AnsweredPostsAreStored`: `Spec => []AnsweredPostIsStored`.
* `OwnPostsAreCounted`: `Spec => []CountsOwnPosts`.
* `PostsAreHeardInOrder`: `Spec => []HeardInOrder`.
* `NoPostGoesUnnoticed`: `Spec => []NoPostUnnoticed`.

The assumptions are `ServiceAssumption` and `NoneAssumption` (`None` is no answer). That
row ids stay in their range is the hard part of type correctness: requests are repeated,
so one needs that rows and requests under way are together no more than the calls that
began and the faults (`Bounded`), and that only the last call of a client is open
(`Pending`). `AnswersExact` says of every answer, in the handler, the channel, an inbox, a
slot or returned, that it was true when the call ended and still is (`Holds`); rows are
only added (`Grows`), so it stays true. `InLine` puts the notices in a line: what a client
has seen, then its inbox, then the channel, then the handler, each part ascending and
before the next (`ServiceLine`, `ClientLine`), all of them about existing rows. `Covered`
adds that nothing is missing in that line as long as nothing was cut.

`RegistryProofs` proves, for any finite set of agents, any masters, and any numbers of
dictionaries, events, queries and restarts:

* `RegistryTypeCorrect`: `Spec => []TypeOK`.
* `RegistriesAgree`: `Spec => []RegistryAgrees`.
* `TasksAreRoutedToOnline`: `Spec => []RoutedToOnline`.

The assumption is `RegistryAssumption`: agents are finitely many and no masters.
`RegistryAgrees` speaks of an empty inbox; its invariant `Agreement` speaks of any: a
dictionary that somebody will read is right about an agent when no message about it is
left (`TableAgrees`), and what a message says is what the broker retains unless a later
one corrects it (`MessagesTrue`). A new dictionary is wrong about everyone, but what the
broker retains comes with it and has a message about each agent it should
(`RetainedMessages`, from the orders of a finite set). `RoutedToOnline` needs to know
what will have been read when a query's turn comes: whoever is online by then, in the
dictionary or by the messages before the query, was so after it was sent
(`QueriesLater`). When it is sent this follows from `Agreement`; later the messages
before it only become fewer. A dictionary made while the query waits begins empty, and
what is retained comes behind the query. The collection that a query itself
starts is still empty when it is read, because the thread that would fill it sleeps
(`CollectionsExact`): so its answer names nobody, which is true and is what the
run `registry_query` finds fault with. `AnswersLater` takes the fact from the dictionary
to the answer and the call, and `Past` keeps the numbers of old queries apart from
new ones.

About the cache, `ResponseCacheProofs` proves, for any finite set of keys, any hierarchical keys, capacities and
bounds on access counts:

* `CacheTypeCorrect`: `Spec => []TypeOK`.
* `IndexesAreExact`: `Spec => []IndexesExact`.
* `EveryStoreEnds`: `Spec => []StoreEnds`.
* `LeastUsedAreEvicted`: `Spec => EvictsLeastUsed`.

The assumptions are `CacheAssumption` and `NoneAssumption` (`None`, which stands for a key
that is not cached, is no entry). `StoreEnds` says that `evict_one()` never spins on an
empty queue. That is true because of `FirstUsed`: `min_freq` may be stale, since deletions
and expiry leave it behind, but no queue in use is below it. A hit moves an entry up,
removals only empty queues, and a store lowers it to 1. So if there is an entry, which
`IndexesExact` says in a full cache, the search upwards from `min_freq` finds it. That the
victim is the oldest of its queue needs a relation between the queues and the accesses:
`AgesExact` says that `recency` has every entry once and that each queue is in its order,
and the head of a queue is then the entry whose last access is the longest ago.

Removing keys from a queue keeps the others in their order. A recursive filter would
need an induction over data, so `Without` takes the positions that stay in increasing
order (`Increasing`), and `IncreasingExact` proves by the ranks of the positions
that there is such an order; the lemmas about queues follow from it.

About the pipe it proves, for any finite set of clients, any numbers of calls,
instances and faults, and any lengths of messages below what text reads as:

* `PipeTypeCorrect`: `PipeSpec => []PipeTypeOK`.
* `PermitsAreExact`: `PipeSpec => []PermitsExact`.
* `AnswersAreOwn`: `PipeSpec => []AnswersOwnRequest`.

The assumptions are `PipeAssumption` and `AnswerAssumption` in `CachePipe` (`Nothing` is
neither a client nor an answer). `PermitInv` adds to `PipeTypeOK` and `PermitsExact` that a
call under way has its own request (`Underway`); each needs the others, since what is
written comes from the request and `permits` stays within its range because the
busy instances are counted. `AnswersOwnRequest` speaks of answers that were returned;
to keep it, one has to know where the message of a call is. `AnswerInv` says so: only
the first group in an instance may be a header (`TextsInOrder`), no header is in two
instances (`OneHeader`), a call whose message is still to be written or read has not
been processed (`AppliedOnce`), an answer belongs to a call that is settled (`Held` for
one in an instance, `OutcomesSettled` for one that was returned), and an instance is
empty when a client gets it (`Clean`). `Consumed` and `Written` are the two lemmas that
carry the argument: reading never exposes a second header, however much is drained,
and writing adds one header to an empty instance.

`PluginsProofs` proves, for any files, classes of files and priorities, any number of
admins and handlers, and any number of instances and signings:

* `PluginsTypeCorrect`: `Spec => []TypeOK`.
* `LoadedPluginsFilter`: `Spec => []ChainExact`.
* `NoFilterIsPassedOver`: `Spec => []EveryFilterAsked`.
* `SecretLoadsNothing`: `Spec => [](secret => made = <<>> /\ chain = <<>>)`.

The assumption is `PluginsAssumption` in `Plugins`: a file has a class, and priorities are
integers. `PluginsTyped` adds to `TypeOK` where calls can be: a place that was found is one
of the list it was found in, and lists of the server only grow, so that `InsertAt` is given
a position it has (`JobFits`); and the client has one call at a time (`Alone`), so that
nobody registers while its list is empty. `ChainExact` speaks of loaded plug-ins;
`PluginsExact` of every instance that some call is loading, too: no two calls have the same
one, each is in the list exactly when it has been registered (`JobExact`), nothing is there
twice, and a plug-in whose filter is missing from the list has a call that is about to
insert it or that is sorting a list with it (`ListedExact`, `AnswersFor`). The server lists an
instance before its filter comes and the client after, so both sides of that are needed.
For the order, `PluginsOrdered` says that the place a registration has found is right as
long as the list is as long as it was (`PlaceRight`): any insertion in between makes the list
longer, and then the later one is recorded as `raced`. `InsertOrdered` and `SortExact` say that inserting at
such a place and sorting give an ordered list, `InsertElements` and `SortExact` that they
add one filter and none; the latter by counting, since the ranks of the filters
number them (`RankExact`). For `EveryFilterAsked`, `MessageExact` says that a filter which was
registered when the message began its way has been asked or stands at the message's
position or behind it. Insertions move it further behind; the client, which takes
filters out while it sorts, has no such promise.

`SecretLoadsNothing` is a defect stated as a theorem: `sign_plugin_file` signs the file
without the note it adds above the signature, so every signature in a file was computed
from fewer lines than it is compared with (`Stale`), after any number of edits and
signings (`SignedIsStale`, `EditedIsStale`). A manager with a secret refuses each of these
files, and nothing is ever instantiated. It also says of the run `plugins` that what it shows
of filters it shows of managers without a secret.

Every invariant and action property of the passing runs is proved. Only model-checked:
the liveness properties (`EveryCapableWorkerExecutes`, `WaitsEnd`, `Reachable`,
`FittingCallsEnd`, `OnlineWhileUp`), because fairness and ENABLED are out of the prover's
reach. No proof speaks of a recursive operator: where the code filters, sorts or searches a
list, the model says by ranks or positions what remains in which order.

## 5. Not modelled, and the plan

What is left, in the order in which it would be added:

1. **File upload** (`handlers/file.rs`: init, chunk, commit, download, with
   repeated, missing and reordered chunks; `file_transfer_v2.py`: check and insert in
   two statements). Abstract: a committed file has all its chunks.
2. **Registry of the Rust service** (`capability.rs`). Its handlers are those of
   `board_db.py`, which `Registry` models; its TTL and its clean-up are its own. Its
   restoring from `bbs_capabilities` never happens, because `db.rs:230` selects the
   reserved word `load` without quotes.
3. **Plug-in IPC** (`plugin_ipc.rs`): one request at a time over the pipes of a child
   process, with a framing close to that of `CachePipe`.
4. **Scheduler and DAG**: the loop calls `DAG.run`, which was removed; what is left are
   `validate` and `_ready_tasks`, pure functions that nothing calls.
5. Variants of what is modelled: `board_handlers.py`, which does not start, and
   `tools/mqtt_bbs_rs`, a port whose `BoardClient` drops its event loop.

Within the modelled parts the sections above say what each module leaves out.

Not modelled and not planned: authentication, TLS and message signatures, the web UI,
the HTML simplifier, audit logs (they only record), configuration and start
scripts (their values are the constants of the modules), and modules of the Rust
service that `main.rs` does not reach.
