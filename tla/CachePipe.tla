----------------------------- MODULE CachePipe -----------------------------
(***************************************************************************)
(* The named pipe in front of the response cache (tools/llm_cache_rs):     *)
(* CacheServer::run and handle_client of server.rs, and send_request of    *)
(* CacheClient (lib.rs).                                                   *)
(*                                                                         *)
(* The main loop takes one of MaxInstances permits, creates an instance of *)
(* the pipe and leaves it to a task, which waits for a client, serves it   *)
(* until it disconnects, and returns the permit.  A client opens the pipe  *)
(* for one request, writes it, reads the answer and closes.  It never      *)
(* waits for a free instance, and never looks at its timeout.              *)
(*                                                                         *)
(* A message is its length, in four bytes, and its text.  A pipe is kept   *)
(* as the sequence of the four-byte groups that are in it, each with the   *)
(* number the server sees when it reads the group as a length: a group of  *)
(* text is some 2^29 or more, because no character of JSON is below ' '.   *)
(* Sizes count groups too.  What a request does to the cache is LlmCache.  *)
(***************************************************************************)
EXTENDS Naturals, Sequences, FiniteSets

CONSTANTS
    Clients,       \* callers of CacheClient and programs that speak its protocol
    MaxCalls,      \* bound: MaxCalls[c] calls of client c
    MaxInstances,  \* MAX_INSTANCES: 5
    MaxMsg,        \* the server's buffer: 512 KB
    Sizes,         \* lengths of requests
    MaxFaults,     \* bound: crashes, clients that go away, failed creations
    Nothing           \* no value

TextAsLength == 538976288

ASSUME PipeAssumption ==
    /\ IsFiniteSet(Clients)
    /\ MaxCalls \in [Clients -> Nat]
    /\ MaxInstances \in Nat \ {0}
    /\ MaxMsg \in 1..(TextAsLength - 1)
    /\ Sizes \subseteq 1..(TextAsLength - 1)
    /\ MaxFaults \in Nat
    /\ Nothing \notin Clients

VARIABLES
    calls,     \* calls[c]: calls c has begun
    request,   \* request[c]: what c sends in the call it is in
    stage,     \* stage[c]: how far send_request has come
    outcome,   \* history: what each finished call returned
    up,        \* is the daemon's process running
    main,      \* where the main loop of run() is
    permits,   \* permits of the semaphore
    task,      \* task[i]: what the task of instance i waits for
    peer,      \* peer[i]: the client that holds the other end, if one does
    toServer,  \* toServer[i]: groups written and not yet read
    toClient,  \* toClient[i]: answers written and not yet read
    applied,   \* history: how often process_request ran for each call
    faults     \* faults so far

client == <<calls, request, stage, outcome>>
pipes == <<task, peer, toServer, toClient>>
server == <<up, main, permits>>
pipeVars == <<client, server, pipes, applied, faults>>

-----------------------------------------------------------------------------
Instances == 1..MaxInstances
Ids == UNION {{c} \X (1..MaxCalls[c]) : c \in Clients}
Id(c) == <<c, calls[c]>>

\* CacheClient sends requests; the text of another program may be garbled.
Requests == [id : Ids, size : Sizes, text : {"request", "garbled"}]
Groups == [length : Sizes \cup {TextAsLength}, of : Requests]
Message(req) ==
    <<[length |-> req.size, of |-> req]>>
    \o [n \in 1..req.size |-> [length |-> TextAsLength, of |-> req]]

\* An answer names the call whose request was parsed, none if nothing was;
\* large: more than the megabyte a client accepts.
Answers == [id : Ids \cup {Nothing}, large : BOOLEAN]
Failed == [error |-> "failed"]
Outcomes == Answers \cup {Failed}

ASSUME AnswerAssumption == Nothing \notin Answers

Link(c) == {i \in Instances : peer[i] = c}

Fault == faults < MaxFaults /\ faults' = faults + 1

PipeInit ==
    /\ calls = [c \in Clients |-> 0]
    /\ request = [c \in Clients |-> Nothing]
    /\ stage = [c \in Clients |-> "idle"]
    /\ outcome = [id \in Ids |-> Nothing]
    /\ up = TRUE
    /\ main = "acquire"
    /\ permits = MaxInstances
    /\ task = [i \in Instances |-> "none"]
    /\ peer = [i \in Instances |-> Nothing]
    /\ toServer = [i \in Instances |-> <<>>]
    /\ toClient = [i \in Instances |-> <<>>]
    /\ applied = [id \in Ids |-> 0]
    /\ faults = 0

-----------------------------------------------------------------------------
(* Clients.                                                                *)

\* open(): an instance that waits for a client, or an error at once, whether
\* all are taken (ERROR_PIPE_BUSY) or none exists.
Open(c) ==
    /\ stage[c] = "idle"
    /\ calls[c] < MaxCalls[c]
    /\ calls' = [calls EXCEPT ![c] = @ + 1]
    /\ IF \E i \in Instances : task[i] = "listening"
       THEN \E i \in Instances :
               /\ task[i] = "listening"
               /\ task' = [task EXCEPT ![i] = "taken"]
               /\ peer' = [peer EXCEPT ![i] = c]
               /\ stage' = [stage EXCEPT ![c] = "opened"]
               /\ \E req \in Requests :
                     /\ req.id = <<c, calls[c] + 1>>
                     /\ request' = [request EXCEPT ![c] = req]
               /\ UNCHANGED outcome
       ELSE /\ outcome' = [outcome EXCEPT ![<<c, calls[c] + 1>>] = Failed]
            /\ UNCHANGED <<request, stage, task, peer>>
    /\ UNCHANGED <<server, toServer, toClient, applied, faults>>

Write(c) ==
    /\ stage[c] = "opened"
    /\ \E i \in Link(c) :
          toServer' = [toServer EXCEPT ![i] = @ \o Message(request[c])]
    /\ stage' = [stage EXCEPT ![c] = "waiting"]
    /\ UNCHANGED <<calls, request, outcome, server, task, peer, toClient,
                   applied, faults>>

\* send_request returns and its end of the pipe closes.
Returns(c, result) ==
    /\ outcome' = [outcome EXCEPT ![Id(c)] = result]
    /\ stage' = [stage EXCEPT ![c] = "idle"]
    /\ request' = [request EXCEPT ![c] = Nothing]
    /\ peer' = [i \in Instances |-> IF peer[i] = c THEN Nothing ELSE peer[i]]
    /\ UNCHANGED calls

\* The answer arrives; one of more than a megabyte is an error.
Read(c) ==
    /\ stage[c] = "waiting"
    /\ \E i \in Link(c) :
          /\ toClient[i] # <<>>
          /\ Returns(c, IF Head(toClient[i]).large THEN Failed
                        ELSE Head(toClient[i]))
    /\ UNCHANGED <<server, task, toServer, toClient, applied, faults>>

\* The other end is gone: reading or writing fails.
Broken(c) ==
    /\ stage[c] # "idle"
    /\ Link(c) = {}
    /\ Returns(c, Failed)
    /\ UNCHANGED <<server, task, toServer, toClient, applied, faults>>

\* The caller drops the call, or its process ends; before the message is
\* complete a part of it may have been written.
GoesAway(c) ==
    /\ stage[c] # "idle"
    /\ Fault
    /\ \/ UNCHANGED toServer
       \/ /\ stage[c] = "opened"
          /\ \E i \in Link(c), n \in 1..request[c].size :
                toServer' = [toServer EXCEPT
                    ![i] = @ \o SubSeq(Message(request[c]), 1, n)]
    /\ Returns(c, Failed)
    /\ UNCHANGED <<server, task, toClient, applied>>

-----------------------------------------------------------------------------
(* The daemon.                                                             *)

\* Mutation: without waiting for a permit.
AcquireAtOnce ==
    /\ up /\ main = "acquire"
    /\ permits' = permits - 1
    /\ main' = "create"
    /\ UNCHANGED <<client, up, pipes, applied, faults>>

Acquire ==
    /\ up /\ main = "acquire"
    /\ permits > 0
    /\ permits' = permits - 1
    /\ main' = "create"
    /\ UNCHANGED <<client, up, pipes, applied, faults>>

\* Nothing tells instances apart: a new one gets the first free number.
Create ==
    /\ up /\ main = "create"
    /\ \E i \in Instances :
          /\ task[i] = "none"
          /\ \A j \in 1..(i - 1) : task[j] # "none"
          /\ task' = [task EXCEPT ![i] = "listening"]
    /\ main' = "acquire"
    /\ UNCHANGED <<client, up, permits, peer, toServer, toClient, applied,
                   faults>>

\* create() fails; the loop sleeps, still with its permit.
CreateFails ==
    /\ up /\ main = "create"
    /\ Fault
    /\ main' = "retry"
    /\ UNCHANGED <<client, up, permits, pipes, applied>>

\* Mutation: the permit of a failed creation is forgotten.
RetryForgetting ==
    /\ up /\ main = "retry"
    /\ main' = "acquire"
    /\ UNCHANGED <<client, up, permits, pipes, applied, faults>>

\* continue: the permit goes out of scope.
Retry ==
    /\ up /\ main = "retry"
    /\ permits' = permits + 1
    /\ main' = "acquire"
    /\ UNCHANGED <<client, up, pipes, applied, faults>>

\* Mutation: the instance is kept for the next client, with what is in it.
EndedUncleaned(i) ==
    /\ task' = [task EXCEPT ![i] = "none"]
    /\ peer' = [peer EXCEPT ![i] = Nothing]
    /\ UNCHANGED <<toServer, toClient>>
    /\ permits' = permits + 1

\* The task of instance i ends: the pipe is closed, what was in it is lost,
\* and the permit returned.
Ended(i) ==
    /\ task' = [task EXCEPT ![i] = "none"]
    /\ peer' = [peer EXCEPT ![i] = Nothing]
    /\ toServer' = [toServer EXCEPT ![i] = <<>>]
    /\ toClient' = [toClient EXCEPT ![i] = <<>>]
    /\ permits' = permits + 1

\* connect() returns; it may report an error when the client is gone again.
Connected(i) ==
    /\ task[i] = "taken"
    /\ \/ /\ task' = [task EXCEPT ![i] = "serving"]
          /\ UNCHANGED <<permits, peer, toServer, toClient>>
       \/ peer[i] = Nothing /\ Ended(i)
    /\ UNCHANGED <<client, up, main, applied, faults>>

\* handle_client reads a length, then that many groups; when it is more than
\* the buffer holds, as many as the buffer holds.
Announced(i) == Head(toServer[i]).length
ToRead(i) == IF Announced(i) > MaxMsg THEN MaxMsg ELSE Announced(i)
Complete(i) == toServer[i] # <<>> /\ Len(toServer[i]) > ToRead(i)
Rest(i) == [toServer EXCEPT ![i] = SubSeq(@, ToRead(i) + 2, Len(@))]

\* Mutation: a message that fills the buffer is taken for too large.
DrainFull(i) ==
    /\ task[i] = "serving"
    /\ Complete(i)
    /\ Announced(i) >= MaxMsg
    /\ toServer' = Rest(i)
    /\ UNCHANGED <<client, server, task, peer, toClient, applied, faults>>

\* A message too large is dropped, no answer given, and the next group taken
\* for a length.
Drain(i) ==
    /\ task[i] = "serving"
    /\ Complete(i)
    /\ Announced(i) > MaxMsg
    /\ toServer' = Rest(i)
    /\ UNCHANGED <<client, server, task, peer, toClient, applied, faults>>

\* send_response, which fails when nobody is there to read.
Respond(i, answer) ==
    IF peer[i] = Nothing
    THEN Ended(i)
    ELSE /\ toClient' = [toClient EXCEPT ![i] = Append(@, answer)]
         /\ toServer' = Rest(i)
         /\ UNCHANGED <<permits, task, peer>>

\* A message is read, parsed and processed, and the answer sent.  What was
\* read is a request when it is one whole text; of anything else the excerpt
\* for the log may be cut in the middle of a character, which ends the task.
Serve(i) ==
    /\ task[i] = "serving"
    /\ Complete(i)
    /\ Announced(i) <= MaxMsg
    /\ LET req == Head(toServer[i]).of
           text == SubSeq(toServer[i], 2, ToRead(i) + 1)
       IN IF req.text = "request" /\ text = Tail(Message(req))
          THEN /\ applied' = [applied EXCEPT ![req.id] = @ + 1]
               /\ \E large \in BOOLEAN :
                     Respond(i, [id |-> req.id, large |-> large])
          ELSE /\ Respond(i, [id |-> Nothing, large |-> FALSE]) \/ Ended(i)
               /\ UNCHANGED applied
    /\ UNCHANGED <<client, up, main, faults>>

\* Mutation: the task of a client that left in the middle of a message waits
\* for the rest.
DisconnectedBetween(i) ==
    /\ task[i] = "serving"
    /\ peer[i] = Nothing
    /\ toServer[i] = <<>>
    /\ Ended(i)
    /\ UNCHANGED <<client, up, main, applied, faults>>

\* read_exact fails: the client is gone and what it left is not enough.
Disconnected(i) ==
    /\ task[i] = "serving"
    /\ peer[i] = Nothing
    /\ ~Complete(i)
    /\ Ended(i)
    /\ UNCHANGED <<client, up, main, applied, faults>>

Crash ==
    /\ up
    /\ Fault
    /\ up' = FALSE
    /\ task' = [i \in Instances |-> "none"]
    /\ peer' = [i \in Instances |-> Nothing]
    /\ toServer' = [i \in Instances |-> <<>>]
    /\ toClient' = [i \in Instances |-> <<>>]
    /\ main' = "acquire"
    /\ permits' = MaxInstances
    /\ UNCHANGED <<client, applied>>

Restart ==
    /\ ~up
    /\ up' = TRUE
    /\ UNCHANGED <<client, main, permits, pipes, applied, faults>>

-----------------------------------------------------------------------------
ClientStep(c) == Open(c) \/ Write(c) \/ Read(c) \/ Broken(c) \/ GoesAway(c)
MainStep == Acquire \/ Create \/ CreateFails \/ Retry
TaskStep(i) == Connected(i) \/ Drain(i) \/ Serve(i) \/ Disconnected(i)

PipeNext ==
    \/ \E c \in Clients : ClientStep(c)
    \/ MainStep
    \/ \E i \in Instances : TaskStep(i)
    \/ Crash \/ Restart

\* A call that began goes on and the runtime runs every task that can; nobody
\* has to make a call, and nothing in the repository starts the daemon again.
Fairness ==
    /\ \A c \in Clients : /\ WF_pipeVars(Write(c)) /\ WF_pipeVars(Read(c))
                          /\ WF_pipeVars(Broken(c))
    /\ WF_pipeVars(Acquire \/ Create \/ Retry)
    /\ \A i \in Instances : WF_pipeVars(TaskStep(i))

PipeSpec == PipeInit /\ [][PipeNext]_pipeVars
FairSpec == PipeSpec /\ Fairness

-----------------------------------------------------------------------------
(* Properties.                                                             *)

\* Every variable holds values of its kind.
PipeTypeOK ==
    /\ calls \in [Clients -> Nat]
    /\ \A c \in Clients : calls[c] <= MaxCalls[c]
    /\ request \in [Clients -> Requests \cup {Nothing}]
    /\ stage \in [Clients -> {"idle", "opened", "waiting"}]
    /\ outcome \in [Ids -> Outcomes \cup {Nothing}]
    /\ up \in BOOLEAN
    /\ main \in {"acquire", "create", "retry"}
    /\ permits \in 0..MaxInstances
    /\ task \in [Instances -> {"none", "listening", "taken", "serving"}]
    /\ peer \in [Instances -> Clients \cup {Nothing}]
    /\ toServer \in [Instances -> Seq(Groups)]
    /\ toClient \in [Instances -> Seq(Answers)]
    /\ applied \in [Ids -> Nat]
    /\ faults \in 0..MaxFaults

\* An answer is the answer to the caller's own request, which the daemon has
\* processed exactly once, whoever used the instance before, whatever was left
\* in it and whichever text was taken for a length; and no request is processed
\* twice, answered or not.
AnswersOwnRequest ==
    \A id \in Ids :
        /\ applied[id] <= 1
        /\ outcome[id] \in Answers =>
               \/ outcome[id].id = id /\ applied[id] = 1
               \/ outcome[id].id = Nothing /\ applied[id] = 0

\* No permit is lost or made up: each is in the semaphore, with the main loop or
\* with the task of an instance.
PermitsExact ==
    permits + (IF main = "acquire" THEN 0 ELSE 1)
            + Cardinality({i \in Instances : task[i] # "none"}) = MaxInstances

\* The calls that wait for an answer to a message too large for the server.
Stuck == {c \in Clients : stage[c] = "waiting" /\ request[c].size > MaxMsg}

\* While it runs the daemon is always reachable again, after failed creations and
\* clients that left anywhere in a message, and so it is once restarted; only
\* messages too large can keep all instances busy for ever.
Reachable ==
    []<>(\/ ~up
         \/ \E i \in Instances : task[i] = "listening"
         \/ Cardinality(Stuck) >= MaxInstances)

\* A call whose message the server's buffer holds ends.
FittingCallsEnd ==
    \A c \in Clients :
        (stage[c] # "idle" /\ request[c].size <= MaxMsg) ~> (stage[c] = "idle")
=============================================================================
