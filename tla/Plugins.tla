------------------------------ MODULE Plugins ------------------------------
(***************************************************************************)
(* The two plug-in managers: plugin_manager.py of the server, with its     *)
(* FilterChain, and PluginManager of the client's plugin.py; and the       *)
(* signing of plug-in files (plugin_signer.py).  Admins load, unload and   *)
(* reload plug-ins while other threads run messages through the filters    *)
(* that the plug-ins have registered.                                      *)
(*                                                                         *)
(* Each plug-in subscribes to a topic and registers one filter when it is  *)
(* loaded, and may raise at any point of its on_load.  Every execution of  *)
(* a plug-in class makes a new instance: a number, in the order of making. *)
(***************************************************************************)
EXTENDS Integers, FiniteSets, Sequences, SequencesExt

CONSTANTS
    Admins,        \* threads that manage plug-ins
    Handlers,      \* threads that filter messages
    AllFiles,      \* the plug-in files in the order discover_and_load takes them
    Classes,       \* per file, the names of its plug-ins in the order of dir()
    Priority,      \* per plug-in name, the priority of its filter
    NoFile,
    MaxInstances,  \* bound on the instances made
    MaxSignings    \* bound on the edits and signings of a file

Files == ToSet(AllFiles)
Names == UNION {ToSet(Classes[f]) : f \in Files}
Instances == 1..MaxInstances

ASSUME PluginsAssumption ==
    /\ AllFiles \in Seq(Files)
    /\ NoFile \notin Files
    /\ \A f \in Files : Classes[f] \in Seq(Names) /\ Classes[f] # <<>>
    /\ \A n \in Names : Priority[n] \in Int
    /\ MaxInstances \in Nat
    /\ MaxSignings \in Nat

VARIABLES
    manager,    \* which of the two managers this is: "server" or "client"
    secret,     \* PLUGIN_SIGN_SECRET is set
    content,    \* per file, its lines
    made,       \* the name of each instance made so far
    plugins,    \* _plugins: the instance of each name, 0 when there is none
    modules,    \* _modules of the server, _loaded_files of the client
    subs,       \* instances whose callback is in the client's _subscriptions
    chain,      \* the list of filters: instances in the order they are asked
    raced,      \* ghost: a filter was put in a place found before another came
    job,        \* per admin, where its call is
    pass        \* per handler, where its message is

vars == <<manager, secret, content, made, plugins, modules, subs, chain, raced,
          job, pass>>

----------------------------------------------------------------------------
\* Lines of a file.  A signature line stands for what it was computed from.
Line(kind) == [kind |-> kind, of |-> <<>>]
Code == Line("code")
Blank == Line("blank")
Note == Line("note")

\* What a signature is computed from: the signature is taken out, and with it
\* the lines that are then empty.
Kept(lines) == {k \in DOMAIN lines : lines[k].kind \notin {"blank", "sig"}}

Clean(lines) ==
    [n \in 1..Cardinality(Kept(lines)) |->
       lines[CHOOSE k \in Kept(lines) : Cardinality({l \in Kept(lines) : l <= k}) = n]]

\* sign_plugin_file: the note above the signature is not part of what is signed.
SignedFile(lines) ==
    Clean(lines) \o <<Blank, Note, [kind |-> "sig", of |-> Clean(lines)]>>

\* verify_plugin_signature: the first signature in the file is compared with
\* one of the file as it is.
Verified(lines) ==
    \E k \in DOMAIN lines :
      /\ lines[k].kind = "sig"
      /\ lines[k].of = Clean(lines)
      /\ \A l \in 1..(k - 1) : lines[l].kind # "sig"

MayLoad(f) == secret => Verified(content[f])

----------------------------------------------------------------------------
Idle == [at |-> "idle"]
PriorityOf(i) == Priority[made[i]]

\* Mutation: filters are put at the end, whatever their priority.
PlaceLast(list, i) == {Len(list) + 1}

\* bisect_left: behind a filter that is more urgent and in front of one that is
\* not.  A list that is out of order may have several such places.
Places(list, i) ==
    {k \in 1..(Len(list) + 1) :
       /\ k > 1 => PriorityOf(list[k - 1]) < PriorityOf(i)
       /\ k <= Len(list) => PriorityOf(list[k]) >= PriorityOf(i)}

\* list.sort() by priority: filters of one priority keep their order.
Rank(list, k) ==
    Cardinality({l \in DOMAIN list :
                   \/ PriorityOf(list[l]) < PriorityOf(list[k])
                   \/ PriorityOf(list[l]) = PriorityOf(list[k]) /\ l <= k})

Sorted(list) ==
    [n \in DOMAIN list |-> list[CHOOSE k \in DOMAIN list : Rank(list, k) = n]]

Init ==
    /\ manager \in {"server", "client"}
    /\ secret \in BOOLEAN
    /\ content = [f \in Files |-> <<Code, Blank, Code>>]
    /\ made = <<>>
    /\ plugins = [n \in Names |-> 0]
    /\ modules = [n \in Names |-> NoFile]
    /\ subs = {}
    /\ chain = <<>>
    /\ raced = FALSE
    /\ job = [a \in Admins |-> Idle]
    /\ pass = [h \in Handlers |-> Idle]

Tables == <<plugins, modules>>
Mode == <<manager, secret>>

----------------------------------------------------------------------------
\* Signing and editing of plug-in files, which matters when there is a secret.
Sign(f) ==
    /\ secret
    /\ Len(content[f]) < 3 + MaxSignings
    /\ content' = [content EXCEPT ![f] = SignedFile(@)]
    /\ UNCHANGED <<Mode, made, Tables, subs, chain, raced, job, pass>>

Edit(f) ==
    /\ secret
    /\ Len(content[f]) < 3 + MaxSignings
    /\ content' = [content EXCEPT ![f] = <<Code>> \o @]
    /\ UNCHANGED <<Mode, made, Tables, subs, chain, raced, job, pass>>

----------------------------------------------------------------------------
\* The client's manager has no lock: the application calls it from one thread.
MayStart(a) ==
    /\ job[a] = Idle
    /\ manager = "client" => \A b \in Admins : job[b] = Idle

\* load() of a file, and discover_and_load() or load_all() of all of them.
Load(a, files) ==
    /\ MayStart(a)
    /\ job' = [job EXCEPT ![a] = [at |-> "file", files |-> files]]
    /\ UNCHANGED <<Mode, content, made, Tables, subs, chain, raced, pass>>

\* The next file is checked and executed.  One whose signature is wrong, or
\* that raises, is left out.
NextFile(a, runs) ==
    /\ job[a].at = "file"
    /\ job[a].files # <<>>
    /\ LET f == Head(job[a].files)
           found == IF manager = "client" THEN <<Head(Classes[f])>> ELSE Classes[f]
       IN job' = [job EXCEPT ![a] =
                    [at |-> "class", files |-> Tail(job[a].files), file |-> f,
                     classes |-> IF runs /\ MayLoad(f) THEN found ELSE <<>>]]
    /\ UNCHANGED <<Mode, content, made, Tables, subs, chain, raced, pass>>

LoadEnds(a) ==
    /\ job[a].at = "file"
    /\ job[a].files = <<>>
    /\ job' = [job EXCEPT ![a] = Idle]
    /\ UNCHANGED <<Mode, content, made, Tables, subs, chain, raced, pass>>

FileEnds(a) ==
    /\ job[a].at = "class"
    /\ job[a].classes = <<>>
    /\ job' = [job EXCEPT ![a] = [at |-> "file", files |-> job[a].files]]
    /\ UNCHANGED <<Mode, content, made, Tables, subs, chain, raced, pass>>

List(n, i, f) ==
    /\ plugins' = [plugins EXCEPT ![n] = i]
    /\ modules' = [modules EXCEPT ![n] = f]

Unlist(n) ==
    /\ plugins' = [plugins EXCEPT ![n] = 0]
    /\ modules' = [modules EXCEPT ![n] = NoFile]

\* Mutation: the number of an instance is advanced once too often.
InstantiateAhead(a) ==
    /\ job[a].at = "class"
    /\ job[a].classes # <<>>
    /\ Len(made) < MaxInstances
    /\ LET n == Head(job[a].classes)
           i == Len(made) + 2
       IN /\ made' = Append(made, n)
          /\ IF manager = "server" THEN List(n, i, job[a].file) ELSE UNCHANGED Tables
          /\ job' = [job EXCEPT ![a] =
                       [at |-> "subscribe", files |-> job[a].files, file |-> job[a].file,
                        classes |-> Tail(job[a].classes), inst |-> i]]
    /\ UNCHANGED <<Mode, content, subs, chain, raced, pass>>

\* A plug-in is instantiated.  The server lists it before on_load is called.
Instantiate(a) ==
    /\ job[a].at = "class"
    /\ job[a].classes # <<>>
    /\ Len(made) < MaxInstances
    /\ LET n == Head(job[a].classes)
           i == Len(made) + 1
       IN /\ made' = Append(made, n)
          /\ IF manager = "server" THEN List(n, i, job[a].file) ELSE UNCHANGED Tables
          /\ job' = [job EXCEPT ![a] =
                       [at |-> "subscribe", files |-> job[a].files, file |-> job[a].file,
                        classes |-> Tail(job[a].classes), inst |-> i]]
    /\ UNCHANGED <<Mode, content, subs, chain, raced, pass>>

\* ctx.subscribe() and ctx.register_filter() in on_load.
Subscribe(a) ==
    /\ job[a].at = "subscribe"
    /\ subs' = subs \cup {job[a].inst}
    /\ job' = [job EXCEPT ![a].at = "filter"]
    /\ UNCHANGED <<Mode, content, made, Tables, chain, raced, pass>>

\* FilterChain.register(): the place is found, then the filter is put there.
FindPlace(a) ==
    /\ job[a].at = "filter"
    /\ manager = "server"
    /\ \E place \in Places(chain, job[a].inst) :
         job' = [job EXCEPT ![a] =
                   [at |-> "insert", files |-> @.files, file |-> @.file,
                    classes |-> @.classes, inst |-> @.inst,
                    place |-> place, length |-> Len(chain)]]
    /\ UNCHANGED <<Mode, content, made, Tables, subs, chain, raced, pass>>

InsertFilter(a) ==
    /\ job[a].at = "insert"
    /\ chain' = InsertAt(chain, job[a].place, job[a].inst)
    /\ raced' = (raced \/ job[a].length # Len(chain))
    /\ job' = [job EXCEPT ![a] =
                 [at |-> "return", files |-> @.files, file |-> @.file,
                  classes |-> @.classes, inst |-> @.inst]]
    /\ UNCHANGED <<Mode, content, made, Tables, subs, pass>>

\* The client appends the filter and sorts.  CPython empties a list while it
\* sorts it, and the key function is Python code, so that other threads run.
AppendFilter(a) ==
    /\ job[a].at = "filter"
    /\ manager = "client"
    /\ chain' = Append(chain, job[a].inst)
    /\ job' = [job EXCEPT ![a].at = "sort"]
    /\ UNCHANGED <<Mode, content, made, Tables, subs, raced, pass>>

SortBegins(a) ==
    /\ job[a].at = "sort"
    /\ chain' = <<>>
    /\ job' = [job EXCEPT ![a] =
                 [at |-> "sorting", files |-> @.files, file |-> @.file,
                  classes |-> @.classes, inst |-> @.inst, list |-> chain]]
    /\ UNCHANGED <<Mode, content, made, Tables, subs, raced, pass>>

SortEnds(a) ==
    /\ job[a].at = "sorting"
    /\ chain' = Sorted(job[a].list)
    /\ job' = [job EXCEPT ![a] =
                 [at |-> "return", files |-> @.files, file |-> @.file,
                  classes |-> @.classes, inst |-> @.inst]]
    /\ UNCHANGED <<Mode, content, made, Tables, subs, raced, pass>>

NextClass(a) ==
    job' = [job EXCEPT ![a] = [at |-> "class", files |-> job[a].files,
                               file |-> job[a].file, classes |-> job[a].classes]]

\* on_load returns.  The client lists the plug-in only now.
OnLoadReturns(a) ==
    /\ job[a].at = "return"
    /\ IF manager = "client"
         THEN List(made[job[a].inst], job[a].inst, job[a].file)
         ELSE UNCHANGED Tables
    /\ NextClass(a)
    /\ UNCHANGED <<Mode, content, made, subs, chain, raced, pass>>

\* on_load raises.  The server takes the name out of its tables, whichever
\* instance is listed there; what on_load has registered stays.
OnLoadRaises(a) ==
    /\ job[a].at \in {"subscribe", "filter", "return"}
    /\ IF manager = "server" THEN Unlist(made[job[a].inst]) ELSE UNCHANGED Tables
    /\ NextClass(a)
    /\ UNCHANGED <<Mode, content, made, subs, chain, raced, pass>>

----------------------------------------------------------------------------
\* Mutation: the filters of the plug-in are deleted from the list in place.
UnloadInPlace(a, n) ==
    /\ MayStart(a)
    /\ plugins[n] # 0
    /\ Unlist(n)
    /\ chain' = SelectSeq(chain, LAMBDA i : made[i] # n)
    /\ UNCHANGED <<Mode, content, made, subs, raced, job, pass>>

\* unload(), in the server under the lock.  unregister_all() only empties the
\* list of the context; the callback and the filter stay where they are.
Unload(a, n) ==
    /\ MayStart(a)
    /\ plugins[n] # 0
    /\ Unlist(n)
    /\ UNCHANGED <<Mode, content, made, subs, chain, raced, job, pass>>

\* reload() of the server: the path is read, the plug-in unloaded, if it still
\* is there, and the whole file loaded again.
Reload(a, n) ==
    /\ MayStart(a)
    /\ manager = "server"
    /\ modules[n] # NoFile
    /\ job' = [job EXCEPT ![a] = [at |-> "unload", name |-> n, file |-> modules[n]]]
    /\ UNCHANGED <<Mode, content, made, Tables, subs, chain, raced, pass>>

ReloadUnloads(a) ==
    /\ job[a].at = "unload"
    /\ Unlist(job[a].name)
    /\ job' = [job EXCEPT ![a] = [at |-> "file", files |-> <<job[a].file>>]]
    /\ UNCHANGED <<Mode, content, made, subs, chain, raced, pass>>

----------------------------------------------------------------------------
\* apply() of the server's chain, run_filter() of the client: the list is
\* walked by index while it may change.
Begin(h) ==
    /\ pass[h].at \in {"idle", "done"}
    /\ pass' = [pass EXCEPT ![h] = [at |-> "asking", pos |-> 1, asked |-> <<>>,
                                    due |-> ToSet(chain)]]
    /\ UNCHANGED <<Mode, content, made, Tables, subs, chain, raced, job>>

Done(h, verdict, asked) ==
    pass' = [pass EXCEPT ![h] = [at |-> "done", verdict |-> verdict, asked |-> asked,
                                 due |-> pass[h].due]]

\* A filter lets the message through, blocks it (None) or raises.  The server
\* blocks the message then; the client goes on to the next filter.
Ask(h, answer) ==
    /\ pass[h].at = "asking"
    /\ pass[h].pos <= Len(chain)
    /\ LET asked == Append(pass[h].asked, chain[pass[h].pos]) IN
         IF answer = "none" \/ (answer = "raise" /\ manager = "server")
           THEN Done(h, "blocked", asked)
           ELSE pass' = [pass EXCEPT ![h].pos = @ + 1, ![h].asked = asked]
    /\ UNCHANGED <<Mode, content, made, Tables, subs, chain, raced, job>>

Exhausted(h) ==
    /\ pass[h].at = "asking"
    /\ pass[h].pos > Len(chain)
    /\ Done(h, "passed", pass[h].asked)
    /\ UNCHANGED <<Mode, content, made, Tables, subs, chain, raced, job>>

Next ==
    \/ \E f \in Files : Sign(f) \/ Edit(f)
    \/ \E a \in Admins :
         \/ \E f \in Files : Load(a, <<f>>)
         \/ Load(a, AllFiles)
         \/ \E runs \in BOOLEAN : NextFile(a, runs)
         \/ LoadEnds(a) \/ FileEnds(a)
         \/ Instantiate(a) \/ Subscribe(a) \/ FindPlace(a) \/ InsertFilter(a)
         \/ AppendFilter(a) \/ SortBegins(a) \/ SortEnds(a)
         \/ OnLoadReturns(a) \/ OnLoadRaises(a)
         \/ \E n \in Names : Unload(a, n) \/ Reload(a, n)
         \/ ReloadUnloads(a)
    \/ \E h \in Handlers :
         \/ Begin(h) \/ Exhausted(h)
         \/ \E answer \in {"data", "none", "raise"} : Ask(h, answer)

Spec == Init /\ [][Next]_vars

----------------------------------------------------------------------------
Jobs ==
    {Idle}
      \cup [at : {"file"}, files : Seq(Files)]
      \cup [at : {"class"}, files : Seq(Files), file : Files, classes : Seq(Names)]
      \cup [at : {"subscribe", "filter", "sort", "return"}, files : Seq(Files),
            file : Files, classes : Seq(Names), inst : Instances]
      \cup [at : {"insert"}, files : Seq(Files), file : Files, classes : Seq(Names),
            inst : Instances, place : Nat \ {0}, length : Nat]
      \cup [at : {"sorting"}, files : Seq(Files), file : Files, classes : Seq(Names),
            inst : Instances, list : Seq(Instances)]
      \cup [at : {"unload"}, name : Names, file : Files]

Passes ==
    {Idle}
      \cup [at : {"asking"}, pos : Nat \ {0}, asked : Seq(Instances), due : SUBSET Instances]
      \cup [at : {"done"}, verdict : {"passed", "blocked"}, asked : Seq(Instances),
            due : SUBSET Instances]

\* Type invariant.
TypeOK ==
    /\ manager \in {"server", "client"}
    /\ secret \in BOOLEAN
    /\ made \in Seq(Names)
    /\ plugins \in [Names -> 0..Len(made)]
    /\ modules \in [Names -> Files \cup {NoFile}]
    /\ subs \subseteq 1..Len(made)
    /\ chain \in Seq(1..Len(made))
    /\ raced \in BOOLEAN
    /\ job \in [Admins -> Jobs]
    /\ pass \in [Handlers -> Passes]

\* A message that the server's chain lets through has been shown to every
\* filter that was registered when its way began, whatever plug-ins are loaded,
\* unloaded or reloaded meanwhile (plugin_manager.py:54: the list is walked by
\* index while register() inserts into it, line 42).
EveryFilterAsked ==
    \A h \in Handlers :
      /\ manager = "server"
      /\ pass[h].at = "done"
      /\ pass[h].verdict = "passed"
      => pass[h].due \subseteq ToSet(pass[h].asked)

InOrder(list) == \A k, l \in DOMAIN list : k < l => PriorityOf(list[k]) <= PriorityOf(list[l])

\* The filter of instance i is in the chain once, or in the list a sort works on.
Held(i) ==
    \/ \E k \in DOMAIN chain : \A l \in DOMAIN chain : chain[l] = i <=> l = k
    \/ \E a \in Admins : job[a].at = "sorting" /\ i \in ToSet(job[a].list)

Registering(i) ==
    \E a \in Admins : job[a].at \in {"subscribe", "filter", "insert"} /\ job[a].inst = i

\* The filter of every loaded plug-in is in the chain exactly once, and the
\* filters stand in the order of their priorities, through reloads, failed
\* loads and loads by several threads, unless two registrations of the server
\* overlapped or the client is about to sort (plugin_manager.py:41-42,
\* plugin.py:346-347).
ChainExact ==
    /\ \A n \in Names : plugins[n] # 0 /\ ~Registering(plugins[n]) => Held(plugins[n])
    /\ \/ raced
       \/ \E a \in Admins : job[a].at = "sort"
       \/ InOrder(chain)
=============================================================================
