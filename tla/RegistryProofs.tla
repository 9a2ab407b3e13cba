--------------------------- MODULE RegistryProofs ---------------------------
(***************************************************************************)
(* Proofs about the capability registries and the routing of tasks, for    *)
(* any finite set of agents, any masters and any numbers of dictionaries,  *)
(* events, queries and restarts.                                           *)
(***************************************************************************)
EXTENDS Registry, FiniteSetTheorems, SequenceTheorems, TLAPS

\* What is collected is collected while the registry runs, in dictionaries that
\* nobody else reads.  The thread that handles messages collects nothing.
CollectionsExact ==
    /\ ~running => /\ inbox = <<>> /\ tables = <<Empty>> /\ cache = 1
                   /\ \A t \in {"app", "paho"} : collecting[t] = Resting
    /\ \A t \in {"app", "paho"} : collecting[t] # Resting => collecting[t].table # cache
    /\ collecting["app"] # Resting /\ collecting["paho"] # Resting
         => collecting["app"].table # collecting["paho"].table
    /\ collecting["paho"] # Resting => tables[collecting["paho"].table] = Empty

Tells(n, what, a) == n.what = what /\ n.about = a
Silent(s, what, a) == \A i \in DOMAIN s : ~Tells(s[i], what, a)
Newest(s, i) == \A j \in DOMAIN s : i < j => ~Tells(s[j], "status", s[i].about)

\* What the messages that are not handled yet say is what the broker retains,
\* unless a later one corrects it.
MessagesTrue(s, kp, bt) ==
    \A i \in DOMAIN s :
      /\ s[i].what = "caps" => kp[s[i].about].caps
      /\ s[i].what = "status" /\ Newest(s, i) => s[i].value = kp[s[i].about].status
      /\ s[i].what = "beat" /\ Newest(s, i) => bt[s[i].about]

Matches(e, k, b) == \/ e.status = k.status
                    \/ k.status = "none" /\ e.status = "absent"
                    \/ b /\ e.status = "online"

\* A dictionary is right about an agent when no message about it is left.
TableAgrees(table, s, kp, bt) ==
    \A a \in Agents :
      /\ Silent(s, "caps", a) => table[a].caps = kp[a].caps
      /\ Silent(s, "status", a) => Matches(table[a], kp[a], bt[a])

Agreement ==
    /\ \A a \in Agents : life[a] # "down" \/ kept[a].caps => kept[a].status # "none"
    /\ running => /\ MessagesTrue(inbox, kept, beaten)
                  /\ \A i \in Read : TableAgrees(tables[i], inbox, kept, beaten)

Online(table) == {a \in Agents : table[a].status = "online"}
NoneBefore(s, k, a) == \A i \in 1..(k - 1) : ~Tells(s[i], "status", a)

\* Who is online in a dictionary when the message at k is reached was so after
\* that message was sent: on, if it is not only said before.
TableLater(table, s, k, on) ==
    \A a \in Agents : NoneBefore(s, k, a) /\ table[a].status = "online" => a \in on
MessagesLater(s, k, on) ==
    \A i \in 1..(k - 1) :
      /\ s[i].what \in {"status", "beat"} /\ s[i].value = "online"
      /\ \A j \in (i + 1)..(k - 1) : ~Tells(s[j], "status", s[i].about)
      => s[i].about \in on

Asks(n, q) == n.what = "query" /\ q[n.about].at = "waiting" /\ n.corr = q[n.about].corr

Later(s, q, table) ==
    \A k \in DOMAIN s : Asks(s[k], q) =>
      /\ MessagesLater(s, k, q[s[k].about].online)
      /\ TableLater(table, s, k, q[s[k].about].online)

QueriesLater == \A i \in Read : Later(inbox, query, tables[i])

\* Queries are not from the future, and answers are about who is still waiting.
Past(s, q) ==
    \A k \in DOMAIN s : s[k].what = "query" => s[k].corr <= q[s[k].about].corr

AnswersLater ==
    /\ Past(inbox, query)
    /\ \A r \in responses :
         query[r.to].at = "waiting" /\ Online(r.agents) \subseteq query[r.to].online
    /\ \A m \in Masters : query[m].at = "done" =>
         Online(query[m].answer) \subseteq query[m].online

RoutingExact == QueriesLater /\ AnswersLater
-----------------------------------------------------------------------------
(* Sequences.                                                              *)

\* What is left when the head is taken.
LEMMA TailElements ==
    ASSUME NEW S, NEW s \in Seq(S), s # <<>>
    PROVE  /\ Head(s) \in S /\ Head(s) = s[1] /\ 1 \in DOMAIN s
           /\ Tail(s) \in Seq(S) /\ Len(Tail(s)) = Len(s) - 1
           /\ \A i \in DOMAIN Tail(s) :
                i \in Nat /\ i + 1 \in DOMAIN s /\ Tail(s)[i] = s[i + 1]
           /\ \A i \in DOMAIN s : i # 1 => i - 1 \in DOMAIN Tail(s)
OBVIOUS

\* What a sequence holds when something was appended.
LEMMA AppendElements ==
    ASSUME NEW S, NEW s \in Seq(S), NEW e \in S
    PROVE  /\ Append(s, e) \in Seq(S) /\ Len(Append(s, e)) = Len(s) + 1
           /\ \A i \in DOMAIN Append(s, e) :
                \/ i \in DOMAIN s /\ Append(s, e)[i] = s[i]
                \/ i = Len(s) + 1 /\ Append(s, e)[i] = e
           /\ \A i \in DOMAIN s : i \in DOMAIN Append(s, e) /\ Append(s, e)[i] = s[i]
OBVIOUS

\* What a sequence holds when others were put before it.
LEMMA ConcatElements ==
    ASSUME NEW S, NEW r \in Seq(S), NEW s \in Seq(S)
    PROVE  /\ r \o s \in Seq(S) /\ Len(r \o s) = Len(r) + Len(s)
           /\ \A i \in DOMAIN r : i \in DOMAIN (r \o s) /\ (r \o s)[i] = r[i]
           /\ \A i \in DOMAIN (r \o s) :
                \/ i \in DOMAIN r /\ (r \o s)[i] = r[i]
                \/ i - Len(r) \in DOMAIN s /\ (r \o s)[i] = s[i - Len(r)]
           /\ \A i \in DOMAIN s : i + Len(r) \in DOMAIN (r \o s) /\ (r \o s)[i + Len(r)] = s[i]
OBVIOUS

\* The orders of a finite set are sequences of its elements.
LEMMA OrdersAreSequences ==
    ASSUME NEW S, IsFiniteSet(S), NEW order \in SetToSeqs(S)
    PROVE  order \in Seq(S)
<1>1. Cardinality(S) \in Nat
  BY FS_CardinalityType
<1> QED
  BY <1>1 DEF SetToSeqs

\* ... in which each of its elements occurs.
LEMMA OrdersAreComplete ==
    ASSUME NEW S, IsFiniteSet(S), NEW order \in SetToSeqs(S), NEW e \in S
    PROVE  \E i \in DOMAIN order : order[i] = e
<1> DEFINE n == Cardinality(S)
<1>1. n \in Nat
  BY FS_CardinalityType
<1>2. order \in [1..n -> S] /\ \A i, j \in 1..n : i # j => order[i] # order[j]
  BY DEF SetToSeqs
<1>3. IsFiniteSet(1..n) /\ Cardinality(1..n) = n
  BY <1>1, FS_Interval
<1>4. order \in Injection(1..n, S)
  BY <1>2 DEF Injection, IsInjective
<1>5. order \in Surjection(1..n, S)
  BY <1>3, <1>4, FS_Injection
<1> QED
  BY <1>2, <1>5 DEF Surjection

-----------------------------------------------------------------------------
(* Messages.                                                               *)

\* The kinds of messages.
LEMMA MessageKinds ==
    ASSUME NEW n \in Notices \cup Queries
    PROVE  \/ n.what = "caps" /\ n.about \in Agents /\ n \in Notices
           \/ n.what = "status" /\ n.about \in Agents /\ n.value \in Statuses /\ n \in Notices
           \/ n.what = "beat" /\ n.about \in Agents /\ n.value = "online" /\ n \in Notices
           \/ /\ n.what = "query" /\ n.about \in Masters /\ n.corr \in 1..MaxQueries
              /\ n \in Queries
  BY DEF Notices, Queries

\* The messages of agents.
LEMMA NewsKinds ==
    ASSUME NEW a \in Agents
    PROVE  /\ News(a, "caps", "declared") \in Notices
           /\ \A v \in Statuses : News(a, "status", v) \in Notices
           /\ News(a, "beat", "online") \in Notices
  BY DEF Notices, News

\* What the broker retains is true, and says something about everyone it should.
LEMMA RetainedMessages ==
    ASSUME TypeOK, NEW retained \in Retained
    PROVE  /\ retained \in Seq(Notices \cup Queries)
           /\ \A i \in DOMAIN retained :
                \/ retained[i].what = "caps" /\ kept[retained[i].about].caps
                \/ /\ retained[i].what = "status"
                   /\ retained[i].value = kept[retained[i].about].status
           /\ \A a \in Agents : /\ kept[a].caps => ~Silent(retained, "caps", a)
                                /\ kept[a].status # "none" => ~Silent(retained, "status", a)
<1>1. PICK declared \in SetToSeqs(Declared), known \in SetToSeqs(Known) :
        retained = Declarations(declared) \o Reports(known)
  BY DEF Retained
<1>2. /\ IsFiniteSet(Declared) /\ IsFiniteSet(Known)
      /\ Declared \subseteq Agents /\ Known \subseteq Agents
  BY RegistryAssumption, FS_Subset DEF Declared, Known
<1>3. declared \in Seq(Declared) /\ known \in Seq(Known)
  BY <1>2, OrdersAreSequences
<1> DEFINE c == Declarations(declared)
           s == Reports(known)
<1>4. ASSUME NEW i \in DOMAIN declared
      PROVE  /\ c[i] \in Notices /\ c[i].what = "caps" /\ c[i].about = declared[i]
             /\ declared[i] \in Agents /\ kept[declared[i]].caps
  <2>1. declared[i] \in Declared /\ declared[i] \in Agents
    BY <1>2, <1>3
  <2>2. c[i] = News(declared[i], "caps", "declared")
    BY DEF Declarations
  <2>3. News(declared[i], "caps", "declared") \in Notices
    BY <2>1, NewsKinds
  <2>4. c[i].what = "caps" /\ c[i].about = declared[i]
    BY <2>2 DEF News
  <2> HIDE DEF c
  <2> QED  BY <2>1, <2>2, <2>3, <2>4 DEF Declared
<1>5. ASSUME NEW i \in DOMAIN known
      PROVE  /\ s[i] \in Notices /\ s[i].what = "status" /\ s[i].about = known[i]
             /\ s[i].value = kept[known[i]].status /\ known[i] \in Agents
  <2>1. known[i] \in Known /\ known[i] \in Agents
    BY <1>2, <1>3
  <2>2. kept[known[i]].status \in Statuses
    BY <2>1 DEF TypeOK, Known
  <2>3. s[i] = News(known[i], "status", kept[known[i]].status)
    BY DEF Reports
  <2>4. News(known[i], "status", kept[known[i]].status) \in Notices
    BY <2>1, <2>2, NewsKinds
  <2>5. s[i].what = "status" /\ s[i].about = known[i] /\ s[i].value = kept[known[i]].status
    BY <2>3 DEF News
  <2> HIDE DEF s
  <2> QED  BY <2>1, <2>3, <2>4, <2>5
<1>6. DOMAIN c = 1..Len(declared) /\ DOMAIN s = 1..Len(known)
      /\ Len(declared) \in Nat /\ Len(known) \in Nat
  BY <1>3 DEF Declarations, Reports
<1>7. c \in Seq(Notices \cup Queries) /\ s \in Seq(Notices \cup Queries)
      /\ DOMAIN c = DOMAIN declared /\ DOMAIN s = DOMAIN known
  <2>1. /\ c = [i \in 1..Len(declared) |-> c[i]] /\ s = [i \in 1..Len(known) |-> s[i]]
        /\ DOMAIN declared = 1..Len(declared) /\ DOMAIN known = 1..Len(known)
    BY <1>3 DEF Declarations, Reports
  <2> HIDE DEF c, s
  <2> QED  BY <1>4, <1>5, <1>6, <2>1
<1>8. retained = c \o s
  BY <1>1
<1> HIDE DEF c, s
<1>9. retained \in Seq(Notices \cup Queries)
  BY <1>7, <1>8, ConcatElements
<1>10. ASSUME NEW i \in DOMAIN retained
       PROVE  \/ retained[i].what = "caps" /\ kept[retained[i].about].caps
              \/ retained[i].what = "status" /\ retained[i].value = kept[retained[i].about].status
  <2>1. CASE \E j \in DOMAIN declared : retained[i] = c[j]
    BY <1>4, <2>1
  <2>2. CASE \E j \in DOMAIN known : retained[i] = s[j]
    BY <1>5, <2>2
  <2>3. i \in DOMAIN (c \o s)
    BY <1>8
  <2>4. \/ i \in DOMAIN c /\ (c \o s)[i] = c[i]
        \/ i - Len(c) \in DOMAIN s /\ (c \o s)[i] = s[i - Len(c)]
    BY <1>7, <2>3, ConcatElements
  <2> QED  BY <1>7, <1>8, <2>1, <2>2, <2>4
<1>11. ASSUME NEW a \in Agents, kept[a].caps PROVE ~Silent(retained, "caps", a)
  <2>1. PICK i \in DOMAIN declared : declared[i] = a
    BY <1>2, <1>11, OrdersAreComplete DEF Declared
  <2>2. i \in DOMAIN (c \o s) /\ (c \o s)[i] = c[i]
    BY <1>7, ConcatElements
  <2> QED  BY <1>4, <1>8, <2>1, <2>2 DEF Silent, Tells
<1>12. ASSUME NEW a \in Agents, kept[a].status # "none" PROVE ~Silent(retained, "status", a)
  <2>1. PICK i \in DOMAIN known : known[i] = a
    BY <1>2, <1>12, OrdersAreComplete DEF Known
  <2>2. i + Len(c) \in DOMAIN (c \o s) /\ (c \o s)[i + Len(c)] = s[i]
    BY <1>7, ConcatElements
  <2> QED  BY <1>5, <1>8, <2>1, <2>2 DEF Silent, Tells
<1> QED  BY <1>9, <1>10, <1>11, <1>12

\* What a message of an agent says.
LEMMA NoticeFields ==
    ASSUME NEW n \in Notices
    PROVE  /\ n.about \in Agents /\ n.what \in {"caps", "status", "beat"}
           /\ n.what # "caps" => n.value \in Statuses
           /\ n.what = "beat" => n.value = "online"
  BY DEF Notices, Statuses

-----------------------------------------------------------------------------
(* Types.                                                                  *)

Calls == [at : {"idle", "waiting", "done"}, corr : 0..MaxQueries, answer : Tables,
          online : SUBSET Agents, declared : SUBSET Agents]
All == Notices \cup Queries

\* What masters are told about who is online changes nothing else of their calls.
QueriesGrow ==
    \A m \in Masters : /\ query'[m].at = query[m].at /\ query'[m].corr = query[m].corr
                       /\ query'[m].answer = query[m].answer
                       /\ query[m].online \subseteq query'[m].online

\* What a message says is what it changes.
Announces(n, kp, bt, kp2, bt2) ==
    \A a \in Agents :
       /\ ~Tells(n, "caps", a) => kp2[a].caps = kp[a].caps
       /\ ~Tells(n, "status", a) => kp2[a].status = kp[a].status /\ (bt[a] => bt2[a])
       /\ Tells(n, "caps", a) => kp2[a].caps
       /\ Tells(n, "status", a) => n.value = kp2[a].status
       /\ Tells(n, "beat", a) => bt2[a]

Heard(n) ==
    /\ inbox' = IF running THEN Append(inbox, n) ELSE inbox
    /\ kept' \in [Agents -> [caps : BOOLEAN, status : Statuses \cup {"none"}]]
    /\ beaten' \in [Agents -> BOOLEAN]
    /\ Announces(n, kept, beaten, kept', beaten')

\* A call of which another set of agents is said to be online.
LEMMA WithOnline ==
    ASSUME NEW A, NEW C, NEW T, NEW O, NEW D, NEW o \in O,
           NEW q \in [at : A, corr : C, answer : T, online : O, declared : D]
    PROVE  /\ [q EXCEPT !.online = o] \in [at : A, corr : C, answer : T, online : O, declared : D]
           /\ [q EXCEPT !.online = o].at = q.at /\ [q EXCEPT !.online = o].corr = q.corr
           /\ [q EXCEPT !.online = o].answer = q.answer
           /\ [q EXCEPT !.online = o].online = o
  OBVIOUS

\* What becomes of the calls when an agent is heard.
LEMMA SeenType ==
    ASSUME TypeOK, NEW as \in SUBSET Agents, SeenOnline(as)
    PROVE  query' \in [Masters -> Calls] /\ QueriesGrow
<1>1. query \in [Masters -> Calls]
  BY DEF TypeOK, Calls
<1>2. ASSUME NEW m \in Masters
      PROVE  /\ query'[m] \in Calls
             /\ query'[m].at = query[m].at /\ query'[m].corr = query[m].corr
             /\ query'[m].answer = query[m].answer /\ query[m].online \subseteq query'[m].online
  <2>1. query'[m] = IF query[m].at = "waiting" THEN [query[m] EXCEPT !.online = @ \cup as] ELSE query[m]
    BY DEF SeenOnline
  <2>2. PICK q \in Calls : q = query[m]
    BY <1>1
  <2>3. PICK p \in Calls : /\ p = [q EXCEPT !.online = @ \cup as]
                           /\ p.at = q.at /\ p.corr = q.corr /\ p.answer = q.answer
                           /\ q.online \subseteq p.online
    <3>1. q \in [at : {"idle", "waiting", "done"}, corr : 0..MaxQueries, answer : Tables,
                 online : SUBSET Agents, declared : SUBSET Agents]
      BY DEF Calls
    <3>2. q.online \cup as \in SUBSET Agents
      BY <3>1
    <3>3. PICK o \in SUBSET Agents : o = q.online \cup as
      BY <3>2
    <3>4. [q EXCEPT !.online = @ \cup as] = [q EXCEPT !.online = o]
      BY <3>3
    <3>5. PICK p : p = [q EXCEPT !.online = o]
      OBVIOUS
    <3>6. /\ p \in Calls /\ p.at = q.at /\ p.corr = q.corr /\ p.answer = q.answer
          /\ p.online = o
      BY <3>1, <3>5, WithOnline DEF Calls
    <3> QED  BY <3>3, <3>4, <3>5, <3>6
  <2>4. query'[m] = p \/ query'[m] = q
    BY <2>1, <2>2, <2>3
  <2> QED  BY <2>2, <2>3, <2>4
<1>3. query' = [m \in Masters |-> query'[m]]
  BY DEF SeenOnline
<1> QED  BY <1>2, <1>3 DEF QueriesGrow

\* A record of a function is changed.
LEMMA FieldType ==
    ASSUME NEW A, NEW S, NEW T, NEW f \in [A -> [caps : S, status : T]], NEW a \in A,
           NEW g, \/ \E s \in S : g = [f EXCEPT ![a].caps = s]
                  \/ \E t \in T : g = [f EXCEPT ![a].status = t]
    PROVE  g \in [A -> [caps : S, status : T]]
<1>1. CASE \E s \in S : g = [f EXCEPT ![a].caps = s]
  BY <1>1
<1>2. CASE \E t \in T : g = [f EXCEPT ![a].status = t]
  BY <1>2
<1> QED  BY <1>1, <1>2

\* A new status.
LEMMA SaysHeard ==
    ASSUME TypeOK, NEW a \in Agents, NEW v \in Statuses, Says(a, v)
    PROVE  /\ \E n \in Notices : Heard(n)
           /\ query' \in [Masters -> Calls] /\ QueriesGrow
           /\ \A b \in Agents : kept'[b].caps = kept[b].caps
           /\ \A b \in Agents : kept[b].status # "none" => kept'[b].status # "none"
           /\ kept'[a].status # "none"
<1> DEFINE n == News(a, "status", v)
<1>1. n \in Notices /\ n.what = "status" /\ n.about = a /\ n.value = v
  BY NewsKinds DEF News
<1>2. /\ kept' = [kept EXCEPT ![a].status = v] /\ beaten' = [beaten EXCEPT ![a] = FALSE]
      /\ inbox' = IF running THEN Append(inbox, n) ELSE inbox
      /\ SeenOnline(IF v = "online" THEN {a} ELSE {})
  BY DEF Says, Sent
<1> HIDE DEF n
<1>3. kept' \in [Agents -> [caps : BOOLEAN, status : Statuses \cup {"none"}]]
  <2>1. PICK t \in Statuses \cup {"none"} : t = v
    OBVIOUS
  <2>2. kept \in [Agents -> [caps : BOOLEAN, status : Statuses \cup {"none"}]]
    BY DEF TypeOK
  <2> QED  BY <1>2, <2>1, <2>2, FieldType
<1>4. beaten' \in [Agents -> BOOLEAN]
  BY <1>2 DEF TypeOK
<1>5. \A b \in Agents : /\ kept'[b].caps = kept[b].caps
                        /\ kept'[b].status = IF b = a THEN v ELSE kept[b].status
  BY <1>2 DEF TypeOK
<1>6. \A b \in Agents : b # a => beaten'[b] = beaten[b]
  BY <1>2 DEF TypeOK
<1>7. Announces(n, kept, beaten, kept', beaten')
  BY <1>1, <1>5, <1>6 DEF Announces, Tells
<1>8. query' \in [Masters -> Calls] /\ QueriesGrow
  <2>1. PICK as \in SUBSET Agents : SeenOnline(as)
    BY <1>2
  <2> QED  BY <2>1, SeenType
<1>9. v # "none"
  BY DEF Statuses
<1> QED  BY <1>1, <1>2, <1>3, <1>4, <1>5, <1>7, <1>8, <1>9 DEF Heard

\* The steps of agents.
AgentStep ==
    /\ UNCHANGED <<mode, running, Dictionaries, collecting, responses, restarts>>
    /\ events' \in Nat
    /\ life' \in [Agents -> {"down", "up", "stopping"}]
    /\ query' \in [Masters -> Calls] /\ QueriesGrow
    /\ \/ UNCHANGED <<kept, beaten, inbox>>
       \/ \E n \in Notices : Heard(n)

\* Each of them announces what it changes, and the broker knows the status of who
\* was connected.
LEMMA AgentSteps ==
    ASSUME TypeOK, NEW a \in Agents,
           \/ Connect(a) \/ Declare(a) \/ Heartbeat(a) \/ Stop(a) \/ Disconnect(a) \/ Will(a)
    PROVE  /\ AgentStep
           /\ (\A b \in Agents : life[b] # "down" \/ kept[b].caps => kept[b].status # "none")
              => (\A b \in Agents : life'[b] # "down" \/ kept'[b].caps => kept'[b].status # "none")
<1>0. events \in Nat /\ {"online", "offline"} \subseteq Statuses
  BY DEF TypeOK, Statuses
<1>1. life \in [Agents -> {"down", "up", "stopping"}]
  BY DEF TypeOK
<1>2. ASSUME NEW to \in {"down", "up", "stopping"}, life' = [life EXCEPT ![a] = to],
             NEW v \in Statuses, Says(a, v),
             UNCHANGED <<mode, running, Dictionaries, collecting, responses, restarts>>,
             events' = events + 1
      PROVE  /\ AgentStep
             /\ (\A b \in Agents : life[b] # "down" \/ kept[b].caps => kept[b].status # "none")
                => (\A b \in Agents : life'[b] # "down" \/ kept'[b].caps => kept'[b].status # "none")
  <2>1. life' \in [Agents -> {"down", "up", "stopping"}]
        /\ \A b \in Agents : b # a => life'[b] = life[b]
    BY <1>1, <1>2
  <2>2. events' \in Nat
    BY <1>0, <1>2
  <2> QED  BY <1>2, <2>1, <2>2, SaysHeard DEF AgentStep
<1>3. CASE Connect(a)
  BY <1>0, <1>2, <1>3 DEF Connect, Happens
<1>4. CASE Stop(a)
  BY <1>0, <1>2, <1>4 DEF Stop, Happens
<1>5. CASE Will(a)
  BY <1>0, <1>2, <1>5 DEF Will, Happens
<1>6. CASE Disconnect(a)
  <2>1. life' \in [Agents -> {"down", "up", "stopping"}]
        /\ \A b \in Agents : life'[b] # "down" => life[b] # "down"
    BY <1>1, <1>6 DEF Disconnect
  <2>2. events' \in Nat
    BY <1>0, <1>6 DEF Disconnect, Happens
  <2>3. UNCHANGED <<mode, running, Dictionaries, collecting, responses, restarts,
                    kept, beaten, inbox, query>>
    BY <1>6 DEF Disconnect
  <2>4. query' \in [Masters -> Calls] /\ QueriesGrow
    BY <2>3 DEF TypeOK, Calls, QueriesGrow
  <2> QED  BY <2>1, <2>2, <2>3, <2>4 DEF AgentStep
<1>7. CASE Declare(a)
  <2>1. UNCHANGED <<mode, life, beaten, running, Dictionaries, collecting, responses, query,
                    restarts>>
        /\ kept' = [kept EXCEPT ![a].caps = TRUE] /\ life[a] = "up" /\ events' \in Nat
        /\ inbox' = IF running THEN Append(inbox, News(a, "caps", "declared")) ELSE inbox
    BY <1>0, <1>7 DEF Declare, Happens, Sent
  <2>2. PICK n \in Notices : /\ n = News(a, "caps", "declared")
                             /\ n.what = "caps" /\ n.about = a
    BY NewsKinds DEF News
  <2>3. kept' \in [Agents -> [caps : BOOLEAN, status : Statuses \cup {"none"}]]
    <3>1. kept \in [Agents -> [caps : BOOLEAN, status : Statuses \cup {"none"}]]
      BY DEF TypeOK
    <3>2. PICK s \in BOOLEAN : s = TRUE
      OBVIOUS
    <3>3. \E s2 \in BOOLEAN : kept' = [kept EXCEPT ![a].caps = s2]
      BY <2>1, <3>2
    <3> QED  BY <3>1, <3>3, FieldType
  <2>4. \A b \in Agents : /\ kept'[b].status = kept[b].status
                          /\ kept'[b].caps = IF b = a THEN TRUE ELSE kept[b].caps
    BY <2>1 DEF TypeOK
  <2>5. beaten' \in [Agents -> BOOLEAN] /\ beaten' = beaten
    BY <2>1 DEF TypeOK
  <2>6. Announces(n, kept, beaten, kept', beaten')
    BY <2>2, <2>4, <2>5 DEF Announces, Tells
  <2>7. Heard(n)
    BY <2>1, <2>2, <2>3, <2>5, <2>6 DEF Heard
  <2>8. query' \in [Masters -> Calls] /\ QueriesGrow
    BY <2>1 DEF TypeOK, Calls, QueriesGrow
  <2>9. life' \in [Agents -> {"down", "up", "stopping"}] /\ life' = life
    BY <1>1, <2>1
  <2> QED  BY <2>1, <2>4, <2>7, <2>8, <2>9 DEF AgentStep
<1>8. CASE Heartbeat(a)
  <2>1. UNCHANGED <<mode, life, kept, running, Dictionaries, collecting, responses, restarts>>
        /\ beaten' = [beaten EXCEPT ![a] = TRUE] /\ events' \in Nat /\ SeenOnline({a})
        /\ inbox' = IF running THEN Append(inbox, News(a, "beat", "online")) ELSE inbox
    BY <1>0, <1>8 DEF Heartbeat, Happens, Sent
  <2>2. PICK n \in Notices : /\ n = News(a, "beat", "online")
                             /\ n.what = "beat" /\ n.about = a
    BY NewsKinds DEF News
  <2>3. kept' \in [Agents -> [caps : BOOLEAN, status : Statuses \cup {"none"}]] /\ kept' = kept
    BY <2>1 DEF TypeOK
  <2>4. beaten' \in [Agents -> BOOLEAN]
    BY <2>1 DEF TypeOK
  <2>5. beaten'[a] /\ \A b \in Agents : beaten[b] => beaten'[b]
    BY <2>1 DEF TypeOK
  <2>6. Announces(n, kept, beaten, kept', beaten')
    BY <2>2, <2>3, <2>5 DEF Announces, Tells
  <2>7. Heard(n)
    BY <2>1, <2>2, <2>3, <2>4, <2>6 DEF Heard
  <2>8. query' \in [Masters -> Calls] /\ QueriesGrow
    BY <2>1, SeenType
  <2>9. life' \in [Agents -> {"down", "up", "stopping"}] /\ life' = life
    BY <1>1, <2>1
  <2> QED  BY <2>1, <2>3, <2>7, <2>8, <2>9 DEF AgentStep
<1> QED  BY <1>3, <1>4, <1>5, <1>6, <1>7, <1>8

\* Dictionaries.
LEMMA TableKinds ==
    ASSUME NEW table \in Tables
    PROVE  /\ Empty \in Tables /\ Filtered(table) \in Tables
           /\ \A n \in Notices : Noted(table, n) \in Tables
           /\ \A a \in Agents : Empty[a] = Absent
<1>1. Absent \in Entries
  BY DEF Absent, Entries
<1>2. \A a \in Agents : table[a] \in Entries /\ table[a].status \in Statuses \cup {"absent", "unknown"}
  BY DEF Tables, Entries
<1>3. Empty \in Tables /\ \A a \in Agents : Empty[a] = Absent
  BY <1>1 DEF Empty, Tables
<1>4. Filtered(table) \in Tables
  BY <1>1, <1>2 DEF Filtered, Tables
<1>5. ASSUME NEW n \in Notices PROVE Noted(table, n) \in Tables
  <2>1. n.about \in Agents /\ (n.what # "caps" => n.value \in Statuses)
    BY <1>5, NoticeFields
  <2>2. [caps |-> TRUE, status |-> IF table[n.about] = Absent THEN "unknown" ELSE table[n.about].status]
          \in Entries
    BY <1>2, <2>1 DEF Entries
  <2>3. n.what # "caps" => [table[n.about] EXCEPT !.status = n.value] \in Entries
    BY <1>2, <2>1 DEF Entries
  <2>4. PICK e \in Entries : Noted(table, n) = [table EXCEPT ![n.about] = e]
    BY <2>2, <2>3 DEF Noted
  <2> QED  BY <2>1, <2>4 DEF Tables
<1> QED  BY <1>3, <1>4, <1>5

\* A collection begins.
LEMMA CollectType ==
    ASSUME TypeOK, NEW t \in {"app", "paho"}, NEW for \in {Resting} \cup Queries,
           for \in Queries <=> t = "paho", Collect(t, for)
    PROVE  /\ tables' \in Seq(Tables) /\ Len(tables') = Len(tables) + 1
           /\ tables'[Len(tables) + 1] = Empty
           /\ \A i \in DOMAIN tables : i \in DOMAIN tables' /\ tables'[i] = tables[i]
           /\ listening' \subseteq DOMAIN tables'
           /\ collecting' \in [{"app", "paho"} -> {Resting} \cup Collections]
           /\ \A u \in {"app", "paho"} : collecting'[u] # Resting =>
                /\ collecting'[u].table \in listening'
                /\ collecting'[u].for \in Queries <=> u = "paho"
           /\ collecting'[t] # Resting /\ collecting'[t].table = Len(tables) + 1
           /\ collecting'[t].for = for
           /\ \A u \in {"app", "paho"} : u # t => collecting'[u] = collecting[u]
<1>1. /\ tables \in Seq(Tables) /\ listening \subseteq DOMAIN tables
      /\ Len(tables) \in Nat /\ DOMAIN tables = 1..Len(tables) /\ Empty \in Tables
  <2>1. PICK table \in Tables : table = tables[cache]
    BY DEF TypeOK
  <2>2. Empty \in Tables
    BY <2>1, TableKinds
  <2>3. tables \in Seq(Tables) /\ listening \subseteq DOMAIN tables
    BY DEF TypeOK
  <2> QED  BY <2>2, <2>3
<1>2. /\ tables' = Append(tables, Empty) /\ listening' = listening \cup {Len(tables) + 1}
      /\ collecting' = [collecting EXCEPT ![t] =
                          [at |-> "sleep", table |-> Len(tables) + 1, for |-> for]]
  BY DEF Collect
<1>3. /\ tables' \in Seq(Tables) /\ Len(tables') = Len(tables) + 1
      /\ tables'[Len(tables) + 1] = Empty
      /\ \A i \in DOMAIN tables : i \in DOMAIN tables' /\ tables'[i] = tables[i]
  BY <1>1, <1>2, AppendElements
<1>4. DOMAIN tables' = 1..(Len(tables) + 1)
  BY <1>3
<1>5. listening' \subseteq DOMAIN tables'
  BY <1>1, <1>2, <1>4
<1>6. PICK c \in Collections :
        /\ c = [at |-> "sleep", table |-> Len(tables) + 1, for |-> for]
        /\ c.table = Len(tables) + 1 /\ c.for = for /\ c # Resting
  <2>1. Len(tables) + 1 \in Nat
    BY <1>1
  <2>2. PICK n \in Nat : n = Len(tables) + 1
    BY <2>1
  <2>3. PICK c \in Collections : c = [at |-> "sleep", table |-> n, for |-> for]
    BY DEF Collections
  <2>4. c.at = "sleep" /\ c.table = n /\ c.for = for
    BY <2>3
  <2>5. c # Resting
    BY <2>4 DEF Resting
  <2> QED  BY <2>2, <2>3, <2>4, <2>5
<1>7. /\ collecting' \in [{"app", "paho"} -> {Resting} \cup Collections]
      /\ collecting'[t] = c /\ \A u \in {"app", "paho"} : u # t => collecting'[u] = collecting[u]
  BY <1>2, <1>6 DEF TypeOK
<1>8. ASSUME NEW u \in {"app", "paho"}, collecting'[u] # Resting
      PROVE  /\ collecting'[u].table \in listening'
             /\ collecting'[u].for \in Queries <=> u = "paho"
  <2>1. CASE u = t
    BY <1>2, <1>6, <1>7, <2>1
  <2>2. CASE u # t
    BY <1>2, <1>7, <1>8, <2>2 DEF TypeOK
  <2> QED  BY <2>1, <2>2
<1> QED  BY <1>3, <1>5, <1>6, <1>7, <1>8

\* A collection ends.
LEMMA SwapsType ==
    ASSUME TypeOK, NEW t \in {"app", "paho"}, collecting[t] # Resting, Swaps(t),
           collecting' = [collecting EXCEPT ![t] = Resting]
    PROVE  /\ tables' \in Seq(Tables) /\ Len(tables') = Len(tables)
           /\ DOMAIN tables' = DOMAIN tables
           /\ \A i \in DOMAIN tables : i # cache => tables'[i] = tables[i]
           /\ cache' = collecting[t].table /\ cache' \in DOMAIN tables'
           /\ fresh' \in BOOLEAN /\ listening' = listening
           /\ collecting' \in [{"app", "paho"} -> {Resting} \cup Collections]
           /\ collecting'[t] = Resting
           /\ \A u \in {"app", "paho"} : u # t => collecting'[u] = collecting[u]
<1>1. /\ tables \in Seq(Tables) /\ listening \subseteq DOMAIN tables /\ cache \in DOMAIN tables
      /\ Empty \in Tables
  <2>1. PICK table \in Tables : table = tables[cache]
    BY DEF TypeOK
  <2> QED  BY <2>1, TableKinds DEF TypeOK
<1>2. collecting[t].table \in listening
  BY DEF TypeOK
<1>3. /\ tables' \in Seq(Tables) /\ Len(tables') = Len(tables)
      /\ DOMAIN tables' = DOMAIN tables
      /\ \A i \in DOMAIN tables : i # cache => tables'[i] = tables[i]
  BY <1>1 DEF Swaps
<1>4. /\ collecting' \in [{"app", "paho"} -> {Resting} \cup Collections]
      /\ collecting'[t] = Resting
      /\ \A u \in {"app", "paho"} : u # t => collecting'[u] = collecting[u]
  BY DEF TypeOK
<1> QED  BY <1>1, <1>2, <1>3, <1>4 DEF Swaps

\* Who was asked, and what is answered.
LEMMA RespondsType ==
    ASSUME TypeOK, NEW q \in Queries, NEW table \in Tables, Responds(q, table)
    PROVE  /\ responses' \subseteq [to : Masters, agents : Tables]
           /\ \A r \in responses' : \/ r \in responses
                                    \/ /\ query[q.about].at = "waiting"
                                       /\ q.corr = query[q.about].corr
                                       /\ r.to = q.about /\ r.agents = Filtered(table)
<1>1. q.about \in Masters
  BY DEF Queries
<1>2. [to |-> q.about, agents |-> Filtered(table)] \in [to : Masters, agents : Tables]
  BY <1>1, TableKinds
<1> QED  BY <1>2 DEF Responds, TypeOK

\* The steps of the registry that are neither collections nor agents'.
LEMMA HandleType ==
    ASSUME TypeOK, Handle
    PROVE  /\ Head(inbox) \in Notices /\ inbox' = Tail(inbox) /\ inbox' \in Seq(All)
           /\ tables' \in Seq(Tables) /\ DOMAIN tables' = DOMAIN tables
           /\ \A i \in DOMAIN tables :
                \/ /\ i = cache \/ (Head(inbox).what # "beat" /\ i \in listening /\ i \in Read)
                   /\ tables'[i] = Noted(tables[i], Head(inbox))
                \/ /\ i # cache /\ (Head(inbox).what = "beat" \/ i \notin listening \/ i \notin Read)
                   /\ tables'[i] = tables[i]
<1>1. inbox \in Seq(All) /\ inbox # <<>> /\ Head(inbox).what # "query"
  BY DEF Handle, TypeOK, All
<1>2. Head(inbox) \in All /\ Tail(inbox) \in Seq(All)
  BY <1>1, TailElements
<1>3. Head(inbox) \in Notices
  BY <1>1, <1>2, MessageKinds DEF All
<1>4. PICK n \in Notices : n = Head(inbox)
  BY <1>3
<1>5. PICK written : /\ written = {cache} \cup (IF n.what = "beat" THEN {} ELSE listening \cap Read)
                     /\ tables' = [i \in DOMAIN tables |->
                                     IF i \in written THEN Noted(tables[i], n) ELSE tables[i]]
  BY <1>4 DEF Handle
<1>6. tables \in Seq(Tables)
  BY DEF TypeOK
<1>7. \A i \in DOMAIN tables : tables[i] \in Tables /\ Noted(tables[i], n) \in Tables
  BY <1>6, TableKinds
<1>8. tables' \in Seq(Tables) /\ DOMAIN tables' = DOMAIN tables
  <2>1. Len(tables) \in Nat /\ DOMAIN tables = 1..Len(tables)
    BY <1>6
  <2>2. tables' \in [1..Len(tables) -> Tables]
    BY <1>5, <1>7, <2>1
  <2> QED  BY <2>1, <2>2
<1>9. \A i \in DOMAIN tables : tables'[i] = IF i \in written THEN Noted(tables[i], n) ELSE tables[i]
  BY <1>5
<1>10. inbox' = Tail(inbox)
  BY DEF Handle
<1> QED  BY <1>2, <1>3, <1>4, <1>5, <1>8, <1>9, <1>10

\* The queries that are answered or cause a collection.
LEMMA QueryType ==
    ASSUME TypeOK, inbox # <<>>, Head(inbox).what = "query"
    PROVE  Head(inbox) \in Queries /\ Tail(inbox) \in Seq(All)
<1>1. inbox \in Seq(All)
  BY DEF TypeOK, All
<1>2. Head(inbox) \in All /\ Tail(inbox) \in Seq(All)
  BY <1>1, TailElements
<1> QED  BY <1>2, MessageKinds DEF All, Notices

\* The steps of masters.
LEMMA MasterType ==
    ASSUME TypeOK, NEW m \in Masters,
           \/ \E allowed \in BOOLEAN : Ask(m, allowed)
           \/ TakeResponse(m) \/ TimeOut(m) \/ Route(m)
    PROVE  TypeOK'
<1>1. query \in [Masters -> Calls] /\ responses \subseteq [to : Masters, agents : Tables]
  BY DEF TypeOK, Calls
<1>2. Empty \in Tables
  <2>1. PICK table \in Tables : table = tables[cache]
    BY DEF TypeOK
  <2> QED  BY <2>1, TableKinds
<1>3. PICK q \in Calls : q = query[m]
  BY <1>1
<1>4. inbox \in Seq(All)
  BY DEF TypeOK, All
<1>5. ASSUME NEW answer \in Tables, Ends(m, answer)
      PROVE  query' \in [Masters -> Calls] /\ responses' \subseteq [to : Masters, agents : Tables]
  <2>1. query' = [query EXCEPT ![m].at = "done", ![m].answer = answer]
    BY <1>5 DEF Ends
  <2>2. PICK p : p = [q EXCEPT !.at = "done", !.answer = answer]
    OBVIOUS
  <2>3. p \in Calls
    BY <2>2 DEF Calls
  <2>4. query' = [query EXCEPT ![m] = p]
    BY <1>3, <2>1, <2>2
  <2> QED  BY <1>1, <1>5, <2>3, <2>4 DEF Ends
<1>6. ASSUME NEW allowed \in BOOLEAN, Ask(m, allowed) PROVE TypeOK'
  <2>1. PICK c \in 1..MaxQueries : c = q.corr + 1
    BY <1>3, <1>6, RegistryAssumption DEF Ask, Calls
  <2>2. PICK d \in SUBSET Agents : d = {a \in Agents : kept[a].caps}
    OBVIOUS
  <2>3. PICK o \in SUBSET Agents : o = {a \in Agents : kept[a].status = "online" \/ beaten[a]}
    OBVIOUS
  <2>4. PICK p \in Calls : p = [at |-> "waiting", corr |-> c, answer |-> Empty, online |-> o,
                                declared |-> d]
    <3>1. c \in 0..MaxQueries
      BY <2>1
    <3>2. [at |-> "waiting", corr |-> c, answer |-> Empty, online |-> o, declared |-> d] \in Calls
      BY <1>2, <3>1 DEF Calls
    <3> QED  BY <3>2
  <2>5. query' = [query EXCEPT ![m] = p]
    BY <1>3, <1>6, <2>1, <2>2, <2>3, <2>4 DEF Ask
  <2>6. query' \in [Masters -> Calls]
    BY <1>1, <2>4, <2>5
  <2>7. Query(m, query[m].corr + 1) \in All
    BY <1>3, <2>1 DEF Query, All, Queries
  <2>8. inbox' \in Seq(All)
    BY <1>4, <1>6, <2>7, AppendElements DEF Ask, Sent
  <2>9. UNCHANGED <<mode, Broker, running, Dictionaries, collecting, responses, events, restarts>>
    BY <1>6 DEF Ask
  <2> QED  BY <2>6, <2>8, <2>9 DEF TypeOK, Broker, Dictionaries, Calls, All
<1>7. ASSUME UNCHANGED <<mode, Broker, running, inbox, Dictionaries, collecting, events, restarts>>,
             query' \in [Masters -> Calls], responses' \subseteq [to : Masters, agents : Tables]
      PROVE  TypeOK'
  BY <1>7 DEF TypeOK, Broker, Dictionaries, Calls
<1>8. ASSUME TakeResponse(m) PROVE TypeOK'
  <2>1. PICK r \in responses :
          /\ IF r.agents = Empty
               THEN responses' = responses \ {r} /\ UNCHANGED query
               ELSE Ends(m, r.agents)
          /\ UNCHANGED <<mode, Broker, running, inbox, Dictionaries, collecting, events, restarts>>
    BY <1>8 DEF TakeResponse
  <2>2. r.agents \in Tables
    BY <1>1
  <2>3. query' \in [Masters -> Calls] /\ responses' \subseteq [to : Masters, agents : Tables]
    BY <1>1, <1>5, <2>1, <2>2
  <2> QED  BY <1>7, <2>1, <2>3
<1>9. CASE TimeOut(m)
  BY <1>2, <1>5, <1>7, <1>9 DEF TimeOut
<1>10. CASE Route(m)
  <2>1. PICK p : p = [NoQuery EXCEPT !.corr = q.corr]
    OBVIOUS
  <2>2. p \in Calls
    BY <1>2, <2>1 DEF NoQuery, Calls
  <2>3. query' = [query EXCEPT ![m] = p]
    BY <1>3, <1>10, <2>1 DEF Route
  <2>4. query' \in [Masters -> Calls]
    BY <1>1, <2>2, <2>3
  <2> QED  BY <1>1, <1>7, <1>10, <2>4 DEF Route
<1> QED  BY <1>6, <1>8, <1>9, <1>10

\* The steps of the registry.
LEMMA RegistryType ==
    ASSUME TypeOK,
           \/ Start \/ Restart \/ Handle \/ Expire
           \/ GetAgents \/ AppWakes \/ AnswerQuery \/ CollectForQuery \/ PahoWakes
    PROVE  TypeOK'
<1>1. inbox \in Seq(All) /\ tables \in Seq(Tables) /\ listening \subseteq DOMAIN tables
      /\ cache \in DOMAIN tables /\ collecting["app"] = collecting["app"]
  BY DEF TypeOK, All
<1>2. Empty \in Tables
  <2>1. PICK table \in Tables : table = tables[cache]
    BY DEF TypeOK
  <2> QED  BY <2>1, TableKinds
<1>3. Resting \notin Queries
  BY DEF Resting, Queries
<1>4. CASE Start
  <2>1. inbox' \in Seq(All)
    BY <1>4, RetainedMessages DEF Start, All
  <2>2. running' \in BOOLEAN
    BY <1>4 DEF Start
  <2> QED
    BY <1>4, <2>1, <2>2 DEF Start, TypeOK, Broker, Dictionaries, All
<1>5. CASE Restart
  <2>1. restarts' \in Nat
    BY <1>5 DEF Restart, TypeOK
  <2>2. tables' \in Seq(Tables) /\ cache' \in DOMAIN tables' /\ listening' \subseteq DOMAIN tables'
    BY <1>2, <1>5 DEF Restart
  <2>3. collecting' \in [{"app", "paho"} -> {Resting} \cup Collections]
        /\ \A t \in {"app", "paho"} : collecting'[t] = Resting
    BY <1>5 DEF Restart
  <2>4. running' \in BOOLEAN /\ fresh' \in BOOLEAN
    BY <1>5 DEF Restart
  <2>5. inbox' \in Seq(All)
    <3>1. <<>> \in Seq(All)
      OBVIOUS
    <3> QED  BY <1>5, <3>1 DEF Restart
  <2> QED
    BY <1>5, <2>1, <2>2, <2>3, <2>4, <2>5 DEF Restart, TypeOK, Broker, All
<1>6. CASE Handle
  <2>1. /\ inbox' \in Seq(All) /\ tables' \in Seq(Tables) /\ DOMAIN tables' = DOMAIN tables
    BY <1>6, HandleType
  <2> QED
    BY <1>6, <2>1 DEF Handle, TypeOK, Broker, All
<1>7. CASE Expire
  BY <1>7 DEF Expire, TypeOK, Broker
<1>8. CASE GetAgents
  <2>1. Collect("app", Resting)
    BY <1>8 DEF GetAgents
  <2>2. inbox' \in Seq(All)
    BY <1>1, <1>8, RetainedMessages, ConcatElements DEF GetAgents, All
  <2>3. /\ tables' \in Seq(Tables) /\ listening' \subseteq DOMAIN tables'
        /\ \A i \in DOMAIN tables : i \in DOMAIN tables'
        /\ collecting' \in [{"app", "paho"} -> {Resting} \cup Collections]
        /\ \A u \in {"app", "paho"} : collecting'[u] # Resting =>
             /\ collecting'[u].table \in listening'
             /\ collecting'[u].for \in Queries <=> u = "paho"
    BY <1>3, <2>1, CollectType
  <2> QED
    BY <1>1, <1>8, <2>2, <2>3 DEF GetAgents, TypeOK, Broker, All
<1>9. CASE CollectForQuery
  <2>0. Head(inbox) \in Queries /\ Tail(inbox) \in Seq(All)
    BY <1>9, QueryType DEF CollectForQuery
  <2>1. Collect("paho", Head(inbox))
    BY <1>9 DEF CollectForQuery
  <2>2. inbox' \in Seq(All)
    BY <1>9, <2>0, RetainedMessages, ConcatElements DEF CollectForQuery, All
  <2>3. /\ tables' \in Seq(Tables) /\ listening' \subseteq DOMAIN tables'
        /\ \A i \in DOMAIN tables : i \in DOMAIN tables'
        /\ collecting' \in [{"app", "paho"} -> {Resting} \cup Collections]
        /\ \A u \in {"app", "paho"} : collecting'[u] # Resting =>
             /\ collecting'[u].table \in listening'
             /\ collecting'[u].for \in Queries <=> u = "paho"
    BY <2>0, <2>1, CollectType
  <2> QED
    BY <1>1, <1>9, <2>2, <2>3 DEF CollectForQuery, TypeOK, Broker, All
<1>10. CASE AppWakes
  <2>1. collecting["app"] # Resting /\ Swaps("app")
        /\ collecting' = [collecting EXCEPT !["app"] = Resting]
    BY <1>10 DEF AppWakes, Resting
  <2>2. /\ tables' \in Seq(Tables) /\ DOMAIN tables' = DOMAIN tables
        /\ cache' \in DOMAIN tables' /\ fresh' \in BOOLEAN /\ listening' = listening
        /\ collecting' \in [{"app", "paho"} -> {Resting} \cup Collections]
        /\ collecting'["app"] = Resting
        /\ \A u \in {"app", "paho"} : u # "app" => collecting'[u] = collecting[u]
    BY <2>1, SwapsType
  <2> QED
    BY <1>1, <1>10, <2>2 DEF AppWakes, TypeOK, Broker, All
<1>11. CASE PahoWakes
  <2>1. collecting["paho"] # Resting /\ Swaps("paho")
        /\ collecting' = [collecting EXCEPT !["paho"] = Resting]
    BY <1>11 DEF PahoWakes, Resting
  <2>2. /\ tables' \in Seq(Tables) /\ DOMAIN tables' = DOMAIN tables
        /\ cache' \in DOMAIN tables' /\ fresh' \in BOOLEAN /\ listening' = listening
        /\ collecting' \in [{"app", "paho"} -> {Resting} \cup Collections]
        /\ collecting'["paho"] = Resting
        /\ \A u \in {"app", "paho"} : u # "paho" => collecting'[u] = collecting[u]
    BY <2>1, SwapsType
  <2>3. collecting["paho"].for \in Queries /\ tables[collecting["paho"].table] \in Tables
    BY <1>1, <2>1 DEF TypeOK
  <2>4. responses' \subseteq [to : Masters, agents : Tables]
    BY <1>11, <2>3, RespondsType DEF PahoWakes
  <2> QED
    BY <1>1, <1>11, <2>2, <2>4 DEF PahoWakes, TypeOK, Broker, All
<1>12. CASE AnswerQuery
  <2>1. Head(inbox) \in Queries /\ Tail(inbox) \in Seq(All)
    BY <1>12, QueryType DEF AnswerQuery
  <2>2. tables[cache] \in Tables
    BY <1>1
  <2>3. responses' \subseteq [to : Masters, agents : Tables]
    BY <1>12, <2>1, <2>2, RespondsType DEF AnswerQuery
  <2>4. inbox' \in Seq(All)
    BY <1>12, <2>1 DEF AnswerQuery
  <2> QED
    BY <1>12, <2>3, <2>4 DEF AnswerQuery, TypeOK, Broker, Dictionaries, All
<1> QED
  BY <1>4, <1>5, <1>6, <1>7, <1>8, <1>9, <1>10, <1>11, <1>12

\* Types, from the beginning and in every step.
LEMMA TypeInvariant == Init /\ [][Next]_vars => []TypeOK
<1>1. Init => TypeOK
  <2> SUFFICES ASSUME Init PROVE TypeOK
    OBVIOUS
  <2>1. Absent \in Entries
    BY DEF Absent, Entries
  <2>2. Empty \in Tables
    BY <2>1 DEF Empty, Tables
  <2>3. tables \in Seq(Tables) /\ cache \in DOMAIN tables
    BY <2>2 DEF Init
  <2>4. NoQuery \in [at : {"idle", "waiting", "done"}, corr : 0..MaxQueries, answer : Tables,
                     online : SUBSET Agents, declared : SUBSET Agents]
    BY <2>2, RegistryAssumption DEF NoQuery
  <2>5. query \in [Masters -> [at : {"idle", "waiting", "done"}, corr : 0..MaxQueries,
                              answer : Tables, online : SUBSET Agents,
                              declared : SUBSET Agents]]
    BY <2>4 DEF Init
  <2>6. /\ kept \in [Agents -> [caps : BOOLEAN, status : Statuses \cup {"none"}]]
        /\ beaten \in [Agents -> BOOLEAN] /\ life \in [Agents -> {"down", "up", "stopping"}]
    BY DEF Init
  <2>7. inbox \in Seq(Notices \cup Queries)
    <3>1. <<>> \in Seq(Notices \cup Queries)
      OBVIOUS
    <3> QED  BY <3>1 DEF Init
  <2>8. /\ collecting \in [{"app", "paho"} -> {Resting} \cup Collections]
        /\ \A t \in {"app", "paho"} : collecting[t] = Resting
    BY DEF Init
  <2>9. {running, fresh} \subseteq BOOLEAN
    BY DEF Init
  <2> QED
    BY <2>3, <2>5, <2>6, <2>7, <2>8, <2>9 DEF Init, TypeOK
<1>2. TypeOK /\ [Next]_vars => TypeOK'
  <2> SUFFICES ASSUME TypeOK, [Next]_vars PROVE TypeOK'
    OBVIOUS
  <2>1. ASSUME NEW a \in Agents,
               \/ Connect(a) \/ Declare(a) \/ Heartbeat(a) \/ Stop(a) \/ Disconnect(a) \/ Will(a)
        PROVE  TypeOK'
    <3>1. AgentStep
      BY <2>1, AgentSteps
    <3>2. inbox \in Seq(All)
      BY DEF TypeOK, All
    <3>3. /\ kept' \in [Agents -> [caps : BOOLEAN, status : Statuses \cup {"none"}]]
          /\ beaten' \in [Agents -> BOOLEAN]
          /\ inbox' \in Seq(All)
      <4>1. CASE UNCHANGED <<kept, beaten, inbox>>
        BY <3>2, <4>1 DEF TypeOK
      <4>2. CASE \E n \in Notices : Heard(n)
        <5>1. PICK n \in Notices : Heard(n)
          BY <4>2
        <5>2. n \in All
          BY DEF All
        <5> QED  BY <3>2, <5>1, <5>2, AppendElements DEF Heard
      <4> QED  BY <3>1, <4>1, <4>2 DEF AgentStep
    <3> QED  BY <3>1, <3>3 DEF AgentStep, TypeOK, Dictionaries, Calls, All
  <2>2. CASE UNCHANGED vars
    BY <2>2 DEF vars, Broker, Dictionaries, TypeOK
  <2> QED  BY <2>1, <2>2, RegistryType, MasterType DEF Next
<1> QED  BY <1>1, <1>2, PTL

\* Type correctness: the broker, the registry and the masters keep their types.
THEOREM RegistryTypeCorrect == Spec => []TypeOK
BY TypeInvariant, PTL DEF Spec

-----------------------------------------------------------------------------
(* Collections.                                                            *)

\* Where dictionaries are, from step to step.
LEMMA CollectionsStep ==
    ASSUME TypeOK, CollectionsExact, [Next]_vars
    PROVE  CollectionsExact'
<1> DEFINE Threads == {"app", "paho"}
<1>0. /\ inbox \in Seq(All) /\ tables \in Seq(Tables) /\ cache \in DOMAIN tables
      /\ listening \subseteq DOMAIN tables /\ running \in BOOLEAN
      /\ Len(tables) \in Nat /\ DOMAIN tables = 1..Len(tables)
      /\ Len(tables) + 1 \notin DOMAIN tables
      /\ \A t \in Threads : collecting[t] # Resting => collecting[t].table \in DOMAIN tables
  <2>1. inbox \in Seq(All) /\ tables \in Seq(Tables) /\ cache \in DOMAIN tables
        /\ listening \subseteq DOMAIN tables /\ running \in BOOLEAN
    BY DEF TypeOK, All
  <2>2. Len(tables) \in Nat /\ DOMAIN tables = 1..Len(tables)
    BY <2>1
  <2>3. \A t \in Threads : collecting[t] # Resting => collecting[t].table \in listening
    BY DEF TypeOK
  <2> QED  BY <2>1, <2>2, <2>3
<1>1. CASE UNCHANGED <<Dictionaries, collecting, running>> /\ (~running => inbox' = <<>>)
  BY <1>1 DEF CollectionsExact, Dictionaries
<1>2. ASSUME NEW a \in Agents,
             \/ Connect(a) \/ Declare(a) \/ Heartbeat(a) \/ Stop(a) \/ Disconnect(a) \/ Will(a)
      PROVE  CollectionsExact'
  <2>1. AgentStep
    BY <1>2, AgentSteps
  <2>2. inbox' = inbox \/ running
    BY <2>1 DEF AgentStep, Heard
  <2> QED  BY <1>1, <2>1, <2>2 DEF AgentStep, CollectionsExact
<1>3. CASE Start
  BY <1>3 DEF Start, CollectionsExact, Dictionaries
<1>4. CASE Restart
  BY <1>4 DEF Restart, CollectionsExact
<1>5. CASE Handle
  <2>1. running /\ collecting["paho"] = Resting
    BY <1>0, <1>5 DEF Handle, CollectionsExact
  <2>2. running' = running /\ cache' = cache /\ collecting' = collecting
    BY <1>5 DEF Handle
  <2> QED  BY <2>1, <2>2 DEF CollectionsExact
<1>6. CASE Expire
  BY <1>6 DEF Expire, CollectionsExact
<1>7. ASSUME NEW t \in Threads, NEW for \in {Resting} \cup Queries, for \in Queries <=> t = "paho",
             Collect(t, for), running, running' = running, cache' = cache,
             collecting[t] = Resting
      PROVE  CollectionsExact'
  <2>1. /\ tables'[Len(tables) + 1] = Empty
        /\ \A i \in DOMAIN tables : tables'[i] = tables[i]
        /\ collecting'[t] # Resting /\ collecting'[t].table = Len(tables) + 1
        /\ \A u \in Threads : u # t => collecting'[u] = collecting[u]
    BY <1>7, CollectType
  <2>2. \A u \in Threads : collecting'[u] # Resting => collecting'[u].table # cache'
    BY <1>0, <1>7, <2>1 DEF CollectionsExact
  <2>3. collecting'["app"] # Resting /\ collecting'["paho"] # Resting
          => collecting'["app"].table # collecting'["paho"].table
    BY <1>0, <1>7, <2>1
  <2>4. collecting'["paho"] # Resting => tables'[collecting'["paho"].table] = Empty
    BY <1>0, <1>7, <2>1 DEF CollectionsExact
  <2> QED  BY <1>7, <2>2, <2>3, <2>4 DEF CollectionsExact
<1>8. CASE GetAgents
  <2>1. Collect("app", Resting) /\ running /\ running' = running /\ cache' = cache
        /\ collecting["app"] = Resting
    BY <1>8 DEF GetAgents
  <2>2. Resting \notin Queries
    BY DEF Resting, Queries
  <2> QED  BY <1>7, <2>1, <2>2
<1>9. CASE CollectForQuery
  <2>1. Collect("paho", Head(inbox)) /\ running' = running /\ cache' = cache
        /\ collecting["paho"] = Resting /\ inbox # <<>>
    BY <1>9 DEF CollectForQuery
  <2>2. Head(inbox) \in Queries
    BY <1>9, QueryType DEF CollectForQuery
  <2>3. running
    BY <2>1 DEF CollectionsExact
  <2> QED  BY <1>7, <2>1, <2>2, <2>3
<1>10. ASSUME NEW t \in Threads, collecting[t] # Resting, Swaps(t),
              collecting' = [collecting EXCEPT ![t] = Resting], running' = running
       PROVE  CollectionsExact'
  <2>1. /\ \A i \in DOMAIN tables : i # cache => tables'[i] = tables[i]
        /\ cache' = collecting[t].table
        /\ collecting'[t] = Resting
        /\ \A u \in Threads : u # t => collecting'[u] = collecting[u]
    BY <1>10, SwapsType
  <2>2. running
    BY <1>10 DEF CollectionsExact
  <2>3. \A u \in Threads : collecting'[u] # Resting => collecting'[u].table # cache'
    BY <1>10, <2>1 DEF CollectionsExact
  <2>4. collecting'["paho"] # Resting => tables'[collecting'["paho"].table] = Empty
    BY <1>0, <1>10, <2>1 DEF CollectionsExact
  <2>5. ~(collecting'["app"] # Resting /\ collecting'["paho"] # Resting)
    BY <1>10, <2>1
  <2> QED  BY <1>10, <2>2, <2>3, <2>4, <2>5 DEF CollectionsExact
<1>11. CASE AppWakes
  BY <1>10, <1>11 DEF AppWakes, Resting
<1>12. CASE PahoWakes
  BY <1>10, <1>12 DEF PahoWakes, Resting
<1>13. CASE AnswerQuery
  <2>1. running
    BY <1>13 DEF AnswerQuery, CollectionsExact
  <2> QED  BY <1>1, <1>13, <2>1 DEF AnswerQuery
<1>14. ASSUME NEW m \in Masters, NEW allowed \in BOOLEAN, Ask(m, allowed) PROVE CollectionsExact'
  BY <1>1, <1>14 DEF Ask, Sent, CollectionsExact
<1>15. ASSUME NEW m \in Masters, TakeResponse(m) \/ TimeOut(m) \/ Route(m) PROVE CollectionsExact'
  BY <1>1, <1>15 DEF TakeResponse, TimeOut, Route, CollectionsExact
<1>16. CASE UNCHANGED vars
  BY <1>1, <1>16 DEF vars, CollectionsExact
<1> QED
  BY <1>2, <1>3, <1>4, <1>5, <1>6, <1>8, <1>9, <1>11, <1>12, <1>13, <1>14, <1>15, <1>16 DEF Next

-----------------------------------------------------------------------------
(* RegistryAgrees.  What a message says holds until a later one corrects   *)
(* it, and a dictionary is right about whom no message is about.           *)

\* A message is sent.
LEMMA TrueAppend ==
    ASSUME NEW s \in Seq(All), NEW n \in All, NEW kp, NEW bt, NEW kp2, NEW bt2,
           MessagesTrue(s, kp, bt), Announces(n, kp, bt, kp2, bt2)
    PROVE  MessagesTrue(Append(s, n), kp2, bt2)
<1> DEFINE t == Append(s, n)
<1>1. /\ Len(s) \in Nat /\ DOMAIN s = 1..Len(s) /\ DOMAIN t = 1..(Len(s) + 1)
      /\ \A i \in DOMAIN s : i \in DOMAIN t /\ t[i] = s[i] /\ i < Len(s) + 1
      /\ Len(s) + 1 \in DOMAIN t /\ t[Len(s) + 1] = n
      /\ \A i \in DOMAIN t : i \in DOMAIN s \/ i = Len(s) + 1
  OBVIOUS
<1> HIDE DEF t
<1> SUFFICES ASSUME NEW i \in DOMAIN t
             PROVE  /\ t[i].what = "caps" => kp2[t[i].about].caps
                    /\ t[i].what = "status" /\ Newest(t, i) => t[i].value = kp2[t[i].about].status
                    /\ t[i].what = "beat" /\ Newest(t, i) => bt2[t[i].about]
  BY DEF MessagesTrue, t
<1>2. CASE i = Len(s) + 1
  <2>1. t[i] = n
    BY <1>1, <1>2
  <2>2. n.what # "query" => n.about \in Agents
    BY MessageKinds DEF All
  <2>3. /\ n.what = "caps" => kp2[n.about].caps
        /\ n.what = "status" => n.value = kp2[n.about].status
        /\ n.what = "beat" => bt2[n.about]
    BY <2>2 DEF Announces, Tells
  <2> QED  BY <2>1, <2>3
<1>3. CASE i \in DOMAIN s
  <2>1. PICK e \in All : e = s[i]
    BY <1>3
  <2>2. t[i] = e
    BY <1>1, <1>3, <2>1
  <2>3. e.what # "query" => e.about \in Agents
    BY MessageKinds DEF All
  <2>4. Newest(t, i) => Newest(s, i) /\ ~Tells(n, "status", e.about)
    BY <1>1, <1>3, <2>1 DEF Newest
  <2>5. /\ e.what = "caps" => kp[e.about].caps
        /\ e.what = "status" /\ Newest(s, i) => e.value = kp[e.about].status
        /\ e.what = "beat" /\ Newest(s, i) => bt[e.about]
    BY <1>3, <2>1 DEF MessagesTrue
  <2>6. e.what # "query" => /\ kp[e.about].caps => kp2[e.about].caps
                            /\ ~Tells(n, "status", e.about)
                                 => /\ kp2[e.about].status = kp[e.about].status
                                    /\ bt[e.about] => bt2[e.about]
    BY <2>3 DEF Announces
  <2> QED  BY <2>2, <2>4, <2>5, <2>6
<1> QED  BY <1>1, <1>2, <1>3

\* ... which the dictionaries have yet to learn.
LEMMA AgreesAppend ==
    ASSUME NEW s \in Seq(All), NEW n \in All, NEW kp, NEW bt, NEW kp2, NEW bt2, NEW table,
           TableAgrees(table, s, kp, bt), Announces(n, kp, bt, kp2, bt2)
    PROVE  TableAgrees(table, Append(s, n), kp2, bt2)
<1> SUFFICES ASSUME NEW a \in Agents
             PROVE  /\ Silent(Append(s, n), "caps", a) => table[a].caps = kp2[a].caps
                    /\ Silent(Append(s, n), "status", a) => Matches(table[a], kp2[a], bt2[a])
  BY DEF TableAgrees
<1>1. ASSUME NEW what, Silent(Append(s, n), what, a)
      PROVE  Silent(s, what, a) /\ ~Tells(n, what, a)
  <2>1. /\ Len(s) + 1 \in DOMAIN Append(s, n) /\ Append(s, n)[Len(s) + 1] = n
        /\ \A i \in DOMAIN s : i \in DOMAIN Append(s, n) /\ Append(s, n)[i] = s[i]
    OBVIOUS
  <2> QED  BY <1>1, <2>1 DEF Silent
<1>2. Silent(s, "caps", a) => table[a].caps = kp[a].caps
  BY DEF TableAgrees
<1>3. Silent(s, "status", a) => Matches(table[a], kp[a], bt[a])
  BY DEF TableAgrees
<1>4. /\ ~Tells(n, "caps", a) => kp2[a].caps = kp[a].caps
      /\ ~Tells(n, "status", a) => kp2[a].status = kp[a].status /\ (bt[a] => bt2[a])
  BY DEF Announces
<1>5. Silent(Append(s, n), "caps", a) => table[a].caps = kp2[a].caps
  BY <1>1, <1>2, <1>4
<1>6. Silent(Append(s, n), "status", a) => Matches(table[a], kp2[a], bt2[a])
  BY <1>1, <1>3, <1>4 DEF Matches
<1> QED  BY <1>5, <1>6

\* The first message is taken.
LEMMA TrueTail ==
    ASSUME NEW s \in Seq(All), s # <<>>, NEW kp, NEW bt, MessagesTrue(s, kp, bt)
    PROVE  MessagesTrue(Tail(s), kp, bt)
<1> DEFINE t == Tail(s)
<1>1. /\ \A i \in DOMAIN t : i \in Nat /\ i + 1 \in DOMAIN s /\ t[i] = s[i + 1]
      /\ \A i \in DOMAIN s : i \in Nat /\ (i # 1 => i - 1 \in DOMAIN t)
  BY TailElements
<1> HIDE DEF t
<1>2. ASSUME NEW i \in DOMAIN t, Newest(t, i) PROVE Newest(s, i + 1)
  <2> SUFFICES ASSUME NEW j \in DOMAIN s, i + 1 < j PROVE ~Tells(s[j], "status", s[i + 1].about)
    BY DEF Newest
  <2>1. j - 1 \in DOMAIN t /\ i < j - 1 /\ t[j - 1] = s[j]
    BY <1>1
  <2> QED  BY <1>1, <1>2, <2>1 DEF Newest
<1> QED  BY <1>1, <1>2 DEF MessagesTrue, t

\* A dictionary that is not written to misses no more than a heartbeat or a query.
LEMMA AgreesSkip ==
    ASSUME NEW s \in Seq(All), s # <<>>, NEW kp, NEW bt, NEW table,
           TableAgrees(table, s, kp, bt), Head(s).what \in {"beat", "query"}
    PROVE  TableAgrees(table, Tail(s), kp, bt)
<1>1. ASSUME NEW a, NEW what \in {"caps", "status"}, Silent(Tail(s), what, a)
      PROVE  Silent(s, what, a)
  <2>1. \A i \in DOMAIN s : i = 1 \/ (i - 1 \in DOMAIN Tail(s) /\ Tail(s)[i - 1] = s[i])
    BY TailElements
  <2>2. s[1] = Head(s)
    OBVIOUS
  <2> QED  BY <1>1, <2>1, <2>2 DEF Silent, Tells
<1> QED  BY <1>1 DEF TableAgrees

\* A dictionary that is written to.
LEMMA AgreesNoted ==
    ASSUME NEW s \in Seq(All), s # <<>>, NEW kp, NEW bt, NEW table \in Tables,
           MessagesTrue(s, kp, bt), TableAgrees(table, s, kp, bt), Head(s) \in Notices,
           \A a \in Agents : /\ kp[a].caps \in BOOLEAN
                             /\ kp[a].status \in Statuses \cup {"none"}
                             /\ kp[a].caps => kp[a].status # "none"
    PROVE  TableAgrees(Noted(table, Head(s)), Tail(s), kp, bt)
<1>1. PICK n \in Notices : n = Head(s) /\ n = s[1] /\ 1 \in DOMAIN s
  BY TailElements
<1>2. /\ n.about \in Agents /\ n.what \in {"caps", "status", "beat"}
      /\ n.what # "caps" => n.value \in Statuses
      /\ n.what = "beat" => n.value = "online"
  BY NoticeFields
<1>3. \A i \in DOMAIN s : i = 1 \/ (i - 1 \in DOMAIN Tail(s) /\ Tail(s)[i - 1] = s[i] /\ i \in Nat)
  BY TailElements
<1> SUFFICES ASSUME NEW a \in Agents
             PROVE  /\ Silent(Tail(s), "caps", a) => Noted(table, n)[a].caps = kp[a].caps
                    /\ Silent(Tail(s), "status", a) => Matches(Noted(table, n)[a], kp[a], bt[a])
  BY <1>1 DEF TableAgrees
<1>4. \A what : Silent(Tail(s), what, a) /\ ~Tells(n, what, a) => Silent(s, what, a)
  BY <1>1, <1>3 DEF Silent
<1>5. Silent(Tail(s), "status", a) /\ n.about = a => Newest(s, 1)
  <2> SUFFICES ASSUME Silent(Tail(s), "status", a), n.about = a, NEW j \in DOMAIN s, 1 < j
               PROVE  ~Tells(s[j], "status", a)
    BY <1>1 DEF Newest
  <2>1. j # 1
    OBVIOUS
  <2> QED  BY <1>3, <2>1 DEF Silent
<1>6. /\ n.what = "caps" => kp[n.about].caps
      /\ n.what = "status" /\ Newest(s, 1) => n.value = kp[n.about].status
      /\ n.what = "beat" /\ Newest(s, 1) => bt[n.about]
  BY <1>1 DEF MessagesTrue
<1>7. table[a] \in [caps : BOOLEAN, status : Statuses \cup {"absent", "unknown"}]
  BY DEF Tables, Entries
<1>8. PICK e \in [caps : BOOLEAN, status : Statuses \cup {"absent", "unknown"}] : e = table[a]
  BY <1>7
<1>9. /\ Silent(s, "caps", a) => e.caps = kp[a].caps
      /\ Silent(s, "status", a) => Matches(e, kp[a], bt[a])
  BY <1>8 DEF TableAgrees
<1>10. PICK f : f = Noted(table, n)[a]
  OBVIOUS
<1>11. CASE n.about # a
  <2>1. f = e
    BY <1>2, <1>8, <1>10, <1>11 DEF Noted, Tables
  <2> QED  BY <1>4, <1>9, <1>10, <1>11, <2>1 DEF Tells
<1>12. CASE n.about = a /\ n.what = "caps"
  <2>1. f = [caps |-> TRUE, status |-> IF e = Absent THEN "unknown" ELSE e.status]
    BY <1>2, <1>8, <1>10, <1>12 DEF Noted, Tables
  <2>2. f.caps = TRUE /\ f.status = IF e = Absent THEN "unknown" ELSE e.status
    BY <2>1
  <2>3. kp[a].caps /\ kp[a].caps \in BOOLEAN /\ kp[a].status # "none"
    BY <1>6, <1>12
  <2>4. ASSUME Silent(Tail(s), "status", a) PROVE Matches(f, kp[a], bt[a])
    <3>1. Matches(e, kp[a], bt[a])
      BY <1>4, <1>9, <1>12, <2>4 DEF Tells
    <3>2. e # Absent
      <4>1. e.status \notin {"absent"}
        BY <2>3, <3>1 DEF Matches, Statuses
      <4> QED  BY <4>1 DEF Absent
    <3> QED  BY <2>2, <3>1, <3>2 DEF Matches
  <2> QED  BY <1>10, <2>2, <2>3, <2>4
<1>13. CASE n.about = a /\ n.what # "caps"
  <2>1. f = [e EXCEPT !.status = n.value]
    BY <1>2, <1>8, <1>10, <1>13 DEF Noted, Tables
  <2>2. f.caps = e.caps /\ f.status = n.value
    BY <2>1
  <2>3. Silent(Tail(s), "caps", a) => f.caps = kp[a].caps
    BY <1>4, <1>9, <1>13, <2>2 DEF Tells
  <2>4. ASSUME Silent(Tail(s), "status", a) PROVE Matches(f, kp[a], bt[a])
    BY <1>2, <1>5, <1>6, <1>13, <2>2, <2>4 DEF Matches
  <2> QED  BY <1>10, <2>3, <2>4
<1> QED  BY <1>11, <1>12, <1>13

\* What the broker retains is sent again: true, and complete.
LEMMA TrueConcat ==
    ASSUME TypeOK, NEW s \in Seq(All), NEW r \in Retained, MessagesTrue(s, kept, beaten)
    PROVE  MessagesTrue(s \o r, kept, beaten)
<1>1. r \in Seq(All)
  BY RetainedMessages DEF All
<1>2. \A i \in DOMAIN r : \/ r[i].what = "caps" /\ kept[r[i].about].caps
                          \/ r[i].what = "status" /\ r[i].value = kept[r[i].about].status
  BY RetainedMessages
<1> DEFINE t == s \o r
<1>3. /\ \A i \in DOMAIN s : i \in DOMAIN t /\ t[i] = s[i]
      /\ \A i \in DOMAIN t : i \in DOMAIN s \/ (i - Len(s) \in DOMAIN r /\ t[i] = r[i - Len(s)])
  BY <1>1, ConcatElements
<1> HIDE DEF t
<1> SUFFICES ASSUME NEW i \in DOMAIN t
             PROVE  /\ t[i].what = "caps" => kept[t[i].about].caps
                    /\ t[i].what = "status" /\ Newest(t, i) => t[i].value = kept[t[i].about].status
                    /\ t[i].what = "beat" /\ Newest(t, i) => beaten[t[i].about]
  BY DEF MessagesTrue, t
<1>4. CASE i \in DOMAIN s
  <2>1. Newest(t, i) => Newest(s, i)
    BY <1>3, <1>4 DEF Newest
  <2> QED  BY <1>3, <1>4, <2>1 DEF MessagesTrue
<1>5. CASE i \notin DOMAIN s
  <2>1. PICK j \in DOMAIN r : t[i] = r[j]
    BY <1>3, <1>5
  <2> QED  BY <1>2, <2>1
<1> QED  BY <1>4, <1>5

\* ... for the dictionaries that were there, and for a new one.
LEMMA AgreesConcat ==
    ASSUME TypeOK, NEW s \in Seq(All), NEW r \in Retained, NEW table,
           TableAgrees(table, s, kept, beaten) \/ table = Empty
    PROVE  TableAgrees(table, s \o r, kept, beaten)
<1>1. r \in Seq(All)
  BY RetainedMessages DEF All
<1> SUFFICES ASSUME NEW a \in Agents
             PROVE  /\ Silent(s \o r, "caps", a) => table[a].caps = kept[a].caps
                    /\ Silent(s \o r, "status", a) => Matches(table[a], kept[a], beaten[a])
  BY DEF TableAgrees
<1>2. ASSUME NEW what, Silent(s \o r, what, a) PROVE Silent(s, what, a) /\ Silent(r, what, a)
  <2>1. /\ \A i \in DOMAIN s : i \in DOMAIN (s \o r) /\ (s \o r)[i] = s[i]
        /\ \A i \in DOMAIN r : i + Len(s) \in DOMAIN (s \o r) /\ (s \o r)[i + Len(s)] = r[i]
    BY <1>1, ConcatElements
  <2> QED  BY <1>2, <2>1 DEF Silent
<1>3. /\ kept[a].caps => ~Silent(r, "caps", a)
      /\ kept[a].status # "none" => ~Silent(r, "status", a)
      /\ kept[a].caps \in BOOLEAN
  BY RetainedMessages DEF TypeOK
<1>4. CASE TableAgrees(table, s, kept, beaten)
  BY <1>2, <1>4 DEF TableAgrees
<1>5. CASE table = Empty
  <2>1. table[a] = Absent
    BY <1>5 DEF Empty
  <2>2. table[a].caps = FALSE /\ table[a].status = "absent"
    BY <2>1 DEF Absent
  <2> QED  BY <1>2, <1>3, <2>2 DEF Matches
<1> QED  BY <1>4, <1>5

\* Which dictionaries are read, from step to step.
LEMMA ReadKept ==
    ASSUME UNCHANGED <<cache, collecting>>
    PROVE  Read' = Read
  BY DEF Read

\* ... when a collection begins
LEMMA ReadCollect ==
    ASSUME TypeOK, NEW t \in {"app", "paho"}, NEW for \in {Resting} \cup Queries,
           for \in Queries <=> t = "paho", Collect(t, for), cache' = cache
    PROVE  \A i \in Read' : i \in Read \/ i = Len(tables) + 1
<1>1. /\ collecting'[t].table = Len(tables) + 1
      /\ \A u \in {"app", "paho"} : u # t => collecting'[u] = collecting[u]
  BY CollectType
<1>2. DOMAIN collecting = {"app", "paho"} /\ DOMAIN collecting' = {"app", "paho"}
  BY CollectType DEF TypeOK
<1> QED  BY <1>1, <1>2 DEF Read

\* ... and when it ends.
LEMMA ReadSwaps ==
    ASSUME TypeOK, CollectionsExact, NEW t \in {"app", "paho"}, collecting[t] # Resting,
           Swaps(t), collecting' = [collecting EXCEPT ![t] = Resting]
    PROVE  \A i \in Read' : i \in Read /\ i # cache
<1>1. /\ cache' = collecting[t].table /\ collecting'[t] = Resting
      /\ \A u \in {"app", "paho"} : u # t => collecting'[u] = collecting[u]
  BY SwapsType
<1>2. DOMAIN collecting = {"app", "paho"} /\ DOMAIN collecting' = {"app", "paho"}
  BY SwapsType DEF TypeOK
<1>3. \A u \in {"app", "paho"} : collecting[u] # Resting => collecting[u].table # cache
  BY DEF CollectionsExact
<1> SUFFICES ASSUME NEW i \in Read' PROVE i \in Read /\ i # cache
  OBVIOUS
<1>4. CASE i = cache'
  BY <1>1, <1>2, <1>3, <1>4 DEF Read
<1>5. ASSUME NEW u \in {"app", "paho"}, collecting'[u] # Resting, i = collecting'[u].table
      PROVE  i \in Read /\ i # cache
  BY <1>1, <1>2, <1>3, <1>5 DEF Read
<1> QED  BY <1>2, <1>4, <1>5 DEF Read

\* They exist, and each but the cache has its callbacks.
LEMMA ReadExist ==
    ASSUME TypeOK
    PROVE  /\ \A i \in Read : i \in DOMAIN tables /\ tables[i] \in Tables
           /\ \A i \in Read : i = cache \/ i \in listening
           /\ cache \in Read /\ \A t \in {"app", "paho"} :
                                   collecting[t] # Resting => collecting[t].table \in Read
<1>1. /\ tables \in Seq(Tables) /\ cache \in DOMAIN tables /\ listening \subseteq DOMAIN tables
      /\ DOMAIN collecting = {"app", "paho"}
      /\ \A t \in {"app", "paho"} : collecting[t] # Resting => collecting[t].table \in listening
  BY DEF TypeOK
<1>2. \A i \in DOMAIN tables : tables[i] \in Tables
  BY <1>1
<1> QED  BY <1>1, <1>2 DEF Read

\* Agreement, from step to step.
LEMMA AgreementStep ==
    ASSUME TypeOK, CollectionsExact, Agreement, [Next]_vars
    PROVE  Agreement'
<1>0. /\ inbox \in Seq(All)
      /\ \A a \in Agents : /\ kept[a].caps \in BOOLEAN
                           /\ kept[a].status \in Statuses \cup {"none"}
                           /\ kept[a].caps => kept[a].status # "none"
  BY DEF TypeOK, All, Agreement
<1>1. ASSUME UNCHANGED <<life, kept>>,
             running' => /\ MessagesTrue(inbox', kept', beaten')
                         /\ \A i \in Read' : TableAgrees(tables'[i], inbox', kept', beaten')
      PROVE  Agreement'
  BY <1>1 DEF Agreement
<1>2. ASSUME UNCHANGED <<Broker, tables, cache, collecting, running, inbox>> PROVE Agreement'
  BY <1>1, <1>2, ReadKept DEF Agreement, Broker
<1>3. ASSUME NEW a \in Agents,
             \/ Connect(a) \/ Declare(a) \/ Heartbeat(a) \/ Stop(a) \/ Disconnect(a) \/ Will(a)
      PROVE  Agreement'
  <2>1. AgentStep
    BY <1>3, AgentSteps
  <2>2. \A b \in Agents : life'[b] # "down" \/ kept'[b].caps => kept'[b].status # "none"
    BY <1>3, AgentSteps DEF Agreement
  <2>3. Read' = Read /\ tables' = tables /\ running' = running
    BY <2>1, ReadKept DEF AgentStep, Dictionaries
  <2>4. CASE UNCHANGED <<kept, beaten, inbox>>
    BY <2>2, <2>3, <2>4 DEF Agreement
  <2>5. ASSUME NEW n \in Notices, Heard(n), running
        PROVE  /\ MessagesTrue(inbox', kept', beaten')
               /\ \A i \in Read : TableAgrees(tables[i], inbox', kept', beaten')
    <3>1. inbox' = Append(inbox, n) /\ Announces(n, kept, beaten, kept', beaten') /\ n \in All
      BY <2>5 DEF Heard, All
    <3>2. MessagesTrue(inbox, kept, beaten)
          /\ \A i \in Read : TableAgrees(tables[i], inbox, kept, beaten)
      BY <2>5 DEF Agreement
    <3> QED  BY <1>0, <3>1, <3>2, TrueAppend, AgreesAppend
  <2> QED  BY <2>1, <2>2, <2>3, <2>4, <2>5 DEF AgentStep, Agreement
<1>4. CASE Start
  <2>1. PICK r \in Retained : inbox' = r
    BY <1>4 DEF Start
  <2>2. UNCHANGED <<life, kept, beaten, tables, cache, collecting>>
    BY <1>4 DEF Start, Broker, Dictionaries
  <2>3. <<>> \in Seq(All) /\ r \in Seq(All) /\ <<>> \o r = r
    BY <2>1, RetainedMessages DEF All
  <2>4. MessagesTrue(<<>>, kept, beaten)
    BY DEF MessagesTrue
  <2>5. MessagesTrue(r, kept, beaten)
    BY <2>3, <2>4, TrueConcat
  <2>6. TableAgrees(Empty, r, kept, beaten)
    BY <2>3, AgreesConcat
  <2>7. \A i \in Read' : tables'[i] = Empty
    <3>1. tables = <<Empty>> /\ cache = 1 /\ \A t \in {"app", "paho"} : collecting[t] = Resting
      BY <1>4 DEF Start, CollectionsExact
    <3>2. \A i \in Read : i = 1
      BY <3>1 DEF Read, TypeOK
    <3> QED  BY <2>2, <3>1, <3>2, ReadKept
  <2> QED  BY <1>1, <2>1, <2>2, <2>5, <2>6, <2>7
<1>5. CASE Restart
  BY <1>1, <1>5 DEF Restart, Broker
<1>6. CASE Handle
  <2>1. /\ Head(inbox) \in Notices /\ inbox' = Tail(inbox) /\ inbox # <<>>
        /\ \A i \in DOMAIN tables :
             \/ tables'[i] = Noted(tables[i], Head(inbox))
             \/ /\ i # cache /\ (Head(inbox).what = "beat" \/ i \notin listening \/ i \notin Read)
                /\ tables'[i] = tables[i]
    BY <1>6, HandleType DEF Handle
  <2>2. UNCHANGED <<life, kept, beaten, running, cache, collecting>> /\ Read' = Read
    BY <1>6, ReadKept DEF Handle, Broker
  <2>3. running
    BY <2>1 DEF CollectionsExact
  <2>4. MessagesTrue(inbox, kept, beaten)
        /\ \A i \in Read : TableAgrees(tables[i], inbox, kept, beaten)
    BY <2>3 DEF Agreement
  <2>5. MessagesTrue(inbox', kept, beaten)
    BY <1>0, <2>1, <2>4, TrueTail
  <2>6. ASSUME NEW i \in Read PROVE TableAgrees(tables'[i], inbox', kept, beaten)
    <3>1. /\ i \in DOMAIN tables /\ tables[i] \in Tables /\ (i = cache \/ i \in listening)
          /\ TableAgrees(tables[i], inbox, kept, beaten)
      BY <2>4, ReadExist
    <3>2. CASE tables'[i] = Noted(tables[i], Head(inbox))
      BY <1>0, <2>1, <2>4, <3>1, <3>2, AgreesNoted
    <3>3. CASE tables'[i] = tables[i] /\ Head(inbox).what = "beat"
      BY <1>0, <2>1, <3>1, <3>3, AgreesSkip
    <3> QED  BY <2>1, <3>1, <3>2, <3>3
  <2> QED  BY <1>1, <2>2, <2>5, <2>6
<1>7. CASE Expire
  BY <1>2, <1>7 DEF Expire
<1>8. ASSUME NEW t \in {"app", "paho"}, NEW for \in {Resting} \cup Queries,
             for \in Queries <=> t = "paho", Collect(t, for), running, cache' = cache,
             UNCHANGED <<life, kept, beaten>>,
             NEW s \in Seq(All), MessagesTrue(s, kept, beaten),
             \A i \in Read : TableAgrees(tables[i], s, kept, beaten),
             NEW r \in Retained, inbox' = s \o r
      PROVE  Agreement'
  <2>1. MessagesTrue(s \o r, kept, beaten)
    BY <1>8, TrueConcat
  <2>2. ASSUME NEW i \in Read' PROVE TableAgrees(tables'[i], s \o r, kept, beaten)
    <3>1. i \in Read \/ i = Len(tables) + 1
      BY <1>8, ReadCollect
    <3>2. CASE i \in Read
      <4>1. tables'[i] = tables[i]
        BY <1>8, <3>2, CollectType, ReadExist
      <4> QED  BY <1>8, <3>2, <4>1, AgreesConcat
    <3>3. CASE i = Len(tables) + 1
      <4>1. tables'[i] = Empty
        BY <1>8, <3>3, CollectType
      <4> QED  BY <1>8, <4>1, AgreesConcat
    <3> QED  BY <3>1, <3>2, <3>3
  <2> QED  BY <1>1, <1>8, <2>1, <2>2
<1>9. CASE GetAgents
  <2>1. Collect("app", Resting) /\ running /\ cache' = cache /\ UNCHANGED <<life, kept, beaten>>
    BY <1>9 DEF GetAgents, Broker
  <2>2. PICK r \in Retained : inbox' = inbox \o r
    BY <1>9 DEF GetAgents
  <2>3. Resting \notin Queries
    BY DEF Resting, Queries
  <2>4. MessagesTrue(inbox, kept, beaten)
        /\ \A i \in Read : TableAgrees(tables[i], inbox, kept, beaten)
    BY <2>1 DEF Agreement
  <2> QED  BY <1>0, <1>8, <2>1, <2>2, <2>3, <2>4
<1>10. CASE CollectForQuery
  <2>1. Collect("paho", Head(inbox)) /\ cache' = cache /\ UNCHANGED <<life, kept, beaten>>
        /\ inbox # <<>> /\ Head(inbox).what = "query"
    BY <1>10 DEF CollectForQuery, Broker
  <2>2. PICK r \in Retained : inbox' = Tail(inbox) \o r
    BY <1>10 DEF CollectForQuery
  <2>3. Head(inbox) \in Queries /\ Tail(inbox) \in Seq(All)
    BY <2>1, QueryType
  <2>4. running
    BY <2>1 DEF CollectionsExact
  <2>5. MessagesTrue(inbox, kept, beaten)
        /\ \A i \in Read : TableAgrees(tables[i], inbox, kept, beaten)
    BY <2>4 DEF Agreement
  <2>6. MessagesTrue(Tail(inbox), kept, beaten)
    BY <1>0, <2>1, <2>5, TrueTail
  <2>7. \A i \in Read : TableAgrees(tables[i], Tail(inbox), kept, beaten)
    BY <1>0, <2>1, <2>5, AgreesSkip
  <2> QED  BY <1>8, <2>1, <2>2, <2>3, <2>4, <2>6, <2>7
<1>11. ASSUME NEW t \in {"app", "paho"}, collecting[t] # Resting, Swaps(t),
              collecting' = [collecting EXCEPT ![t] = Resting],
              UNCHANGED <<Broker, running, inbox>>
       PROVE  Agreement'
  <2>1. \A i \in Read' : i \in Read /\ i # cache
    BY <1>11, ReadSwaps
  <2>2. \A i \in Read' : tables'[i] = tables[i]
    BY <1>11, <2>1, SwapsType, ReadExist
  <2> QED  BY <1>1, <1>11, <2>1, <2>2 DEF Agreement, Broker
<1>12. CASE AppWakes
  BY <1>11, <1>12 DEF AppWakes, Resting
<1>13. CASE PahoWakes
  BY <1>11, <1>13 DEF PahoWakes, Resting
<1>14. CASE AnswerQuery
  <2>1. inbox # <<>> /\ Head(inbox).what = "query" /\ inbox' = Tail(inbox)
        /\ UNCHANGED <<life, kept, beaten, running, tables, cache, collecting>>
    BY <1>14 DEF AnswerQuery, Broker, Dictionaries
  <2>2. running /\ Read' = Read
    BY <2>1, ReadKept DEF CollectionsExact
  <2>3. MessagesTrue(inbox, kept, beaten)
        /\ \A i \in Read : TableAgrees(tables[i], inbox, kept, beaten)
    BY <2>2 DEF Agreement
  <2>4. MessagesTrue(Tail(inbox), kept, beaten)
    BY <1>0, <2>1, <2>3, TrueTail
  <2>5. \A i \in Read : TableAgrees(tables[i], Tail(inbox), kept, beaten)
    BY <1>0, <2>1, <2>3, AgreesSkip
  <2> QED  BY <1>1, <2>1, <2>2, <2>4, <2>5
<1>15. ASSUME NEW m \in Masters, NEW allowed \in BOOLEAN, Ask(m, allowed) PROVE Agreement'
  <2>1. UNCHANGED <<life, kept, beaten, running, tables, cache, collecting>>
    BY <1>15 DEF Ask, Broker, Dictionaries
  <2>2. CASE inbox' = inbox
    BY <1>2, <2>1, <2>2 DEF Broker
  <2>3. CASE inbox' # inbox
    <3>1. inbox' = Append(inbox, Query(m, query[m].corr + 1)) /\ running
      BY <1>15, <2>3 DEF Ask, Sent
    <3>2. Query(m, query[m].corr + 1) \in All /\ Query(m, query[m].corr + 1).what = "query"
      <4>1. query[m].corr \in 0..MaxQueries /\ query[m].corr < MaxQueries
        BY <1>15 DEF Ask, TypeOK
      <4>2. query[m].corr + 1 \in 1..MaxQueries
        BY <4>1, RegistryAssumption
      <4> QED  BY <4>2 DEF Query, All, Queries
    <3>3. PICK n \in All : n = Query(m, query[m].corr + 1) /\ n.what = "query"
      BY <3>2
    <3>4. Announces(n, kept, beaten, kept, beaten)
      BY <3>3 DEF Announces, Tells
    <3>5. MessagesTrue(inbox, kept, beaten)
          /\ \A i \in Read : TableAgrees(tables[i], inbox, kept, beaten)
      BY <3>1 DEF Agreement
    <3>6. MessagesTrue(inbox', kept, beaten)
      BY <1>0, <3>1, <3>3, <3>4, <3>5, TrueAppend
    <3>7. \A i \in Read : TableAgrees(tables[i], inbox', kept, beaten)
      BY <1>0, <3>1, <3>3, <3>4, <3>5, AgreesAppend
    <3> QED  BY <1>1, <2>1, <3>6, <3>7, ReadKept
  <2> QED  BY <2>2, <2>3
<1>16. ASSUME NEW m \in Masters, TakeResponse(m) \/ TimeOut(m) \/ Route(m) PROVE Agreement'
  BY <1>2, <1>16 DEF TakeResponse, TimeOut, Route, Dictionaries
<1>17. CASE UNCHANGED vars
  BY <1>2, <1>17 DEF vars, Dictionaries
<1> QED
  BY <1>3, <1>4, <1>5, <1>6, <1>7, <1>9, <1>10, <1>12, <1>13, <1>14, <1>15, <1>16, <1>17 DEF Next

\* The broker's messages and the registry's dictionaries, in every state.
LEMMA AgreementInvariant == Init /\ [][Next]_vars => [](CollectionsExact /\ Agreement)
<1>1. Init => CollectionsExact /\ Agreement
  <2>1. Init => CollectionsExact
    BY DEF Init, CollectionsExact
  <2>2. Init => Agreement
    BY DEF Init, Agreement
  <2> QED  BY <2>1, <2>2
<1>2. TypeOK /\ (CollectionsExact /\ Agreement) /\ [Next]_vars => (CollectionsExact /\ Agreement)'
  BY CollectionsStep, AgreementStep
<1> QED  BY <1>1, <1>2, TypeInvariant, PTL

\* When the registry has handled all it was sent, its table says of each agent what
\* the broker retains, whatever was collected, swapped, expired or restarted
\* (registry.py:8-12, 136-139; board_db.py:60-121).
THEOREM RegistriesAgree == Spec => []RegistryAgrees
<1>1. TypeOK /\ Agreement => RegistryAgrees
  <2> SUFFICES ASSUME TypeOK, Agreement, running, inbox = <<>>, NEW a \in Agents
               PROVE  LET e == tables[cache][a] IN
                        /\ e.caps = kept[a].caps
                        /\ \/ e.status = kept[a].status
                           \/ kept[a].status = "none" /\ e.status = "absent"
                           \/ beaten[a] /\ e.status = "online"
    BY DEF RegistryAgrees
  <2>1. TableAgrees(tables[cache], inbox, kept, beaten)
    BY ReadExist DEF Agreement
  <2>2. Silent(inbox, "caps", a) /\ Silent(inbox, "status", a)
    BY DEF Silent
  <2>3. tables[cache][a].caps = kept[a].caps /\ Matches(tables[cache][a], kept[a], beaten[a])
    BY <2>1, <2>2 DEF TableAgrees
  <2> QED  BY <2>3 DEF Matches
<1> QED  BY <1>1, TypeInvariant, AgreementInvariant, PTL DEF Spec

-----------------------------------------------------------------------------
(* RoutedToOnline.  What is said before a query is reached was so after it *)
(* was sent, or the answer cannot tell.                                    *)

Narrow(q, q2) ==
    \A n \in Queries : Asks(n, q2) => Asks(n, q) /\ q[n.about].online \subseteq q2[n.about].online

\* What comes after a message does not matter to it.
LEMMA SamePrefix ==
    ASSUME NEW s, NEW t, NEW k, \A i \in 1..(k - 1) : t[i] = s[i],
           NEW on, NEW on2, on \subseteq on2
    PROVE  /\ MessagesLater(s, k, on) => MessagesLater(t, k, on2)
           /\ \A table : TableLater(table, s, k, on) => TableLater(table, t, k, on2)
<1>1. ASSUME MessagesLater(s, k, on) PROVE MessagesLater(t, k, on2)
  <2> SUFFICES ASSUME NEW i \in 1..(k - 1), t[i].what \in {"status", "beat"}, t[i].value = "online",
                      \A j \in (i + 1)..(k - 1) : ~Tells(t[j], "status", t[i].about)
               PROVE  t[i].about \in on2
    BY DEF MessagesLater
  <2>1. t[i] = s[i] /\ \A j \in (i + 1)..(k - 1) : j \in 1..(k - 1) /\ t[j] = s[j]
    OBVIOUS
  <2> QED  BY <1>1, <2>1 DEF MessagesLater
<1>2. ASSUME NEW table, TableLater(table, s, k, on) PROVE TableLater(table, t, k, on2)
  BY <1>2 DEF TableLater, NoneBefore
<1> QED  BY <1>1, <1>2

\* A message is sent, or what the broker retains, and no query that is waited for.
LEMMA LaterConcat ==
    ASSUME NEW s \in Seq(All), NEW r \in Seq(All), NEW q, NEW q2, NEW table,
           Later(s, q, table), Narrow(q, q2), \A i \in DOMAIN r : ~Asks(r[i], q2)
    PROVE  Later(s \o r, q2, table)
<1> DEFINE t == s \o r
<1>1. /\ \A i \in DOMAIN s : i \in DOMAIN t /\ t[i] = s[i]
      /\ \A i \in DOMAIN t : i \in DOMAIN s \/ (i - Len(s) \in DOMAIN r /\ t[i] = r[i - Len(s)])
  BY ConcatElements
<1>2. \A k \in DOMAIN s : \A i \in 1..(k - 1) : i \in DOMAIN s
  OBVIOUS
<1> HIDE DEF t
<1> SUFFICES ASSUME NEW k \in DOMAIN t, Asks(t[k], q2)
             PROVE  /\ MessagesLater(t, k, q2[t[k].about].online)
                    /\ TableLater(table, t, k, q2[t[k].about].online)
  BY DEF Later, t
<1>3. k \in DOMAIN s
  BY <1>1
<1>4. PICK n \in All : n = s[k] /\ n = t[k]
  BY <1>1, <1>3
<1>5. n \in Queries
  BY <1>4, MessageKinds DEF All, Asks
<1>6. Asks(n, q) /\ q[n.about].online \subseteq q2[n.about].online
  BY <1>4, <1>5 DEF Narrow
<1>7. MessagesLater(s, k, q[n.about].online) /\ TableLater(table, s, k, q[n.about].online)
  BY <1>3, <1>4, <1>6 DEF Later
<1>8. \A i \in 1..(k - 1) : t[i] = s[i]
  BY <1>1, <1>2, <1>3
<1>9. PICK on, on2 : on = q[n.about].online /\ on2 = q2[n.about].online
  OBVIOUS
<1>10. MessagesLater(s, k, on) /\ TableLater(table, s, k, on) /\ on \subseteq on2
  BY <1>6, <1>7, <1>9
<1>11. MessagesLater(t, k, on2) /\ TableLater(table, t, k, on2)
  BY <1>8, <1>10, SamePrefix
<1> QED  BY <1>4, <1>9, <1>11

\* Nothing is sent.
LEMMA LaterNarrow ==
    ASSUME NEW s \in Seq(All), NEW q, NEW q2, NEW table, Later(s, q, table), Narrow(q, q2)
    PROVE  Later(s, q2, table)
<1>1. <<>> \in Seq(All) /\ s \o <<>> = s /\ \A i \in DOMAIN <<>> : ~Asks(<<>>[i], q2)
  OBVIOUS
<1> QED  BY <1>1, LaterConcat

\* A new dictionary says nobody is online.
LEMMA LaterEmpty ==
    ASSUME NEW s, NEW q, NEW table, Later(s, q, table)
    PROVE  Later(s, q, Empty)
<1>1. \A a \in Agents : Empty[a].status # "online"
  BY DEF Empty, Absent
<1> QED  BY <1>1 DEF Later, TableLater

\* The first message is taken.
LEMMA TailLater ==
    ASSUME NEW s \in Seq(All), s # <<>>, NEW k \in DOMAIN Tail(s), NEW on,
           MessagesLater(s, k + 1, on)
    PROVE  MessagesLater(Tail(s), k, on)
<1> DEFINE t == Tail(s)
<1>1. /\ \A i \in 1..(k - 1) : i + 1 \in 1..k /\ t[i] = s[i + 1]
      /\ k \in Nat
  BY TailElements
<1> HIDE DEF t
<1> SUFFICES ASSUME NEW i \in 1..(k - 1), t[i].what \in {"status", "beat"}, t[i].value = "online",
                    \A j \in (i + 1)..(k - 1) : ~Tells(t[j], "status", t[i].about)
             PROVE  t[i].about \in on
  BY DEF MessagesLater, t
<1>2. ASSUME NEW j \in (i + 2)..k PROVE ~Tells(s[j], "status", s[i + 1].about)
  <2>1. j - 1 \in (i + 1)..(k - 1) /\ j - 1 \in 1..(k - 1) /\ (j - 1) + 1 = j
    BY <1>1
  <2> QED  BY <1>1, <2>1
<1>3. i + 1 \in 1..((k + 1) - 1) /\ ((i + 1) + 1)..((k + 1) - 1) = (i + 2)..k
  BY <1>1
<1>4. \A j \in ((i + 1) + 1)..((k + 1) - 1) : ~Tells(s[j], "status", s[i + 1].about)
  BY <1>2, <1>3
<1>5. s[i + 1].what \in {"status", "beat"} /\ s[i + 1].value = "online"
  BY <1>1
<1> QED  BY <1>1, <1>3, <1>4, <1>5 DEF MessagesLater

\* ... and every dictionary that is written to learns it.
LEMMA LaterNoted ==
    ASSUME NEW s \in Seq(All), s # <<>>, NEW q, NEW table \in Tables, Later(s, q, table),
           Head(s) \in Notices
    PROVE  Later(Tail(s), q, Noted(table, Head(s)))
<1>1. PICK n \in Notices : n = Head(s) /\ n = s[1]
  BY TailElements
<1>2. n.about \in Agents /\ (n.what = "beat" => n.value = "online")
      /\ n.what \in {"caps", "status", "beat"}
  BY NoticeFields
<1>3. \A a \in Agents : table[a] \in [caps : BOOLEAN, status : Statuses \cup {"absent", "unknown"}]
  BY DEF Tables, Entries
<1>4. ASSUME NEW a \in Agents, Noted(table, n)[a].status = "online"
      PROVE  \/ table[a].status = "online" /\ ~Tells(n, "status", a)
             \/ n.about = a /\ n.what \in {"status", "beat"} /\ n.value = "online"
  <2>1. CASE n.about # a
    BY <1>2, <1>4, <2>1 DEF Noted, Tables, Tells
  <2>2. CASE n.about = a /\ n.what = "caps"
    <3>1. Noted(table, n)[a] =
            [caps |-> TRUE, status |-> IF table[a] = Absent THEN "unknown" ELSE table[a].status]
      BY <1>2, <2>2 DEF Noted, Tables
    <3>2. Noted(table, n)[a].status = IF table[a] = Absent THEN "unknown" ELSE table[a].status
      BY <3>1
    <3> QED  BY <1>4, <2>2, <3>2 DEF Tells
  <2>3. CASE n.about = a /\ n.what # "caps"
    <3>1. Noted(table, n)[a] = [table[a] EXCEPT !.status = n.value]
      BY <1>2, <2>3 DEF Noted, Tables
    <3>2. Noted(table, n)[a].status = n.value
      BY <1>3, <3>1
    <3> QED  BY <1>2, <1>4, <2>3, <3>2
  <2> QED  BY <2>1, <2>2, <2>3
<1> DEFINE t == Tail(s)
<1>5. \A k \in DOMAIN t : k \in Nat /\ k + 1 \in DOMAIN s /\ t[k] = s[k + 1]
  BY TailElements
<1> SUFFICES ASSUME NEW k \in DOMAIN t, Asks(t[k], q)
             PROVE  /\ MessagesLater(t, k, q[t[k].about].online)
                    /\ TableLater(Noted(table, n), t, k, q[t[k].about].online)
  BY <1>1 DEF Later
<1>6. PICK on : on = q[t[k].about].online
  OBVIOUS
<1>7. MessagesLater(s, k + 1, on) /\ TableLater(table, s, k + 1, on)
  BY <1>5, <1>6 DEF Later
<1>8. MessagesLater(t, k, on)
  BY <1>7, TailLater
<1>9. ASSUME NEW a \in Agents, NoneBefore(t, k, a), Noted(table, n)[a].status = "online"
      PROVE  a \in on
  <2>1. \A i \in 2..((k + 1) - 1) : ~Tells(s[i], "status", a)
    <3> SUFFICES ASSUME NEW i \in 2..((k + 1) - 1) PROVE ~Tells(s[i], "status", a)
      OBVIOUS
    <3>1. i - 1 \in 1..(k - 1) /\ i - 1 \in DOMAIN t /\ t[i - 1] = s[(i - 1) + 1] /\ (i - 1) + 1 = i
      BY <1>5
    <3> QED  BY <1>9, <3>1 DEF NoneBefore
  <2>2. k \in Nat /\ k >= 1
    BY <1>5
  <2>3. CASE table[a].status = "online" /\ ~Tells(n, "status", a)
    <3>1. NoneBefore(s, k + 1, a)
      BY <1>1, <2>1, <2>2, <2>3 DEF NoneBefore
    <3> QED  BY <1>7, <2>3, <3>1 DEF TableLater
  <2>4. CASE n.about = a /\ n.what \in {"status", "beat"} /\ n.value = "online"
    <3>1. 1 \in 1..((k + 1) - 1) /\ (1 + 1)..((k + 1) - 1) = 2..((k + 1) - 1)
      BY <2>2
    <3>2. \A j \in (1 + 1)..((k + 1) - 1) : ~Tells(s[j], "status", s[1].about)
      BY <1>1, <2>1, <2>4, <3>1
    <3> QED  BY <1>1, <1>7, <2>4, <3>1, <3>2 DEF MessagesLater
  <2> QED  BY <1>4, <1>9, <2>3, <2>4
<1> QED  BY <1>6, <1>8, <1>9 DEF TableLater

\* ... but heartbeats may not be written, and queries are not.
LEMMA LaterSkip ==
    ASSUME NEW s \in Seq(All), s # <<>>, NEW q, NEW table, Later(s, q, table),
           Head(s).what \in {"beat", "query"}
    PROVE  Later(Tail(s), q, table)
<1> DEFINE t == Tail(s)
<1>1. \A k \in DOMAIN t : k \in Nat /\ k + 1 \in DOMAIN s /\ t[k] = s[k + 1]
  BY TailElements
<1>2. s[1] = Head(s)
  OBVIOUS
<1> SUFFICES ASSUME NEW k \in DOMAIN t, Asks(t[k], q)
             PROVE  /\ MessagesLater(t, k, q[t[k].about].online)
                    /\ TableLater(table, t, k, q[t[k].about].online)
  BY DEF Later
<1>3. PICK on : on = q[t[k].about].online
  OBVIOUS
<1>4. MessagesLater(s, k + 1, on) /\ TableLater(table, s, k + 1, on)
  BY <1>1, <1>3 DEF Later
<1>5. MessagesLater(t, k, on)
  BY <1>4, TailLater
<1>6. ASSUME NEW a \in Agents, NoneBefore(t, k, a) PROVE NoneBefore(s, k + 1, a)
  <2> SUFFICES ASSUME NEW i \in 1..((k + 1) - 1) PROVE ~Tells(s[i], "status", a)
    BY DEF NoneBefore
  <2>1. CASE i = 1
    BY <1>2, <2>1 DEF Tells
  <2>2. CASE i # 1
    <3>1. i - 1 \in 1..(k - 1) /\ i - 1 \in DOMAIN t /\ t[i - 1] = s[(i - 1) + 1] /\ (i - 1) + 1 = i
      BY <1>1, <2>2
    <3> QED  BY <1>6, <3>1 DEF NoneBefore
  <2> QED  BY <2>1, <2>2
<1> QED  BY <1>3, <1>4, <1>5, <1>6 DEF TableLater

\* Who is online for the registry, or in a message, when a query is sent, is or says so.
LEMMA LaterAsk ==
    ASSUME TypeOK, NEW s \in Seq(All), NEW n \in Queries, NEW table \in Tables,
           MessagesTrue(s, kept, beaten), TableAgrees(table, s, kept, beaten)
    PROVE  LET on == {a \in Agents : kept[a].status = "online" \/ beaten[a]} IN
             /\ MessagesLater(Append(s, n), Len(s) + 1, on)
             /\ TableLater(table, Append(s, n), Len(s) + 1, on)
<1> DEFINE t == Append(s, n)
           on == {a \in Agents : kept[a].status = "online" \/ beaten[a]}
<1>1. /\ Len(s) \in Nat /\ DOMAIN s = 1..Len(s) /\ 1..((Len(s) + 1) - 1) = DOMAIN s
      /\ \A i \in DOMAIN s : t[i] = s[i]
  OBVIOUS
<1> HIDE DEF t
<1>2. ASSUME NEW i \in DOMAIN s, s[i].what \in {"status", "beat"}, s[i].value = "online",
             \A j \in (i + 1)..Len(s) : ~Tells(s[j], "status", s[i].about)
      PROVE  s[i].about \in on
  <2>1. Newest(s, i)
    <3> SUFFICES ASSUME NEW j \in DOMAIN s, i < j PROVE ~Tells(s[j], "status", s[i].about)
      BY DEF Newest
    <3>1. j \in (i + 1)..Len(s)
      BY <1>1
    <3> QED  BY <1>2, <3>1
  <2>2. PICK e \in All : e = s[i]
    OBVIOUS
  <2>3. e.about \in Agents
    BY <1>2, <2>2, MessageKinds DEF All
  <2>4. kept[e.about].status = "online" \/ beaten[e.about]
    BY <1>2, <2>1, <2>2 DEF MessagesTrue
  <2> QED  BY <2>2, <2>3, <2>4
<1>3. MessagesLater(t, Len(s) + 1, on)
  <2> SUFFICES ASSUME NEW i \in 1..((Len(s) + 1) - 1),
                      t[i].what \in {"status", "beat"}, t[i].value = "online",
                      \A j \in (i + 1)..((Len(s) + 1) - 1) : ~Tells(t[j], "status", t[i].about)
               PROVE  t[i].about \in on
    BY DEF MessagesLater
  <2>1. i \in DOMAIN s /\ t[i] = s[i] /\ (Len(s) + 1) - 1 = Len(s)
    BY <1>1
  <2>2. \A j \in (i + 1)..Len(s) : j \in DOMAIN s /\ t[j] = s[j]
    BY <1>1, <2>1
  <2>3. \A j \in (i + 1)..Len(s) : ~Tells(s[j], "status", s[i].about)
    BY <2>1, <2>2
  <2> QED  BY <1>2, <2>1, <2>3
<1>4. TableLater(table, t, Len(s) + 1, on)
  <2> SUFFICES ASSUME NEW a \in Agents, NoneBefore(t, Len(s) + 1, a), table[a].status = "online"
               PROVE  a \in on
    BY DEF TableLater
  <2>1. Silent(s, "status", a)
    BY <1>1 DEF NoneBefore, Silent
  <2>2. Matches(table[a], kept[a], beaten[a])
    BY <2>1 DEF TableAgrees
  <2> QED  BY <2>2 DEF Matches
<1> QED  BY <1>3, <1>4 DEF t

\* Masters are told who is online.
LEMMA GrowNarrow ==
    ASSUME QueriesGrow
    PROVE  Narrow(query, query')
<1> SUFFICES ASSUME NEW n \in Queries, Asks(n, query')
             PROVE  Asks(n, query) /\ query[n.about].online \subseteq query'[n.about].online
  BY DEF Narrow
<1>1. n.about \in Masters
  BY DEF Queries
<1> QED  BY <1>1 DEF QueriesGrow, Asks

\* A call ends or is given up.
LEMMA ClosedNarrow ==
    ASSUME NEW m \in Masters, query' = query \/ query'[m].at # "waiting",
           \A d \in Masters : d # m => query'[d] = query[d]
    PROVE  Narrow(query, query')
<1> SUFFICES ASSUME NEW n \in Queries, Asks(n, query')
             PROVE  Asks(n, query) /\ query[n.about].online \subseteq query'[n.about].online
  BY DEF Narrow
<1>1. n.about \in Masters
  BY DEF Queries
<1> QED  BY <1>1 DEF Asks

\* What masters do.
LEMMA MasterSteps ==
    ASSUME TypeOK, NEW m \in Masters, TakeResponse(m) \/ TimeOut(m) \/ Route(m)
    PROVE  /\ UNCHANGED <<mode, Broker, running, inbox, Dictionaries, collecting>>
           /\ responses' \subseteq responses
           /\ query'[m].corr = query[m].corr /\ \A d \in Masters : d # m => query'[d] = query[d]
           /\ \/ UNCHANGED query
              \/ /\ query'[m].at = "done" /\ \A r \in responses' : r.to # m
                 /\ query'[m].online = query[m].online
                 /\ \/ query'[m].answer = Empty
                    \/ \E r \in responses : r.to = m /\ query'[m].answer = r.agents
              \/ query[m].at = "done" /\ query'[m].at = "idle"
<1>0. query \in [Masters -> Calls]
  BY DEF TypeOK, Calls
<1>1. ASSUME NEW answer, Ends(m, answer)
      PROVE  /\ responses' \subseteq responses /\ \A r \in responses' : r.to # m
             /\ query'[m].at = "done" /\ query'[m].answer = answer
             /\ query'[m].online = query[m].online
             /\ query'[m].corr = query[m].corr /\ \A d \in Masters : d # m => query'[d] = query[d]
  <2>1. query' = [query EXCEPT ![m].at = "done", ![m].answer = answer]
    BY <1>1 DEF Ends
  <2>2. PICK p : p = [query[m] EXCEPT !.at = "done", !.answer = answer]
    OBVIOUS
  <2>3. query[m] \in Calls
    BY <1>0
  <2>4. p.at = "done" /\ p.answer = answer /\ p.corr = query[m].corr /\ p.online = query[m].online
    BY <2>2, <2>3 DEF Calls
  <2>5. query' = [query EXCEPT ![m] = p]
    BY <2>1, <2>2
  <2>6. query'[m] = p /\ \A d \in Masters : d # m => query'[d] = query[d]
    BY <1>0, <2>5
  <2> QED  BY <1>1, <2>4, <2>6 DEF Ends
<1>2. CASE TakeResponse(m)
  <2>1. PICK r \in responses :
          /\ r.to = m
          /\ IF r.agents = Empty
               THEN responses' = responses \ {r} /\ UNCHANGED query
               ELSE Ends(m, r.agents)
          /\ UNCHANGED <<mode, Broker, running, inbox, Dictionaries, collecting, events, restarts>>
    BY <1>2 DEF TakeResponse
  <2>2. CASE r.agents = Empty
    BY <2>1, <2>2
  <2>3. CASE r.agents # Empty
    BY <1>1, <2>1, <2>3
  <2> QED  BY <2>2, <2>3
<1>3. CASE TimeOut(m)
  BY <1>1, <1>3 DEF TimeOut
<1>4. CASE Route(m)
  <2>1. query' = [query EXCEPT ![m] = [NoQuery EXCEPT !.corr = query[m].corr]]
        /\ query[m].at = "done" /\ UNCHANGED responses
        /\ UNCHANGED <<mode, Broker, running, inbox, Dictionaries, collecting>>
    BY <1>4 DEF Route
  <2>2. PICK p : p = [NoQuery EXCEPT !.corr = query[m].corr]
    OBVIOUS
  <2>3. p.at = "idle" /\ p.corr = query[m].corr
    BY <2>2 DEF NoQuery
  <2>4. query'[m] = p /\ \A d \in Masters : d # m => query'[d] = query[d]
    BY <1>0, <2>1, <2>2
  <2> QED  BY <2>1, <2>3, <2>4
<1> QED  BY <1>2, <1>3, <1>4

\* Queries, from step to step.
LEMMA QueriesStep ==
    ASSUME TypeOK, CollectionsExact, Agreement, QueriesLater, AnswersLater, [Next]_vars
    PROVE  QueriesLater'
<1>0. inbox \in Seq(All)
  BY DEF TypeOK, All
<1>1. ASSUME UNCHANGED <<tables, cache, collecting, inbox>>, Narrow(query, query')
      PROVE  QueriesLater'
  BY <1>0, <1>1, ReadKept, LaterNarrow DEF QueriesLater
<1>2. Narrow(query, query)
  BY DEF Narrow
<1>3. ASSUME NEW r \in Retained PROVE r \in Seq(All) /\ \A i \in DOMAIN r : ~Asks(r[i], query)
  BY <1>3, RetainedMessages DEF All, Asks
<1>4. ASSUME NEW a \in Agents,
             \/ Connect(a) \/ Declare(a) \/ Heartbeat(a) \/ Stop(a) \/ Disconnect(a) \/ Will(a)
      PROVE  QueriesLater'
  <2>1. AgentStep
    BY <1>4, AgentSteps
  <2>2. Narrow(query, query') /\ UNCHANGED <<tables, cache, collecting>>
    BY <2>1, GrowNarrow DEF AgentStep, Dictionaries
  <2>3. CASE inbox' = inbox
    BY <1>1, <2>2, <2>3
  <2>4. ASSUME NEW n \in Notices, inbox' = Append(inbox, n)
        PROVE  QueriesLater'
    <3>1. <<n>> \in Seq(All) /\ inbox' = inbox \o <<n>> /\ \A i \in DOMAIN <<n>> : <<n>>[i] = n
      BY <1>0, <2>4 DEF All
    <3>2. ~Asks(n, query')
      BY NoticeFields DEF Asks
    <3>3. \A i \in Read : Later(inbox \o <<n>>, query', tables[i])
      BY <1>0, <2>2, <3>1, <3>2, LaterConcat DEF QueriesLater
    <3> QED  BY <2>2, <3>1, <3>3, ReadKept DEF QueriesLater
  <2> QED  BY <2>1, <2>3, <2>4 DEF AgentStep, Heard
<1>5. CASE Start
  <2>1. inbox' \in Retained /\ query' = query
    BY <1>5 DEF Start
  <2>2. \A k \in DOMAIN inbox' : ~Asks(inbox'[k], query')
    BY <1>3, <2>1
  <2> QED  BY <2>2 DEF QueriesLater, Later
<1>6. CASE Restart
  BY <1>6 DEF Restart, QueriesLater, Later
<1>7. CASE Handle
  <2>1. /\ Head(inbox) \in Notices /\ inbox' = Tail(inbox) /\ inbox # <<>>
        /\ \A i \in DOMAIN tables :
             \/ tables'[i] = Noted(tables[i], Head(inbox))
             \/ /\ i # cache /\ (Head(inbox).what = "beat" \/ i \notin listening \/ i \notin Read)
                /\ tables'[i] = tables[i]
    BY <1>7, HandleType DEF Handle
  <2>2. Read' = Read /\ query' = query
    BY <1>7, ReadKept DEF Handle
  <2>3. ASSUME NEW i \in Read PROVE Later(Tail(inbox), query, tables'[i])
    <3>1. /\ i \in DOMAIN tables /\ tables[i] \in Tables /\ (i = cache \/ i \in listening)
          /\ Later(inbox, query, tables[i])
      BY ReadExist DEF QueriesLater
    <3>2. CASE tables'[i] = Noted(tables[i], Head(inbox))
      BY <1>0, <2>1, <3>1, <3>2, LaterNoted
    <3>3. CASE tables'[i] = tables[i] /\ Head(inbox).what = "beat"
      BY <1>0, <2>1, <3>1, <3>3, LaterSkip
    <3> QED  BY <2>1, <3>1, <3>2, <3>3
  <2> QED  BY <2>1, <2>2, <2>3 DEF QueriesLater
<1>8. CASE Expire
  BY <1>1, <1>2, <1>8 DEF Expire
<1>9. ASSUME NEW t \in {"app", "paho"}, NEW for \in {Resting} \cup Queries,
             for \in Queries <=> t = "paho", Collect(t, for), cache' = cache, query' = query,
             NEW s \in Seq(All), \A i \in Read : Later(s, query, tables[i]),
             NEW r \in Retained, inbox' = s \o r
      PROVE  QueriesLater'
  <2>1. \A i \in Read : Later(s \o r, query, tables[i])
    BY <1>2, <1>3, <1>9, LaterConcat
  <2>2. Later(s \o r, query, Empty)
    BY <2>1, ReadExist, LaterEmpty
  <2>3. ASSUME NEW i \in Read' PROVE Later(s \o r, query, tables'[i])
    <3>1. i \in Read \/ i = Len(tables) + 1
      BY <1>9, ReadCollect
    <3>2. CASE i \in Read
      <4>1. tables'[i] = tables[i]
        BY <1>9, <3>2, CollectType, ReadExist
      <4> QED  BY <2>1, <3>2, <4>1
    <3>3. CASE i = Len(tables) + 1
      <4>1. tables'[i] = Empty
        BY <1>9, <3>3, CollectType
      <4> QED  BY <2>2, <4>1
    <3> QED  BY <3>1, <3>2, <3>3
  <2> QED  BY <1>9, <2>3 DEF QueriesLater
<1>10. CASE GetAgents
  <2>1. Collect("app", Resting) /\ cache' = cache /\ query' = query
    BY <1>10 DEF GetAgents
  <2>2. PICK r \in Retained : inbox' = inbox \o r
    BY <1>10 DEF GetAgents
  <2>3. Resting \notin Queries
    BY DEF Resting, Queries
  <2>4. \A i \in Read : Later(inbox, query, tables[i])
    BY DEF QueriesLater
  <2> QED  BY <1>0, <1>9, <2>1, <2>2, <2>3, <2>4
<1>11. CASE CollectForQuery
  <2>1. Collect("paho", Head(inbox)) /\ cache' = cache /\ query' = query
        /\ inbox # <<>> /\ Head(inbox).what = "query"
    BY <1>11 DEF CollectForQuery
  <2>2. PICK r \in Retained : inbox' = Tail(inbox) \o r
    BY <1>11 DEF CollectForQuery
  <2>3. Head(inbox) \in Queries /\ Tail(inbox) \in Seq(All)
    BY <2>1, QueryType
  <2>4. \A i \in Read : Later(Tail(inbox), query, tables[i])
    BY <1>0, <2>1, LaterSkip DEF QueriesLater
  <2> QED  BY <1>9, <2>1, <2>2, <2>3, <2>4
<1>12. ASSUME NEW t \in {"app", "paho"}, collecting[t] # Resting, Swaps(t),
              collecting' = [collecting EXCEPT ![t] = Resting],
              UNCHANGED <<inbox, query>>
       PROVE  QueriesLater'
  <2>1. \A i \in Read' : i \in Read /\ i # cache
    BY <1>12, ReadSwaps
  <2>2. \A i \in Read' : tables'[i] = tables[i]
    BY <1>12, <2>1, SwapsType, ReadExist
  <2> QED  BY <1>12, <2>1, <2>2 DEF QueriesLater
<1>13. CASE AppWakes
  BY <1>12, <1>13 DEF AppWakes, Resting
<1>14. CASE PahoWakes
  BY <1>12, <1>14 DEF PahoWakes, Resting
<1>15. CASE AnswerQuery
  <2>1. inbox # <<>> /\ Head(inbox).what = "query" /\ inbox' = Tail(inbox)
        /\ UNCHANGED <<tables, cache, collecting, query>>
    BY <1>15 DEF AnswerQuery, Dictionaries
  <2>2. \A i \in Read : Later(Tail(inbox), query, tables[i])
    BY <1>0, <2>1, LaterSkip DEF QueriesLater
  <2> QED  BY <2>1, <2>2, ReadKept DEF QueriesLater
<1>16. ASSUME NEW m \in Masters, NEW allowed \in BOOLEAN, Ask(m, allowed) PROVE QueriesLater'
  <2>1. UNCHANGED <<tables, cache, collecting, running>> /\ Read' = Read
    BY <1>16, ReadKept DEF Ask, Dictionaries
  <2>2. query[m].corr \in 0..MaxQueries /\ query[m].corr < MaxQueries /\ query[m].at = "idle"
    BY <1>16 DEF Ask, TypeOK
  <2>3. PICK corr \in 1..MaxQueries : corr = query[m].corr + 1
    BY <2>2, RegistryAssumption
  <2> DEFINE on == {a \in Agents : kept[a].status = "online" \/ beaten[a]}
  <2>4. /\ query'[m].at = "waiting" /\ query'[m].corr = corr /\ query'[m].online = on
        /\ \A d \in Masters : d # m => query'[d] = query[d]
    BY <1>16, <2>3 DEF Ask, TypeOK
  <2> HIDE DEF on
  <2>5. ASSUME NEW k \in DOMAIN inbox, Asks(inbox[k], query')
        PROVE  /\ Asks(inbox[k], query) /\ query'[inbox[k].about] = query[inbox[k].about]
               /\ inbox[k].about # m
    <3>1. PICK n \in Queries : n = inbox[k]
      BY <1>0, <2>5, MessageKinds DEF All, Asks
    <3>2. n.about \in Masters /\ n.corr <= query[n.about].corr /\ n.corr \in 1..MaxQueries
      BY <2>5, <3>1 DEF AnswersLater, Past, Queries
    <3>3. n.about # m
      BY <2>2, <2>3, <2>4, <2>5, <3>1, <3>2 DEF Asks
    <3> QED  BY <2>4, <2>5, <3>1, <3>2, <3>3 DEF Asks
  <2>6. ASSUME NEW i \in Read PROVE Later(inbox, query', tables[i])
    BY <2>5 DEF QueriesLater, Later
  <2>7. CASE inbox' = inbox
    BY <2>1, <2>6, <2>7 DEF QueriesLater
  <2>8. CASE inbox' # inbox
    <3>1. PICK n \in Queries : n = Query(m, corr) /\ n.about = m /\ n.corr = corr /\ n.what = "query"
      <4>1. Query(m, corr) \in Queries
        BY DEF Query, Queries
      <4>2. Query(m, corr).about = m /\ Query(m, corr).corr = corr /\ Query(m, corr).what = "query"
        BY DEF Query
      <4> QED  BY <4>1, <4>2
    <3>2. inbox' = Append(inbox, n) /\ running
      BY <1>16, <2>3, <2>8, <3>1 DEF Ask, Sent
    <3>3. n \in All
      BY DEF All
    <3>4. ASSUME NEW i \in Read PROVE Later(Append(inbox, n), query', tables[i])
      <4>1. /\ tables[i] \in Tables /\ MessagesTrue(inbox, kept, beaten)
            /\ TableAgrees(tables[i], inbox, kept, beaten)
        BY <3>2, ReadExist DEF Agreement
      <4>2. /\ MessagesLater(Append(inbox, n), Len(inbox) + 1, on)
            /\ TableLater(tables[i], Append(inbox, n), Len(inbox) + 1, on)
        BY <1>0, <4>1, LaterAsk DEF on
      <4>3. /\ \A k \in DOMAIN inbox : Append(inbox, n)[k] = inbox[k]
                                       /\ \A j \in 1..(k - 1) : Append(inbox, n)[j] = inbox[j]
            /\ \A k \in DOMAIN Append(inbox, n) : k \in DOMAIN inbox
                                                  \/ (k = Len(inbox) + 1 /\ Append(inbox, n)[k] = n)
        BY <1>0, <3>3
      <4> DEFINE t == Append(inbox, n)
      <4> HIDE DEF t
      <4> SUFFICES ASSUME NEW k \in DOMAIN t, Asks(t[k], query')
                   PROVE  /\ MessagesLater(t, k, query'[t[k].about].online)
                          /\ TableLater(tables[i], t, k, query'[t[k].about].online)
        BY DEF Later, t
      <4>4. CASE k \in DOMAIN inbox
        <5>1. t[k] = inbox[k] /\ \A j \in 1..(k - 1) : t[j] = inbox[j]
          BY <4>3, <4>4 DEF t
        <5>2. PICK o : o = query'[inbox[k].about].online
          OBVIOUS
        <5>3. MessagesLater(inbox, k, o) /\ TableLater(tables[i], inbox, k, o)
          BY <2>6, <4>4, <5>1, <5>2 DEF Later
        <5>4. MessagesLater(t, k, o) /\ TableLater(tables[i], t, k, o)
          BY <5>1, <5>3, SamePrefix
        <5> QED  BY <5>1, <5>2, <5>4
      <4>5. CASE k \notin DOMAIN inbox
        BY <2>4, <3>1, <4>2, <4>3, <4>5 DEF t
      <4> QED  BY <4>4, <4>5
    <3> QED  BY <2>1, <3>2, <3>4 DEF QueriesLater
  <2> QED  BY <2>7, <2>8
<1>17. ASSUME NEW m \in Masters, TakeResponse(m) \/ TimeOut(m) \/ Route(m) PROVE QueriesLater'
  <2>1. /\ UNCHANGED <<inbox, tables, cache, collecting>>
        /\ \A d \in Masters : d # m => query'[d] = query[d]
        /\ query' = query \/ query'[m].at # "waiting"
    BY <1>17, MasterSteps DEF Dictionaries
  <2>2. Narrow(query, query')
    BY <2>1, ClosedNarrow
  <2> QED  BY <1>1, <2>1, <2>2
<1>18. CASE UNCHANGED vars
  BY <1>1, <1>2, <1>18 DEF vars, Dictionaries
<1> QED
  BY <1>4, <1>5, <1>6, <1>7, <1>8, <1>10, <1>11, <1>13, <1>14, <1>15, <1>16, <1>17, <1>18 DEF Next


\* A query that waits is none from the future when others are taken ...
LEMMA PastTail ==
    ASSUME NEW s \in Seq(All), s # <<>>, NEW q, Past(s, q)
    PROVE  Past(Tail(s), q)
<1>1. \A i \in DOMAIN Tail(s) : i + 1 \in DOMAIN s /\ Tail(s)[i] = s[i + 1]
  BY TailElements
<1> QED  BY <1>1 DEF Past

\* ... when agents are heard ...
LEMMA PastConcat ==
    ASSUME NEW s \in Seq(All), NEW r \in Seq(All), NEW q, Past(s, q),
           \A i \in DOMAIN r : r[i].what # "query"
    PROVE  Past(s \o r, q)
<1>1. \A i \in DOMAIN (s \o r) : \/ i \in DOMAIN s /\ (s \o r)[i] = s[i]
                                 \/ i - Len(s) \in DOMAIN r /\ (s \o r)[i] = r[i - Len(s)]
  BY ConcatElements
<1> QED  BY <1>1 DEF Past

\* ... and while its master asks no other.
LEMMA PastKept ==
    ASSUME NEW s \in Seq(All), NEW q, NEW q2, Past(s, q),
           \A m \in Masters : q2[m].corr = q[m].corr
    PROVE  Past(s, q2)
<1> SUFFICES ASSUME NEW k \in DOMAIN s, s[k].what = "query" PROVE s[k].corr <= q2[s[k].about].corr
  BY DEF Past
<1>1. PICK n \in All : n = s[k]
  OBVIOUS
<1>2. n.about \in Masters
  BY <1>1, MessageKinds DEF All
<1>3. q2[n.about].corr = q[n.about].corr
  BY <1>2
<1>4. n.corr <= q[n.about].corr
  BY <1>1 DEF Past
<1> QED  BY <1>1, <1>3, <1>4

\* Of the agents in an answer the table says the same.
LEMMA OnlineFiltered ==
    ASSUME NEW table
    PROVE  /\ Online(Filtered(table)) \subseteq Online(table)
           /\ Online(Empty) = {}
<1>1. \A a \in Agents : Filtered(table)[a] = table[a] \/ Filtered(table)[a] = Absent
  BY DEF Filtered
<1>2. Absent.status # "online"
  BY DEF Absent
<1>3. \A a \in Agents : Empty[a] = Absent
  BY DEF Empty
<1> QED  BY <1>1, <1>2, <1>3 DEF Online

Answers(rs, q) ==
    /\ \A r \in rs : q[r.to].at = "waiting" /\ Online(r.agents) \subseteq q[r.to].online
    /\ \A m \in Masters : q[m].at = "done" => Online(q[m].answer) \subseteq q[m].online

\* What answers say when agents are heard.
LEMMA AnswersGrow ==
    ASSUME TypeOK, QueriesGrow, Answers(responses, query), responses' = responses
    PROVE  Answers(responses', query')
<1>1. \A r \in responses : r.to \in Masters
  BY DEF TypeOK
<1>2. \A r \in responses' : query'[r.to].at = "waiting"
                            /\ Online(r.agents) \subseteq query'[r.to].online
  BY <1>1 DEF Answers, QueriesGrow
<1>3. \A m \in Masters : query'[m].at = "done" => Online(query'[m].answer) \subseteq query'[m].online
  BY DEF Answers, QueriesGrow
<1> QED  BY <1>2, <1>3 DEF Answers

\* What is answered to a query says no more than the table it is answered from.
LEMMA AnswersResponds ==
    ASSUME TypeOK, Answers(responses, query), NEW q \in Queries, NEW table \in Tables,
           Responds(q, table), query' = query,
           Asks(q, query) => Online(table) \subseteq query[q.about].online
    PROVE  Answers(responses', query')
<1>1. q.about \in Masters /\ q.what = "query"
  BY DEF Queries
<1> SUFFICES ASSUME NEW r \in responses'
             PROVE  query[r.to].at = "waiting" /\ Online(r.agents) \subseteq query[r.to].online
  BY DEF Answers
<1>2. CASE r \in responses
  BY <1>2 DEF Answers
<1>3. CASE /\ query[q.about].at = "waiting" /\ q.corr = query[q.about].corr
           /\ r.to = q.about /\ r.agents = Filtered(table)
  BY <1>1, <1>3, OnlineFiltered DEF Asks
<1> QED  BY <1>2, <1>3, RespondsType

\* Answers, from step to step.
LEMMA AnswersStep ==
    ASSUME TypeOK, CollectionsExact, QueriesLater, AnswersLater, [Next]_vars
    PROVE  AnswersLater'
<1>0. inbox \in Seq(All) /\ Past(inbox, query) /\ Answers(responses, query)
  BY DEF TypeOK, All, AnswersLater, Answers
<1>1. SUFFICES Past(inbox', query') /\ Answers(responses', query')
  BY DEF AnswersLater, Answers
<1>2. ASSUME UNCHANGED <<query, responses>>, Past(inbox', query)
      PROVE  Past(inbox', query') /\ Answers(responses', query')
  BY <1>0, <1>2
<1>3. ASSUME NEW r \in Retained PROVE r \in Seq(All) /\ \A i \in DOMAIN r : r[i].what # "query"
  BY <1>3, RetainedMessages DEF All
<1>4. ASSUME NEW a \in Agents,
             \/ Connect(a) \/ Declare(a) \/ Heartbeat(a) \/ Stop(a) \/ Disconnect(a) \/ Will(a)
      PROVE  Past(inbox', query') /\ Answers(responses', query')
  <2>1. AgentStep
    BY <1>4, AgentSteps
  <2>2. Answers(responses', query')
    BY <1>0, <2>1, AnswersGrow DEF AgentStep
  <2>3. \A m \in Masters : query'[m].corr = query[m].corr
    BY <2>1 DEF AgentStep, QueriesGrow
  <2>4. CASE inbox' = inbox
    BY <1>0, <2>2, <2>3, <2>4, PastKept
  <2>5. ASSUME NEW n \in Notices, inbox' = Append(inbox, n)
        PROVE  Past(inbox', query')
    <3>1. <<n>> \in Seq(All) /\ inbox' = inbox \o <<n>> /\ \A i \in DOMAIN <<n>> : <<n>>[i] = n
      BY <1>0, <2>5 DEF All
    <3>2. n.what # "query"
      BY NoticeFields
    <3>3. PICK r \in Seq(All) : r = <<n>> /\ \A i \in DOMAIN r : r[i].what # "query"
      BY <3>1, <3>2
    <3>4. Past(inbox \o r, query)
      BY <1>0, <3>3, PastConcat
    <3>5. inbox \o r \in Seq(All)
      BY <1>0, <3>3, ConcatElements
    <3> QED  BY <2>3, <3>1, <3>3, <3>4, <3>5, PastKept
  <2> QED  BY <2>1, <2>2, <2>4, <2>5 DEF AgentStep, Heard
<1>5. CASE Start
  <2>1. inbox' \in Retained /\ UNCHANGED <<query, responses>>
    BY <1>5 DEF Start
  <2>2. Past(inbox', query)
    BY <1>3, <2>1 DEF Past
  <2> QED  BY <1>2, <2>1, <2>2
<1>6. CASE Restart
  BY <1>2, <1>6 DEF Restart, Past
<1>7. CASE Handle
  <2>1. inbox' = Tail(inbox) /\ inbox # <<>> /\ UNCHANGED <<query, responses>>
    BY <1>7 DEF Handle
  <2> QED  BY <1>0, <1>2, <2>1, PastTail
<1>8. CASE Expire
  BY <1>0, <1>2, <1>8 DEF Expire
<1>9. CASE GetAgents
  <2>1. PICK r \in Retained : inbox' = inbox \o r
    BY <1>9 DEF GetAgents
  <2>2. UNCHANGED <<query, responses>>
    BY <1>9 DEF GetAgents
  <2> QED  BY <1>0, <1>2, <1>3, <2>1, <2>2, PastConcat
<1>10. CASE CollectForQuery
  <2>1. PICK r \in Retained : inbox' = Tail(inbox) \o r
    BY <1>10 DEF CollectForQuery
  <2>2. UNCHANGED <<query, responses>> /\ inbox # <<>>
    BY <1>10 DEF CollectForQuery
  <2>3. Past(Tail(inbox), query) /\ Tail(inbox) \in Seq(All)
    BY <1>0, <2>2, PastTail, TailElements
  <2> QED  BY <1>2, <1>3, <2>1, <2>2, <2>3, PastConcat
<1>11. CASE AppWakes
  BY <1>0, <1>2, <1>11 DEF AppWakes
<1>12. CASE PahoWakes
  <2>1. /\ collecting["paho"] # Resting /\ UNCHANGED <<inbox, query>>
        /\ Responds(collecting["paho"].for, tables[collecting["paho"].table])
    BY <1>12 DEF PahoWakes, Resting
  <2>2. tables[collecting["paho"].table] = Empty
    BY <2>1 DEF CollectionsExact
  <2>3. Empty \in Tables
    <3>1. PICK table \in Tables : table = tables[cache]
      BY DEF TypeOK
    <3> QED  BY <3>1, TableKinds
  <2>4. PICK q \in Queries : q = collecting["paho"].for
    BY <2>1 DEF TypeOK
  <2>5. Answers(responses', query')
    BY <1>0, <2>1, <2>2, <2>3, <2>4, OnlineFiltered, AnswersResponds
  <2> QED  BY <1>0, <2>1, <2>5
<1>13. CASE AnswerQuery
  <2>1. /\ inbox # <<>> /\ Head(inbox).what = "query" /\ inbox' = Tail(inbox)
        /\ Responds(Head(inbox), tables[cache]) /\ query' = query
    BY <1>13 DEF AnswerQuery
  <2>2. PICK q \in Queries : q = Head(inbox)
    BY <2>1, QueryType
  <2>3. PICK table \in Tables : table = tables[cache]
    BY DEF TypeOK
  <2>4. ASSUME Asks(q, query) PROVE Online(table) \subseteq query[q.about].online
    <3>1. cache \in Read /\ 1 \in DOMAIN inbox /\ inbox[1] = q
      BY <1>0, <2>1, <2>2, TailElements DEF Read
    <3>2. TableLater(table, inbox, 1, query[q.about].online)
      BY <2>3, <2>4, <3>1 DEF QueriesLater, Later
    <3>3. \A a \in Agents : NoneBefore(inbox, 1, a)
      BY DEF NoneBefore
    <3> QED  BY <3>2, <3>3 DEF TableLater, Online
  <2>5. Answers(responses', query')
    BY <1>0, <2>1, <2>2, <2>3, <2>4, AnswersResponds
  <2> QED  BY <1>0, <2>1, <2>5, PastTail
<1>14. ASSUME NEW m \in Masters, NEW allowed \in BOOLEAN, Ask(m, allowed)
       PROVE  Past(inbox', query') /\ Answers(responses', query')
  <2>1. query[m].corr \in 0..MaxQueries /\ query[m].corr < MaxQueries /\ query[m].at = "idle"
    BY <1>14 DEF Ask, TypeOK
  <2>2. PICK corr \in 1..MaxQueries : corr = query[m].corr + 1
    BY <2>1, RegistryAssumption
  <2>3. /\ query'[m].at = "waiting" /\ query'[m].corr = corr
        /\ \A d \in Masters : d # m => query'[d] = query[d]
        /\ responses' = responses
        /\ inbox' = inbox \/ inbox' = Append(inbox, Query(m, corr))
    BY <1>14, <2>2 DEF Ask, Sent, TypeOK
  <2>4. Answers(responses', query')
    <3>1. \A r \in responses : r.to # m /\ r.to \in Masters
      BY <1>0, <2>1 DEF Answers, TypeOK
    <3>2. \A r \in responses : query'[r.to] = query[r.to]
      BY <2>3, <3>1
    <3> QED  BY <1>0, <2>3, <3>2 DEF Answers
  <2>5. Past(inbox, query')
    <3> SUFFICES ASSUME NEW k \in DOMAIN inbox, inbox[k].what = "query"
                 PROVE  inbox[k].corr <= query'[inbox[k].about].corr
      BY DEF Past
    <3>1. PICK n \in All : n = inbox[k]
      BY <1>0
    <3>2. n.about \in Masters /\ n.corr \in 1..MaxQueries /\ n.what = "query"
      BY <3>1, MessageKinds DEF All
    <3>3. n.corr <= query[n.about].corr
      BY <1>0, <3>1 DEF Past
    <3>4. CASE n.about = m
      BY <2>1, <2>2, <2>3, <3>1, <3>2, <3>3, <3>4, RegistryAssumption
    <3>5. CASE n.about # m
      BY <2>3, <3>1, <3>2, <3>3, <3>5
    <3> QED  BY <3>4, <3>5
  <2>6. CASE inbox' = inbox
    BY <2>4, <2>5, <2>6
  <2>7. CASE inbox' = Append(inbox, Query(m, corr))
    <3>1. Query(m, corr).about = m /\ Query(m, corr).corr = corr
      BY DEF Query
    <3>2. Query(m, corr) \in All
      BY DEF Query, Queries, All
    <3>3. PICK n \in All : n = Query(m, corr) /\ n.about = m /\ n.corr = corr
      BY <3>1, <3>2
    <3>4. \A i \in DOMAIN inbox' : \/ i \in DOMAIN inbox /\ inbox'[i] = inbox[i]
                                   \/ inbox'[i] = n
      BY <1>0, <2>7, <3>3, AppendElements
    <3>5. n.corr <= query'[n.about].corr
      BY <2>2, <2>3, <3>3
    <3> QED  BY <2>4, <2>5, <3>4, <3>5 DEF Past
  <2> QED  BY <2>3, <2>6, <2>7
<1>15. ASSUME NEW m \in Masters, TakeResponse(m) \/ TimeOut(m) \/ Route(m)
       PROVE  Past(inbox', query') /\ Answers(responses', query')
  <2>1. /\ UNCHANGED inbox /\ responses' \subseteq responses
        /\ query'[m].corr = query[m].corr /\ \A d \in Masters : d # m => query'[d] = query[d]
        /\ \/ UNCHANGED query
           \/ /\ query'[m].at = "done" /\ \A r \in responses' : r.to # m
              /\ query'[m].online = query[m].online
              /\ \/ query'[m].answer = Empty
                 \/ \E r \in responses : r.to = m /\ query'[m].answer = r.agents
           \/ query[m].at = "done" /\ query'[m].at = "idle"
    BY <1>15, MasterSteps
  <2>2. \A d \in Masters : query'[d].corr = query[d].corr
    BY <2>1
  <2>3. Past(inbox', query')
    BY <1>0, <2>1, <2>2, PastKept
  <2>4. \A r \in responses' : r.to \in Masters /\ r \in responses
    BY <2>1 DEF TypeOK
  <2>5. CASE UNCHANGED query
    BY <1>0, <2>3, <2>4, <2>5 DEF Answers
  <2>6. CASE query[m].at = "done" /\ query'[m].at = "idle"
    <3>1. \A r \in responses' : r.to # m /\ query'[r.to] = query[r.to]
      BY <1>0, <2>1, <2>4, <2>6 DEF Answers
    <3>2. \A d \in Masters : query'[d].at = "done" => query'[d] = query[d]
      BY <2>1, <2>6
    <3> QED  BY <1>0, <2>3, <2>4, <3>1, <3>2 DEF Answers
  <2>7. CASE /\ query'[m].at = "done" /\ \A r \in responses' : r.to # m
             /\ query'[m].online = query[m].online
             /\ \/ query'[m].answer = Empty
                \/ \E r \in responses : r.to = m /\ query'[m].answer = r.agents
    <3>1. \A r \in responses' : query'[r.to] = query[r.to]
      BY <2>1, <2>4, <2>7
    <3>2. Online(query'[m].answer) \subseteq query'[m].online
      BY <1>0, <2>7, OnlineFiltered DEF Answers
    <3> QED  BY <1>0, <2>1, <2>3, <2>4, <3>1, <3>2 DEF Answers
  <2> QED  BY <2>1, <2>5, <2>6, <2>7
<1>16. CASE UNCHANGED vars
  BY <1>0, <1>2, <1>16 DEF vars
<1> QED
  BY <1>4, <1>5, <1>6, <1>7, <1>8, <1>9, <1>10, <1>11, <1>12, <1>13, <1>14, <1>15, <1>16 DEF Next

\* Queries and answers, in every state.
LEMMA RoutingInvariant == Init /\ [][Next]_vars => []RoutingExact
<1>1. Init => RoutingExact
  <2> SUFFICES ASSUME Init PROVE RoutingExact
    OBVIOUS
  <2>1. inbox = <<>> /\ responses = {} /\ \A m \in Masters : query[m].at = "idle"
    BY DEF Init, NoQuery
  <2>2. QueriesLater
    BY <2>1 DEF QueriesLater, Later
  <2>3. AnswersLater
    BY <2>1 DEF AnswersLater, Past
  <2> QED  BY <2>2, <2>3 DEF RoutingExact
<1>2. TypeOK /\ (CollectionsExact /\ Agreement) /\ RoutingExact /\ [Next]_vars => RoutingExact'
  BY QueriesStep, AnswersStep DEF RoutingExact
<1> QED  BY <1>1, <1>2, TypeInvariant, AgreementInvariant, PTL

\* A task is routed only to agents that were online, or said so, at some moment
\* after the query was sent (bbs.py:276-287, registry.py:79-85).
THEOREM TasksAreRoutedToOnline == Spec => []RoutedToOnline
<1>1. RoutingExact => RoutedToOnline
  BY DEF RoutingExact, AnswersLater, RoutedToOnline, RoutedTo, Online
<1> QED  BY <1>1, RoutingInvariant, PTL DEF Spec
=============================================================================
