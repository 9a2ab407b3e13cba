--------------------------- MODULE PluginsProofs ---------------------------
(***************************************************************************)
(* Proofs about the two plug-in managers, for any files, classes and       *)
(* priorities, any number of threads that load plug-ins or filter messages *)
(* and any number of instances.                                            *)
(***************************************************************************)
EXTENDS Plugins, FiniteSetTheorems, SequenceTheorems, TLAPS

(***************************************************************************)
(* Where calls are.                                                        *)
(***************************************************************************)

\* Steps at which a plug-in has an instance that is not yet ready.
Loading == {"subscribe", "filter", "insert", "sort", "sorting", "return"}

\* What is known of the place a call has got to.
JobFits(j) ==
    /\ j.at \in Loading => j.inst \in 1..Len(made)
    /\ j.at = "insert" =>
         /\ manager = "server"
         /\ j.place \in 1..(j.length + 1)
         /\ j.length <= Len(chain)
    /\ j.at = "unload" => manager = "server"
    /\ j.at \in {"sort", "sorting"} => manager = "client"
    /\ j.at = "sorting" => chain = <<>> /\ j.list \in Seq(1..Len(made))

\* The client's manager serves one call at a time.
Alone(a) == manager = "client" => \A b \in Admins \ {a} : job[b].at = "idle"

\* TypeOK, and what makes it inductive.
PluginsTyped ==
    /\ TypeOK
    /\ Len(made) <= MaxInstances
    /\ \A a \in Admins : JobFits(job[a])
    /\ \A a \in Admins : job[a].at # "idle" => Alone(a)

\* Where a call is determines what is known of it.
LEMMA JobShape ==
  ASSUME NEW j \in Jobs
  PROVE  /\ j.at = "idle" => j = Idle
         /\ j.at = "file" => j.files \in Seq(Files)
         /\ j.at = "class" =>
              j.files \in Seq(Files) /\ j.file \in Files /\ j.classes \in Seq(Names)
         /\ j.at \in Loading =>
              /\ j.files \in Seq(Files) /\ j.file \in Files
              /\ j.classes \in Seq(Names) /\ j.inst \in Instances
         /\ j.at = "insert" => j.place \in Nat \ {0} /\ j.length \in Nat
         /\ j.at = "sorting" => j.list \in Seq(Instances)
         /\ j.at = "unload" => j.name \in Names /\ j.file \in Files
         /\ j.at \in Loading \cup {"idle", "file", "class", "unload"}
<1>1. CASE j = Idle
  BY <1>1 DEF Idle, Loading
<1>2. CASE j \in [at : {"file"}, files : Seq(Files)]
  BY <1>2 DEF Loading
<1>3. CASE j \in [at : {"class"}, files : Seq(Files), file : Files, classes : Seq(Names)]
  BY <1>3 DEF Loading
<1>4. CASE j \in [at : {"subscribe", "filter", "sort", "return"}, files : Seq(Files),
                  file : Files, classes : Seq(Names), inst : Instances]
  BY <1>4 DEF Loading
<1>5. CASE j \in [at : {"insert"}, files : Seq(Files), file : Files, classes : Seq(Names),
                  inst : Instances, place : Nat \ {0}, length : Nat]
  BY <1>5 DEF Loading
<1>6. CASE j \in [at : {"sorting"}, files : Seq(Files), file : Files, classes : Seq(Names),
                  inst : Instances, list : Seq(Instances)]
  BY <1>6 DEF Loading
<1>7. CASE j \in [at : {"unload"}, name : Names, file : Files]
  BY <1>7 DEF Loading
<1> QED  BY <1>1, <1>2, <1>3, <1>4, <1>5, <1>6, <1>7 DEF Jobs

\* A step of one call: what it does to the list of filters and to the plug-ins
\* made agrees with where the other calls are.
LEMMA JobStep ==
  ASSUME PluginsTyped, NEW a \in Admins, NEW j \in Jobs,
         job' = [job EXCEPT ![a] = j], JobFits(j)', Alone(a),
         manager' = manager, made' \in Seq(Names), Len(made) <= Len(made'),
         manager = "server" => Len(chain) <= Len(chain'), chain' \in Seq(Nat)
  PROVE  /\ job' \in [Admins -> Jobs]
         /\ \A b \in Admins : JobFits(job[b])'
         /\ \A b \in Admins : job'[b].at # "idle" => Alone(b)'
<1>1. /\ job' \in [Admins -> Jobs] /\ job'[a] = j
      /\ \A b \in Admins \ {a} : job'[b] = job[b]
  BY DEF PluginsTyped, TypeOK
<1>2. Len(made) \in Nat /\ Len(made') \in Nat /\ Len(chain) \in Nat /\ Len(chain') \in Nat
  BY DEF PluginsTyped, TypeOK
<1>3. ASSUME NEW b \in Admins PROVE JobFits(job[b])'
  <2>1. CASE b = a
    BY <1>1, <2>1 DEF JobFits
  <2>2. CASE b # a
    <3>1. job'[b] = job[b] /\ JobFits(job[b]) /\ job[b] \in Jobs
      BY <1>1, <2>2 DEF PluginsTyped, TypeOK
    <3>2. job[b].at \in Loading => job[b].inst \in 1..Len(made')
      BY <1>2, <3>1 DEF JobFits
    <3>3. job[b].at = "insert" =>
            /\ manager = "server" /\ job[b].place \in 1..(job[b].length + 1)
            /\ job[b].length <= Len(chain')
      <4>1. job[b].at = "insert" => job[b].length \in Nat /\ job[b].length <= Len(chain)
        BY <3>1, JobShape DEF JobFits
      <4> QED  BY <1>2, <3>1, <4>1 DEF JobFits
    <3>4. job[b].at # "sorting"
      BY <2>2, <3>1 DEF Alone, JobFits
    <3> QED  BY <3>1, <3>2, <3>3, <3>4 DEF JobFits
  <2> QED  BY <2>1, <2>2
<1>4. ASSUME NEW b \in Admins, job'[b].at # "idle" PROVE Alone(b)'
  BY <1>1, <1>4 DEF Alone
<1> QED  BY <1>1, <1>3, <1>4

(***************************************************************************)
(* The two ways in which a filter comes into the list.                     *)
(***************************************************************************)

\* list.insert(): the items from the place on move one place to the right.
LEMMA InsertExact ==
  ASSUME NEW T, NEW s \in Seq(T), NEW e \in T, NEW p \in 1..(Len(s) + 1)
  PROVE  /\ InsertAt(s, p, e) \in Seq(T)
         /\ Len(InsertAt(s, p, e)) = Len(s) + 1
         /\ \A k \in 1..(Len(s) + 1) :
              InsertAt(s, p, e)[k] = IF k < p THEN s[k] ELSE IF k = p THEN e ELSE s[k - 1]
<1> DEFINE front == SubSeq(s, 1, p - 1)
           back == SubSeq(s, p, Len(s))
           both == front \o <<e>>
<1>1. /\ front \in Seq(T) /\ Len(front) = p - 1
      /\ \A k \in 1..(p - 1) : front[k] = s[k]
  BY SubSeqProperties
<1>2. /\ back \in Seq(T) /\ Len(back) = Len(s) + 1 - p
      /\ \A k \in 1..(Len(s) + 1 - p) : back[k] = s[p + k - 1]
  BY SubSeqProperties
<1>3. InsertAt(s, p, e) = both \o back
  BY DEF InsertAt
<1> HIDE DEF front, back
<1>4. /\ both \in Seq(T) /\ Len(both) = p
      /\ \A k \in 1..(p - 1) : both[k] = s[k]
      /\ both[p] = e
  BY <1>1
<1> HIDE DEF both
<1> DEFINE all == both \o back
<1>5. all \in Seq(T) /\ Len(all) = Len(s) + 1
  <2>1. all \in Seq(T) /\ Len(all) = Len(both) + Len(back)
    <3>1. both \in Seq(T) /\ back \in Seq(T)
      BY <1>2, <1>4
    <3> QED  BY <3>1, ConcatProperties
  <2>2. p + (Len(s) + 1 - p) = Len(s) + 1
    OBVIOUS
  <2> QED  BY <1>2, <1>4, <2>1, <2>2
<1>6. ASSUME NEW k \in 1..(Len(s) + 1), k <= p
      PROVE  all[k] = IF k < p THEN s[k] ELSE e
  BY <1>2, <1>4, <1>6
<1>7. ASSUME NEW k \in 1..(Len(s) + 1), p < k
      PROVE  all[k] = s[k - 1]
  <2>1. all[k] = back[k - p]
    BY <1>2, <1>4, <1>7
  <2>2. k - p \in 1..(Len(s) + 1 - p) /\ p + (k - p) - 1 = k - 1
    BY <1>7
  <2> QED  BY <1>2, <2>1, <2>2
<1> HIDE DEF all
<1>8. \A k \in 1..(Len(s) + 1) :
        all[k] = IF k < p THEN s[k] ELSE IF k = p THEN e ELSE s[k - 1]
  <2> SUFFICES ASSUME NEW k \in 1..(Len(s) + 1)
               PROVE  all[k] =
                        IF k < p THEN s[k] ELSE IF k = p THEN e ELSE s[k - 1]
    OBVIOUS
  <2>1. CASE k <= p
    <3>1. k < p \/ (k = p /\ ~(k < p))
      BY <2>1
    <3> QED  BY <1>6, <2>1, <3>1, Zenon
  <2>2. CASE p < k
    <3>1. ~(k < p) /\ k # p
      BY <2>2
    <3>2. all[k] = s[k - 1]
      BY <1>7, <2>2
    <3> QED  BY <3>1, <3>2
  <2> QED  BY <2>1, <2>2
<1> QED  BY <1>3, <1>5, <1>8 DEF all

\* The list has one item more then, and no item twice.
LEMMA InsertElements ==
  ASSUME NEW T, NEW s \in Seq(T), NEW e \in T, NEW p \in 1..(Len(s) + 1)
  PROVE  /\ ToSet(InsertAt(s, p, e)) = ToSet(s) \cup {e}
         /\ IsInjective(s) /\ e \notin ToSet(s) => IsInjective(InsertAt(s, p, e))
<1>1. PICK r \in Seq(T) : r = InsertAt(s, p, e)
  BY InsertExact
<1>2. /\ Len(r) = Len(s) + 1
      /\ \A k \in 1..(Len(s) + 1) :
           r[k] = IF k < p THEN s[k] ELSE IF k = p THEN e ELSE s[k - 1]
  <2>1. /\ Len(InsertAt(s, p, e)) = Len(s) + 1
        /\ \A k \in 1..(Len(s) + 1) :
             InsertAt(s, p, e)[k] = IF k < p THEN s[k] ELSE IF k = p THEN e ELSE s[k - 1]
    BY InsertExact
  <2> QED  BY <1>1, <2>1
<1>3. DOMAIN r = 1..(Len(s) + 1) /\ DOMAIN s = 1..Len(s) /\ Len(s) \in Nat
  BY <1>2
<1>4. ASSUME NEW k \in 1..(Len(s) + 1)
      PROVE  \/ k = p /\ r[k] = e
             \/ k < p /\ k \in DOMAIN s /\ r[k] = s[k]
             \/ p < k /\ k - 1 \in DOMAIN s /\ r[k] = s[k - 1]
  <2>1. r[k] = IF k < p THEN s[k] ELSE IF k = p THEN e ELSE s[k - 1]
    BY <1>2
  <2>2. CASE k = p
    BY <2>1, <2>2
  <2>3. CASE k < p
    BY <1>3, <2>1, <2>3
  <2>4. CASE p < k
    <3>1. k - 1 \in DOMAIN s /\ ~(k < p) /\ k # p
      BY <1>3, <2>4
    <3> QED  BY <2>1, <2>4, <3>1
  <2> QED  BY <2>2, <2>3, <2>4
<1>5. ASSUME NEW k \in DOMAIN s PROVE \E m \in DOMAIN r : r[m] = s[k]
  <2>1. CASE k < p
    <3>1. k \in 1..(Len(s) + 1)
      BY <1>3
    <3> QED  BY <1>2, <1>3, <2>1, <3>1
  <2>2. CASE ~(k < p)
    <3>1. PICK m \in 1..(Len(s) + 1) : m = k + 1 /\ ~(m < p) /\ m # p /\ m - 1 = k
      BY <1>3, <2>2
    <3>2. r[m] = s[m - 1]
      BY <1>2, <3>1
    <3> QED  BY <1>3, <3>1, <3>2
  <2> QED  BY <2>1, <2>2
<1>6. ToSet(r) = ToSet(s) \cup {e}
  <2>1. \A k \in DOMAIN r : r[k] \in ToSet(s) \cup {e}
    BY <1>3, <1>4 DEF ToSet
  <2>2. r[p] = e /\ p \in DOMAIN r
    BY <1>3, <1>4
  <2> QED  BY <1>5, <2>1, <2>2 DEF ToSet
<1>7. ASSUME IsInjective(s), e \notin ToSet(s) PROVE IsInjective(r)
  <2> SUFFICES ASSUME NEW k \in 1..(Len(s) + 1), NEW l \in 1..(Len(s) + 1), r[k] = r[l]
               PROVE  k = l
    BY <1>3 DEF IsInjective
  <2>1. \A m \in DOMAIN s : s[m] # e
    BY <1>7 DEF ToSet
  <2>2. \A m, n \in DOMAIN s : s[m] = s[n] => m = n
    BY <1>7 DEF IsInjective
  <2>3. \/ k = p /\ r[k] = e
        \/ k < p /\ k \in DOMAIN s /\ r[k] = s[k]
        \/ p < k /\ k - 1 \in DOMAIN s /\ r[k] = s[k - 1]
    BY <1>4
  <2>4. \/ l = p /\ r[l] = e
        \/ l < p /\ l \in DOMAIN s /\ r[l] = s[l]
        \/ p < l /\ l - 1 \in DOMAIN s /\ r[l] = s[l - 1]
    BY <1>4
  <2> QED  BY <2>1, <2>2, <2>3, <2>4
<1> QED  BY <1>1, <1>6, <1>7

\* So it is with list.append().
LEMMA AppendElements ==
  ASSUME NEW T, NEW s \in Seq(T), NEW e \in T
  PROVE  /\ ToSet(Append(s, e)) = ToSet(s) \cup {e}
         /\ IsInjective(s) /\ e \notin ToSet(s) => IsInjective(Append(s, e))
<1>1. PICK r \in Seq(T) : r = Append(s, e)
  BY AppendProperties
<1>2. /\ DOMAIN r = 1..(Len(s) + 1) /\ DOMAIN s = 1..Len(s) /\ Len(s) \in Nat
      /\ \A k \in DOMAIN s : r[k] = s[k] /\ k \in DOMAIN r
      /\ r[Len(s) + 1] = e /\ Len(s) + 1 \in DOMAIN r
  BY <1>1
<1>3. \A k \in DOMAIN r : k \in DOMAIN s \/ k = Len(s) + 1
  BY <1>2
<1>4. ToSet(r) = ToSet(s) \cup {e}
  BY <1>2, <1>3 DEF ToSet
<1>5. IsInjective(s) /\ e \notin ToSet(s) => IsInjective(r)
  BY <1>2, <1>3 DEF IsInjective, ToSet
<1> QED  BY <1>1, <1>4, <1>5

\* The ranks of the items number them, and a more urgent item, or one as urgent
\* further to the front, has the smaller rank.
LEMMA RankExact ==
  ASSUME NEW T, NEW s \in Seq(T), \A k \in DOMAIN s : PriorityOf(s[k]) \in Int
  PROVE  /\ \A k \in DOMAIN s : Rank(s, k) \in DOMAIN s
         /\ \A k, l \in DOMAIN s :
              PriorityOf(s[k]) < PriorityOf(s[l])
                \/ (PriorityOf(s[k]) = PriorityOf(s[l]) /\ k < l)
              => Rank(s, k) < Rank(s, l)
         /\ \A n \in DOMAIN s : \E k \in DOMAIN s : Rank(s, k) = n
<1> DEFINE D == DOMAIN s
           rank == [k \in D |-> Rank(s, k)]
           upto(k) == {l \in D : \/ PriorityOf(s[l]) < PriorityOf(s[k])
                                 \/ PriorityOf(s[l]) = PriorityOf(s[k]) /\ l <= k}
<1>0. D = 1..Len(s) /\ Len(s) \in Nat
  OBVIOUS
<1>1. IsFiniteSet(D) /\ Cardinality(D) = Len(s)
  BY <1>0, FS_Interval
<1>2. ASSUME NEW k \in D
      PROVE  /\ IsFiniteSet(upto(k)) /\ Rank(s, k) = Cardinality(upto(k))
             /\ Rank(s, k) \in D
  <2>1. upto(k) \subseteq D /\ k \in upto(k)
    BY <1>0
  <2>2. IsFiniteSet(upto(k)) /\ Cardinality(upto(k)) <= Cardinality(D)
    BY <1>1, <2>1, FS_Subset
  <2>3. Cardinality(upto(k)) \in Nat
    BY <2>2, FS_CardinalityType
  <2>4. Cardinality(upto(k)) # 0
    BY <2>1, <2>2, FS_EmptySet
  <2>5. Rank(s, k) = Cardinality(upto(k))
    BY DEF Rank
  <2> HIDE DEF upto, D
  <2> QED  BY <1>0, <1>1, <2>2, <2>3, <2>4, <2>5
<1>3. ASSUME NEW k \in D, NEW l \in D,
             PriorityOf(s[k]) < PriorityOf(s[l])
               \/ (PriorityOf(s[k]) = PriorityOf(s[l]) /\ k < l)
      PROVE  Rank(s, k) < Rank(s, l)
  <2>0. k \in Int /\ l \in Int /\ PriorityOf(s[k]) \in Int /\ PriorityOf(s[l]) \in Int
    BY <1>0
  <2>1. l \in upto(l) /\ l \notin upto(k)
    BY <1>3, <2>0
  <2>2. ASSUME NEW m \in upto(k) PROVE m \in upto(l)
    <3>1. m \in D /\ m \in Int /\ PriorityOf(s[m]) \in Int
      BY <1>0
    <3> QED  BY <1>3, <2>0, <3>1
  <2>3. upto(k) \subseteq upto(l) /\ upto(k) # upto(l)
    BY <2>1, <2>2
  <2>4. /\ IsFiniteSet(upto(k)) /\ IsFiniteSet(upto(l))
        /\ Rank(s, k) = Cardinality(upto(k)) /\ Rank(s, l) = Cardinality(upto(l))
        /\ Rank(s, k) \in Nat /\ Rank(s, l) \in Nat
    <3>1. /\ IsFiniteSet(upto(k)) /\ Rank(s, k) = Cardinality(upto(k)) /\ Rank(s, k) \in D
          /\ IsFiniteSet(upto(l)) /\ Rank(s, l) = Cardinality(upto(l)) /\ Rank(s, l) \in D
      <4> HIDE DEF upto, D
      <4> QED  BY <1>2
    <3>2. \A n \in D : n \in Nat
      BY <1>0
    <3> HIDE DEF upto, D
    <3> QED  BY <3>1, <3>2
  <2> HIDE DEF upto
  <2>5. Cardinality(upto(k)) < Cardinality(upto(l))
    BY <2>3, <2>4, FS_Subset, FS_CardinalityType
  <2> QED  BY <2>4, <2>5
<1>4. rank \in Injection(D, D)
  <2>1. \A k \in D : rank[k] = Rank(s, k) /\ rank[k] \in D
    BY <1>2
  <2>2. ASSUME NEW k \in D, NEW l \in D, rank[k] = rank[l] PROVE k = l
    <3>1. k \in Int /\ l \in Int /\ PriorityOf(s[k]) \in Int /\ PriorityOf(s[l]) \in Int
      BY <1>0
    <3>2. Rank(s, k) = Rank(s, l) /\ Rank(s, k) \in Int
      BY <1>0, <2>1, <2>2
    <3>3. ~(Rank(s, k) < Rank(s, l)) /\ ~(Rank(s, l) < Rank(s, k))
      BY <3>2
    <3> HIDE DEF rank, D
    <3> QED  BY <1>3, <3>1, <3>3
  <2>3. rank \in [D -> D]
    BY <1>2
  <2> HIDE DEF rank, D
  <2> QED  BY <2>2, <2>3 DEF Injection, IsInjective
<1>5. rank \in Surjection(D, D)
  <2> HIDE DEF rank, D
  <2> QED  BY <1>1, <1>4, FS_Injection
<1>6. \A n \in D : \E k \in D : Rank(s, k) = n
  <2>1. \A n \in D : \E k \in D : rank[k] = n
    <3> HIDE DEF rank, D
    <3> QED  BY <1>5 DEF Surjection
  <2> QED  BY <2>1
<1> QED  BY <1>2, <1>3, <1>6

\* list.sort() moves the items and brings them into the order of priority.
LEMMA SortExact ==
  ASSUME NEW T, NEW s \in Seq(T), \A k \in DOMAIN s : PriorityOf(s[k]) \in Int
  PROVE  /\ Sorted(s) \in Seq(T)
         /\ InOrder(Sorted(s))
         /\ ToSet(Sorted(s)) = ToSet(s)
         /\ IsInjective(s) => IsInjective(Sorted(s))
<1> DEFINE D == DOMAIN s
           from == [n \in D |-> CHOOSE k \in D : Rank(s, k) = n]
<1>0. D = 1..Len(s) /\ Len(s) \in Nat
  OBVIOUS
<1>1. \A n \in D : from[n] \in D /\ Rank(s, from[n]) = n
  <2>1. \A n \in D : \E k \in D : Rank(s, k) = n
    BY RankExact
  <2> QED  BY <2>1
<1>2. Sorted(s) = [n \in D |-> s[from[n]]]
  BY DEF Sorted
<1> HIDE DEF from
<1>3. Sorted(s) \in Seq(T) /\ DOMAIN Sorted(s) = D /\ \A n \in D : Sorted(s)[n] = s[from[n]]
  BY <1>0, <1>1, <1>2
<1>4. InOrder(Sorted(s))
  <2> SUFFICES ASSUME NEW m \in D, NEW n \in D, m < n
               PROVE  PriorityOf(s[from[m]]) <= PriorityOf(s[from[n]])
    BY <1>3 DEF InOrder
  <2>1. PICK k \in D : k = from[m] /\ Rank(s, k) = m
    BY <1>1
  <2>2. PICK l \in D : l = from[n] /\ Rank(s, l) = n
    BY <1>1
  <2>3. PriorityOf(s[k]) \in Int /\ PriorityOf(s[l]) \in Int /\ m \in Int /\ n \in Int
    BY <1>0
  <2>4. ~(PriorityOf(s[l]) < PriorityOf(s[k]))
    <3>1. ~(n < m)
      BY <2>3
    <3>2. k \in DOMAIN s /\ l \in DOMAIN s
      OBVIOUS
    <3>3. PriorityOf(s[l]) < PriorityOf(s[k]) => Rank(s, l) < Rank(s, k)
      <4> HIDE DEF D
      <4> QED  BY <3>2, RankExact
    <3> QED  BY <2>1, <2>2, <3>1, <3>3
  <2> QED  BY <2>1, <2>2, <2>3, <2>4
<1>5. /\ \A k \in D : Rank(s, k) \in D
      /\ \A k, l \in D :
           PriorityOf(s[k]) < PriorityOf(s[l])
             \/ (PriorityOf(s[k]) = PriorityOf(s[l]) /\ k < l)
           => Rank(s, k) < Rank(s, l)
  BY RankExact
<1>6. ASSUME NEW k \in D PROVE from[Rank(s, k)] = k
  <2>1. PICK n \in D : n = Rank(s, k)
    BY <1>5
  <2>2. PICK l \in D : l = from[n] /\ Rank(s, l) = n
    BY <1>1
  <2>3. k \in Int /\ l \in Int /\ PriorityOf(s[k]) \in Int /\ PriorityOf(s[l]) \in Int
    BY <1>0
  <2>4. ~(Rank(s, k) < Rank(s, l)) /\ ~(Rank(s, l) < Rank(s, k))
    BY <1>0, <2>1, <2>2
  <2>5. k = l
    <3> HIDE DEF D
    <3> QED  BY <1>5, <2>3, <2>4
  <2> QED  BY <2>1, <2>2, <2>5
<1>7. ToSet(Sorted(s)) = ToSet(s)
  <2>1. \A n \in D : Sorted(s)[n] \in ToSet(s)
    BY <1>1, <1>3 DEF ToSet
  <2>2. \A k \in D : \E n \in D : Sorted(s)[n] = s[k]
    BY <1>3, <1>5, <1>6
  <2> QED  BY <1>3, <2>1, <2>2 DEF ToSet
<1>8. IsInjective(s) => IsInjective(Sorted(s))
  <2> SUFFICES ASSUME IsInjective(s), NEW m \in D, NEW n \in D, s[from[m]] = s[from[n]]
               PROVE  m = n
    BY <1>3 DEF IsInjective
  <2>1. from[m] = from[n]
    BY <1>1 DEF IsInjective
  <2> QED  BY <1>1, <2>1
<1> QED  BY <1>3, <1>4, <1>7, <1>8

(***************************************************************************)
(* Type correctness.                                                       *)
(***************************************************************************)

\* No call has begun and nothing is loaded.
LEMMA TypedInit == Init => PluginsTyped
<1> SUFFICES ASSUME Init PROVE PluginsTyped
  OBVIOUS
<1>1. Idle \in Jobs /\ Idle \in Passes /\ Idle.at = "idle"
  BY DEF Jobs, Passes, Idle
<1>2. TypeOK
  <2>1. made \in Seq(Names) /\ Len(made) = 0 /\ chain \in Seq(1..Len(made))
    BY DEF Init
  <2>2. plugins \in [Names -> 0..Len(made)] /\ modules \in [Names -> Files \cup {NoFile}]
    BY <2>1 DEF Init
  <2> QED  BY <1>1, <2>1, <2>2 DEF Init, TypeOK
<1>3. JobFits(Idle)
  BY <1>1 DEF JobFits, Loading
<1>4. Len(made) <= MaxInstances
  BY PluginsAssumption DEF Init
<1> QED  BY <1>1, <1>2, <1>3, <1>4 DEF Init, PluginsTyped

\* What a step of a call has to keep.
LEMMA JobTyped ==
  ASSUME PluginsTyped, NEW a \in Admins, NEW j \in Jobs,
         job' = [job EXCEPT ![a] = j], JobFits(j)', Alone(a),
         UNCHANGED <<Mode, content, pass>>,
         made' \in Seq(Names), Len(made) <= Len(made'), Len(made') <= MaxInstances,
         plugins' \in [Names -> 0..Len(made')],
         modules' \in [Names -> Files \cup {NoFile}],
         subs' \subseteq 1..Len(made'), chain' \in Seq(1..Len(made')), raced' \in BOOLEAN,
         manager = "server" => Len(chain) <= Len(chain')
  PROVE  PluginsTyped'
<1>1. manager' = manager /\ chain' \in Seq(Nat)
  BY DEF Mode
<1>2. /\ job' \in [Admins -> Jobs]
      /\ \A b \in Admins : JobFits(job[b])'
      /\ \A b \in Admins : job'[b].at # "idle" => Alone(b)'
  BY <1>1, JobStep
<1>3. /\ manager' \in {"server", "client"} /\ secret' \in BOOLEAN
      /\ pass' \in [Handlers -> Passes]
  BY DEF PluginsTyped, TypeOK, Mode
<1> QED  BY <1>2, <1>3 DEF PluginsTyped, TypeOK

\* Most steps only move a call on.
LEMMA MoveTyped ==
  ASSUME PluginsTyped, NEW a \in Admins, NEW j \in Jobs,
         job' = [job EXCEPT ![a] = j], JobFits(j), Alone(a),
         UNCHANGED <<Mode, content, made, subs, chain, raced, pass>>,
         plugins' \in [Names -> 0..Len(made)],
         modules' \in [Names -> Files \cup {NoFile}]
  PROVE  PluginsTyped'
<1>1. JobFits(j)'
  BY DEF JobFits, Mode
<1>2. /\ made' \in Seq(Names) /\ Len(made) <= Len(made') /\ Len(made') <= MaxInstances
      /\ plugins' \in [Names -> 0..Len(made')]
      /\ subs' \subseteq 1..Len(made') /\ chain' \in Seq(1..Len(made'))
      /\ raced' \in BOOLEAN /\ Len(chain) <= Len(chain')
  BY DEF PluginsTyped, TypeOK
<1> QED  BY <1>1, <1>2, JobTyped

\* What listing a plug-in and taking it out do to the tables.
LEMMA TableTyped ==
  ASSUME PluginsTyped, NEW n \in Names
  PROVE  /\ \A i \in 0..MaxInstances, f \in Files, m \in Nat :
              List(n, i, f) /\ i <= m /\ Len(made) <= m =>
                /\ plugins' \in [Names -> 0..m]
                /\ modules' \in [Names -> Files \cup {NoFile}]
         /\ Unlist(n) => /\ plugins' \in [Names -> 0..Len(made)]
                         /\ modules' \in [Names -> Files \cup {NoFile}]
         /\ UNCHANGED Tables => /\ plugins' \in [Names -> 0..Len(made)]
                                /\ modules' \in [Names -> Files \cup {NoFile}]
<1>1. plugins \in [Names -> 0..Len(made)] /\ modules \in [Names -> Files \cup {NoFile}]
      /\ Len(made) \in Nat /\ MaxInstances \in Nat
  BY PluginsAssumption DEF PluginsTyped, TypeOK
<1>2. ASSUME NEW i \in 0..MaxInstances, NEW f \in Files, NEW m \in Nat,
             List(n, i, f), i <= m, Len(made) <= m
      PROVE  /\ plugins' \in [Names -> 0..m]
             /\ modules' \in [Names -> Files \cup {NoFile}]
  <2>1. i \in 0..m /\ \A k \in Names : plugins[k] \in 0..m
    BY <1>1, <1>2
  <2> QED  BY <1>1, <1>2, <2>1 DEF List
<1>3. Unlist(n) => /\ plugins' \in [Names -> 0..Len(made)]
                   /\ modules' \in [Names -> Files \cup {NoFile}]
  BY <1>1 DEF Unlist
<1>4. UNCHANGED Tables => /\ plugins' \in [Names -> 0..Len(made)]
                          /\ modules' \in [Names -> Files \cup {NoFile}]
  BY <1>1 DEF Tables
<1> QED  BY <1>2, <1>3, <1>4

\* The calls before and between the plug-ins.
LEMMA FilesTyped ==
  ASSUME PluginsTyped, NEW a \in Admins
  PROVE  /\ \A files \in Seq(Files) : Load(a, files) => PluginsTyped'
         /\ \A runs \in BOOLEAN : NextFile(a, runs) => PluginsTyped'
         /\ LoadEnds(a) \/ FileEnds(a) => PluginsTyped'
<1>1. job[a] \in Jobs /\ (job[a].at # "idle" => Alone(a))
  BY DEF PluginsTyped, TypeOK
<1>2. UNCHANGED Tables => /\ plugins' \in [Names -> 0..Len(made)]
                          /\ modules' \in [Names -> Files \cup {NoFile}]
  BY DEF PluginsTyped, TypeOK, Tables
<1>3. ASSUME NEW files \in Seq(Files), Load(a, files) PROVE PluginsTyped'
  <2> DEFINE j == [at |-> "file", files |-> files]
  <2>1. j \in Jobs
    BY DEF Jobs
  <2>2. JobFits(j)
    BY DEF JobFits, Loading
  <2>3. Alone(a)
    BY <1>3 DEF Load, MayStart, Alone, Idle
  <2> QED  BY <1>2, <1>3, <2>1, <2>2, <2>3, MoveTyped DEF Load
<1>4. ASSUME NEW runs \in BOOLEAN, NextFile(a, runs) PROVE PluginsTyped'
  <2>1. job[a].files \in Seq(Files) /\ job[a].files # <<>> /\ job[a].at = "file"
    BY <1>1, <1>4, JobShape DEF NextFile
  <2>2. PICK f \in Files, files \in Seq(Files) :
          f = Head(job[a].files) /\ files = Tail(job[a].files)
    <3>1. Head(job[a].files) \in Files /\ Tail(job[a].files) \in Seq(Files)
      BY <2>1, HeadTailProperties
    <3> QED  BY <3>1
  <2> DEFINE found == IF manager = "client" THEN <<Head(Classes[f])>> ELSE Classes[f]
             chosen == IF runs /\ MayLoad(f) THEN found ELSE <<>>
             j == [at |-> "class", files |-> files, file |-> f, classes |-> chosen]
  <2>3. Classes[f] \in Seq(Names) /\ Classes[f] # <<>>
    BY PluginsAssumption
  <2>4. found \in Seq(Names)
    BY <2>3
  <2>5. chosen \in Seq(Names)
    BY <2>4
  <2>6. job' = [job EXCEPT ![a] = j]
    BY <1>4, <2>2 DEF NextFile
  <2> HIDE DEF chosen
  <2>7. j \in Jobs
    BY <2>5 DEF Jobs
  <2>8. JobFits(j)
    BY DEF JobFits, Loading
  <2> QED  BY <1>1, <1>2, <1>4, <2>1, <2>6, <2>7, <2>8, MoveTyped DEF NextFile
<1>5. ASSUME LoadEnds(a) PROVE PluginsTyped'
  <2>1. Idle \in Jobs
    BY DEF Jobs
  <2>2. JobFits(Idle)
    BY DEF JobFits, Loading, Idle
  <2> QED  BY <1>1, <1>2, <1>5, <2>1, <2>2, MoveTyped DEF LoadEnds
<1>6. ASSUME FileEnds(a) PROVE PluginsTyped'
  <2> DEFINE j == [at |-> "file", files |-> job[a].files]
  <2>1. job[a].files \in Seq(Files) /\ job[a].at = "class"
    BY <1>1, <1>6, JobShape DEF FileEnds
  <2>2. j \in Jobs
    BY <2>1 DEF Jobs
  <2>3. JobFits(j)
    BY DEF JobFits, Loading
  <2> QED  BY <1>1, <1>2, <1>6, <2>1, <2>2, <2>3, MoveTyped DEF FileEnds
<1> QED  BY <1>3, <1>4, <1>5, <1>6

\* The steps in which a plug-in is instantiated and registers itself.
LEMMA LoadingTyped ==
  ASSUME PluginsTyped, NEW a \in Admins,
         Instantiate(a) \/ Subscribe(a) \/ FindPlace(a) \/ InsertFilter(a)
  PROVE  PluginsTyped'
<1>1. /\ job[a] \in Jobs /\ JobFits(job[a]) /\ (job[a].at # "idle" => Alone(a))
      /\ made \in Seq(Names) /\ chain \in Seq(1..Len(made)) /\ subs \subseteq 1..Len(made)
      /\ Len(made) \in Nat /\ Len(chain) \in Nat /\ raced \in BOOLEAN
      /\ Len(made) <= MaxInstances /\ MaxInstances \in Nat
  BY PluginsAssumption DEF PluginsTyped, TypeOK
<1>2. UNCHANGED Tables => /\ plugins' \in [Names -> 0..Len(made)]
                          /\ modules' \in [Names -> Files \cup {NoFile}]
  BY DEF PluginsTyped, TypeOK, Tables
<1>3. CASE Instantiate(a)
  <2>1. /\ job[a].files \in Seq(Files) /\ job[a].file \in Files
        /\ job[a].classes \in Seq(Names) /\ job[a].classes # <<>> /\ job[a].at = "class"
    BY <1>1, <1>3, JobShape DEF Instantiate
  <2>2. Head(job[a].classes) \in Names /\ Tail(job[a].classes) \in Seq(Names)
    BY <2>1, HeadTailProperties
  <2>3. PICK n \in Names, classes \in Seq(Names) :
          n = Head(job[a].classes) /\ classes = Tail(job[a].classes)
    BY <2>2
  <2>4. PICK i \in Nat : i = Len(made) + 1
    BY <1>1
  <2>5. /\ made' = Append(made, n)
        /\ job' = [job EXCEPT ![a] =
                     [at |-> "subscribe", files |-> job[a].files, file |-> job[a].file,
                      classes |-> classes, inst |-> i]]
        /\ IF manager = "server" THEN List(n, i, job[a].file) ELSE UNCHANGED Tables
        /\ Len(made) < MaxInstances /\ UNCHANGED <<Mode, content, subs, chain, raced, pass>>
    BY <1>3, <2>3, <2>4 DEF Instantiate
  <2>6. /\ made' \in Seq(Names) /\ Len(made') = i /\ Len(made) <= i /\ i <= MaxInstances
        /\ i \in Instances
    BY <1>1, <2>4, <2>5 DEF Instances
  <2>7. PICK j \in Jobs :
          j = [at |-> "subscribe", files |-> job[a].files, file |-> job[a].file,
               classes |-> classes, inst |-> i]
    BY <2>1, <2>6 DEF Jobs
  <2>8. JobFits(j)' /\ job' = [job EXCEPT ![a] = j]
    BY <2>4, <2>5, <2>6, <2>7 DEF JobFits, Loading
  <2>9. /\ plugins' \in [Names -> 0..Len(made')]
        /\ modules' \in [Names -> Files \cup {NoFile}]
    <3>1. CASE manager = "server"
      <4>1. PICK f \in Files : f = job[a].file
        BY <2>1
      <4>2. List(n, i, f) /\ i \in 0..MaxInstances /\ i <= i
        BY <2>5, <2>6, <3>1, <4>1 DEF Instances
      <4>3. plugins' \in [Names -> 0..i] /\ modules' \in [Names -> Files \cup {NoFile}]
        BY <2>6, <4>2, TableTyped
      <4> QED  BY <2>6, <4>3
    <3>2. CASE manager # "server"
      <4>1. plugins' \in [Names -> 0..Len(made)] /\ modules' \in [Names -> Files \cup {NoFile}]
        BY <1>2, <2>5, <3>2
      <4>2. \A m \in 0..Len(made) : m \in 0..Len(made')
        BY <1>1, <2>6
      <4> QED  BY <4>1, <4>2
    <3> QED  BY <3>1, <3>2
  <2>10. /\ subs' \subseteq 1..Len(made') /\ chain' \in Seq(1..Len(made'))
         /\ raced' \in BOOLEAN /\ Len(chain) <= Len(chain')
    <3>1. 1..Len(made) \subseteq 1..Len(made')
      BY <1>1, <2>6
    <3>2. chain \in Seq(1..Len(made'))
      BY <1>1, <3>1, SeqMonotonic
    <3> QED  BY <1>1, <2>5, <3>1, <3>2
  <2>11. Alone(a) /\ UNCHANGED <<Mode, content, pass>>
    BY <1>1, <2>1, <2>5
  <2> QED  BY <2>5, <2>6, <2>7, <2>8, <2>9, <2>10, <2>11, JobTyped
<1>4. CASE Subscribe(a)
  <2>1. job[a] \in [at : {"subscribe", "filter", "sort", "return"}, files : Seq(Files),
                    file : Files, classes : Seq(Names), inst : Instances]
        /\ job[a].at = "subscribe"
    BY <1>1, <1>4 DEF Subscribe, Jobs, Idle
  <2>2. PICK j \in Jobs :
          j = [job[a] EXCEPT !.at = "filter"] /\ j.at = "filter" /\ j.inst = job[a].inst
    <3> DEFINE next == [job[a] EXCEPT !.at = "filter"]
    <3>1. next \in Jobs /\ next.at = "filter" /\ next.inst = job[a].inst
      BY <2>1 DEF Jobs
    <3> HIDE DEF next
    <3> QED  BY <3>1 DEF next
  <2>3. /\ job' = [job EXCEPT ![a] = j] /\ subs' = subs \cup {job[a].inst}
        /\ UNCHANGED <<Mode, content, made, Tables, chain, raced, pass>>
    BY <1>4, <2>2 DEF Subscribe
  <2>4. job[a].inst \in 1..Len(made) /\ made' = made
    BY <1>1, <2>1, <2>3 DEF JobFits, Loading
  <2>5. JobFits(j)'
    BY <2>2, <2>4 DEF JobFits, Loading
  <2>6. subs' \subseteq 1..Len(made')
    <3>1. subs \cup {job[a].inst} \subseteq 1..Len(made)
      BY <1>1, <2>4
    <3>2. subs' = subs \cup {job[a].inst} /\ made' = made
      BY <2>3, <2>4
    <3> QED  BY <3>1, <3>2, Zenon
  <2>7. /\ Alone(a) /\ UNCHANGED <<Mode, content, pass>>
        /\ made' \in Seq(Names) /\ Len(made) <= Len(made') /\ Len(made') <= MaxInstances
        /\ plugins' \in [Names -> 0..Len(made')]
        /\ modules' \in [Names -> Files \cup {NoFile}]
    BY <1>1, <1>2, <2>1, <2>3
  <2>8. chain' \in Seq(1..Len(made')) /\ raced' \in BOOLEAN /\ Len(chain) <= Len(chain')
    BY <1>1, <2>3
  <2> QED  BY <2>2, <2>3, <2>5, <2>6, <2>7, <2>8, JobTyped
<1>5. CASE FindPlace(a)
  <2>1. /\ job[a].files \in Seq(Files) /\ job[a].file \in Files
        /\ job[a].classes \in Seq(Names) /\ job[a].inst \in Instances /\ job[a].at = "filter"
    BY <1>1, <1>5, JobShape DEF FindPlace, Loading
  <2>2. PICK place \in Places(chain, job[a].inst) :
          job' = [job EXCEPT ![a] =
                    [at |-> "insert", files |-> job[a].files, file |-> job[a].file,
                     classes |-> job[a].classes, inst |-> job[a].inst,
                     place |-> place, length |-> Len(chain)]]
    BY <1>5 DEF FindPlace
  <2>3. place \in 1..(Len(chain) + 1)
    BY DEF Places
  <2> DEFINE j == [at |-> "insert", files |-> job[a].files, file |-> job[a].file,
                   classes |-> job[a].classes, inst |-> job[a].inst,
                   place |-> place, length |-> Len(chain)]
  <2>4. j \in Jobs
    BY <1>1, <2>1, <2>3 DEF Jobs
  <2>5. JobFits(j)
    BY <1>1, <1>5, <2>1, <2>3 DEF JobFits, Loading, FindPlace
  <2>6. job' = [job EXCEPT ![a] = j]
    BY <2>2
  <2> HIDE DEF j
  <2> QED  BY <1>1, <1>2, <1>5, <2>1, <2>4, <2>5, <2>6, MoveTyped DEF FindPlace
<1>6. CASE InsertFilter(a)
  <2>1. /\ job[a].files \in Seq(Files) /\ job[a].file \in Files
        /\ job[a].classes \in Seq(Names) /\ job[a].inst \in Instances /\ job[a].at = "insert"
    BY <1>1, <1>6, JobShape DEF InsertFilter, Loading
  <2>2. job[a].inst \in 1..Len(made) /\ job[a].place \in 1..(Len(chain) + 1)
    <3>1. job[a].length \in Nat
      BY <1>1, <2>1, JobShape
    <3> QED  BY <1>1, <2>1, <3>1 DEF JobFits, Loading
  <2>5. PICK j \in Jobs :
          j = [at |-> "return", files |-> job[a].files, file |-> job[a].file,
               classes |-> job[a].classes, inst |-> job[a].inst]
    BY <2>1 DEF Jobs
  <2>3. /\ job' = [job EXCEPT ![a] = j] /\ chain' = InsertAt(chain, job[a].place, job[a].inst)
        /\ raced' = (raced \/ job[a].length # Len(chain))
        /\ UNCHANGED <<Mode, content, made, Tables, subs, pass>>
    BY <1>6, <2>5 DEF InsertFilter
  <2>4. chain' \in Seq(1..Len(made)) /\ Len(chain') = Len(chain) + 1
    <3>1. PICK i \in 1..Len(made), p \in 1..(Len(chain) + 1) :
            i = job[a].inst /\ p = job[a].place
      BY <2>2
    <3>2. PICK T : T = 1..Len(made)
      OBVIOUS
    <3>3. PICK s \in Seq(T) : s = chain
      BY <1>1, <3>2
    <3>4. i \in T /\ p \in 1..(Len(s) + 1)
      BY <3>1, <3>2, <3>3
    <3>5. InsertAt(s, p, i) \in Seq(T) /\ Len(InsertAt(s, p, i)) = Len(s) + 1
      BY <3>4, InsertExact
    <3> QED  BY <2>3, <3>1, <3>2, <3>3, <3>5
  <2>6. JobFits(j)'
    BY <2>2, <2>3, <2>5 DEF JobFits, Loading
  <2>7. raced' \in BOOLEAN
    <3>1. CASE raced \/ job[a].length # Len(chain)
      <4>1. raced' = TRUE
        BY <2>3, <3>1
      <4> QED  BY <4>1
    <3>2. CASE ~(raced \/ job[a].length # Len(chain))
      <4>1. raced' = FALSE
        BY <2>3, <3>2
      <4> QED  BY <4>1
    <3> QED  BY <3>1, <3>2
  <2>8. /\ Alone(a) /\ UNCHANGED <<Mode, content, pass>>
        /\ made' \in Seq(Names) /\ Len(made) <= Len(made') /\ Len(made') <= MaxInstances
        /\ plugins' \in [Names -> 0..Len(made')]
        /\ modules' \in [Names -> Files \cup {NoFile}]
    BY <1>1, <1>2, <2>1, <2>3
  <2>9. chain' \in Seq(1..Len(made')) /\ subs' \subseteq 1..Len(made') /\ Len(chain) <= Len(chain')
    BY <1>1, <2>3, <2>4
  <2> QED  BY <2>3, <2>6, <2>7, <2>8, <2>9, JobTyped
<1> QED  BY <1>3, <1>4, <1>5, <1>6

\* Every plug-in made has a priority.
LEMMA PriorityType ==
  ASSUME PluginsTyped
  PROVE  \A i \in 1..Len(made) : made[i] \in Names /\ PriorityOf(i) \in Int
<1>1. \A i \in 1..Len(made) : made[i] \in Names
  BY DEF PluginsTyped, TypeOK
<1> QED  BY <1>1, PluginsAssumption DEF PriorityOf

\* The client's registration.
LEMMA SortingTyped ==
  ASSUME PluginsTyped, NEW a \in Admins,
         AppendFilter(a) \/ SortBegins(a) \/ SortEnds(a)
  PROVE  PluginsTyped'
<1>1. /\ job[a] \in Jobs /\ JobFits(job[a]) /\ (job[a].at # "idle" => Alone(a))
      /\ made \in Seq(Names) /\ chain \in Seq(1..Len(made)) /\ subs \subseteq 1..Len(made)
      /\ Len(made) \in Nat /\ raced \in BOOLEAN /\ Len(made) <= MaxInstances
  BY DEF PluginsTyped, TypeOK
<1>2. UNCHANGED Tables => /\ plugins' \in [Names -> 0..Len(made)]
                          /\ modules' \in [Names -> Files \cup {NoFile}]
  BY DEF PluginsTyped, TypeOK, Tables
<1>3. job[a].at \in {"filter", "sort", "sorting"} /\ manager = "client"
  BY <1>1 DEF AppendFilter, SortBegins, SortEnds, JobFits
<1>4. /\ job[a].files \in Seq(Files) /\ job[a].file \in Files
      /\ job[a].classes \in Seq(Names) /\ job[a].inst \in Instances
      /\ job[a].inst \in 1..Len(made)
      /\ job[a].at = "sorting" => job[a].list \in Seq(1..Len(made))
  BY <1>1, <1>3, JobShape DEF Loading, JobFits
<1>5. /\ Alone(a) /\ UNCHANGED <<Mode, content, pass>>
      /\ made' \in Seq(Names) /\ Len(made) <= Len(made') /\ Len(made') <= MaxInstances
      /\ plugins' \in [Names -> 0..Len(made')]
      /\ modules' \in [Names -> Files \cup {NoFile}]
      /\ made' = made /\ subs' \subseteq 1..Len(made') /\ raced' \in BOOLEAN
      /\ manager # "server" /\ manager' = manager
  BY <1>1, <1>2, <1>3 DEF AppendFilter, SortBegins, SortEnds, Mode
<1>6. CASE AppendFilter(a)
  <2>1. job[a] \in [at : {"subscribe", "filter", "sort", "return"}, files : Seq(Files),
                    file : Files, classes : Seq(Names), inst : Instances]
    BY <1>1, <1>6 DEF AppendFilter, Jobs, Idle
  <2>2. PICK j \in Jobs :
          j = [job[a] EXCEPT !.at = "sort"] /\ j.at = "sort" /\ j.inst = job[a].inst
    <3> DEFINE next == [job[a] EXCEPT !.at = "sort"]
    <3>1. next \in Jobs /\ next.at = "sort" /\ next.inst = job[a].inst
      BY <2>1 DEF Jobs
    <3> HIDE DEF next
    <3> QED  BY <3>1 DEF next
  <2>3. job' = [job EXCEPT ![a] = j]
    BY <1>6, <2>2 DEF AppendFilter
  <2>4. JobFits(j)'
    BY <1>3, <1>4, <1>5, <2>2 DEF JobFits, Loading
  <2>5. chain' \in Seq(1..Len(made'))
    BY <1>1, <1>4, <1>5, <1>6 DEF AppendFilter
  <2> QED  BY <1>5, <2>3, <2>4, <2>5, JobTyped
<1>7. CASE SortBegins(a)
  <2>1. PICK j \in Jobs :
          j = [at |-> "sorting", files |-> job[a].files, file |-> job[a].file,
               classes |-> job[a].classes, inst |-> job[a].inst, list |-> chain]
    <3>1. chain \in Seq(Instances)
      <4>1. 1..Len(made) \subseteq Instances
        BY <1>1, PluginsAssumption DEF Instances
      <4> QED  BY <1>1, <4>1, SeqMonotonic
    <3> QED  BY <1>4, <3>1 DEF Jobs
  <2>2. job' = [job EXCEPT ![a] = j] /\ chain' = <<>>
    BY <1>7, <2>1 DEF SortBegins
  <2>3. JobFits(j)'
    BY <1>1, <1>3, <1>4, <1>5, <2>1, <2>2 DEF JobFits, Loading
  <2>4. chain' \in Seq(1..Len(made'))
    BY <2>2
  <2> QED  BY <1>5, <2>2, <2>3, <2>4, JobTyped
<1>8. CASE SortEnds(a)
  <2>1. PICK j \in Jobs :
          j = [at |-> "return", files |-> job[a].files, file |-> job[a].file,
               classes |-> job[a].classes, inst |-> job[a].inst]
    BY <1>4 DEF Jobs
  <2>2. job' = [job EXCEPT ![a] = j] /\ chain' = Sorted(job[a].list)
    BY <1>8, <2>1 DEF SortEnds
  <2>3. JobFits(j)'
    BY <1>4, <1>5, <2>1 DEF JobFits, Loading
  <2>4. PICK list \in Seq(1..Len(made)) : list = job[a].list
    BY <1>4, <1>8 DEF SortEnds
  <2>5. \A k \in DOMAIN list : PriorityOf(list[k]) \in Int
    BY PriorityType
  <2>6. chain' \in Seq(1..Len(made'))
    BY <1>5, <2>2, <2>4, <2>5, SortExact
  <2> QED  BY <1>5, <2>2, <2>3, <2>6, JobTyped
<1> QED  BY <1>6, <1>7, <1>8

\* on_load ends, and plug-ins are unloaded and reloaded.
LEMMA TablesTyped ==
  ASSUME PluginsTyped, NEW a \in Admins
  PROVE  /\ OnLoadReturns(a) \/ OnLoadRaises(a) \/ ReloadUnloads(a) => PluginsTyped'
         /\ \A n \in Names : Unload(a, n) \/ Reload(a, n) => PluginsTyped'
<1>1. /\ job[a] \in Jobs /\ JobFits(job[a]) /\ (job[a].at # "idle" => Alone(a))
      /\ Len(made) \in Nat /\ Len(made) <= MaxInstances /\ MaxInstances \in Nat
  BY PluginsAssumption DEF PluginsTyped, TypeOK
<1>2. UNCHANGED Tables => /\ plugins' \in [Names -> 0..Len(made)]
                          /\ modules' \in [Names -> Files \cup {NoFile}]
  BY DEF PluginsTyped, TypeOK, Tables
<1>3. ASSUME OnLoadReturns(a) \/ OnLoadRaises(a) PROVE PluginsTyped'
  <2>1. job[a].at \in Loading \ {"insert", "sort", "sorting"}
    BY <1>3 DEF OnLoadReturns, OnLoadRaises, Loading
  <2>2. /\ job[a].files \in Seq(Files) /\ job[a].file \in Files
        /\ job[a].classes \in Seq(Names) /\ job[a].inst \in 1..Len(made)
        /\ job[a].at # "idle"
    BY <1>1, <2>1, JobShape DEF JobFits, Loading
  <2>3. made[job[a].inst] \in Names
    BY <2>2, PriorityType
  <2> DEFINE j == [at |-> "class", files |-> job[a].files, file |-> job[a].file,
                   classes |-> job[a].classes]
  <2>4. j \in Jobs /\ JobFits(j)
    BY <2>2 DEF Jobs, JobFits, Loading
  <2>5. /\ job' = [job EXCEPT ![a] = j]
        /\ UNCHANGED <<Mode, content, made, subs, chain, raced, pass>>
    BY <1>3 DEF OnLoadReturns, OnLoadRaises, NextClass
  <2>6. \/ List(made[job[a].inst], job[a].inst, job[a].file)
        \/ Unlist(made[job[a].inst])
        \/ UNCHANGED Tables
    BY <1>3 DEF OnLoadReturns, OnLoadRaises
  <2>7. job[a].inst \in 0..MaxInstances /\ job[a].inst <= Len(made)
    BY <1>1, <2>2
  <2>8. plugins' \in [Names -> 0..Len(made)] /\ modules' \in [Names -> Files \cup {NoFile}]
    BY <1>1, <1>2, <2>2, <2>3, <2>6, <2>7, TableTyped
  <2> HIDE DEF j
  <2> QED  BY <1>1, <2>2, <2>4, <2>5, <2>8, MoveTyped
<1>4. ASSUME ReloadUnloads(a) PROVE PluginsTyped'
  <2>1. job[a].name \in Names /\ job[a].file \in Files /\ job[a].at = "unload"
    BY <1>1, <1>4, JobShape DEF ReloadUnloads
  <2> DEFINE j == [at |-> "file", files |-> <<job[a].file>>]
  <2>2. j \in Jobs /\ JobFits(j)
    BY <2>1 DEF Jobs, JobFits, Loading
  <2>3. /\ job' = [job EXCEPT ![a] = j] /\ Unlist(job[a].name)
        /\ UNCHANGED <<Mode, content, made, subs, chain, raced, pass>>
    BY <1>4 DEF ReloadUnloads
  <2>4. plugins' \in [Names -> 0..Len(made)] /\ modules' \in [Names -> Files \cup {NoFile}]
    BY <2>1, <2>3, TableTyped
  <2> HIDE DEF j
  <2> QED  BY <1>1, <2>1, <2>2, <2>3, <2>4, MoveTyped
<1>5. ASSUME NEW n \in Names, Unload(a, n) PROVE PluginsTyped'
  <2>1. plugins' \in [Names -> 0..Len(made)] /\ modules' \in [Names -> Files \cup {NoFile}]
    BY <1>5, TableTyped DEF Unload
  <2>2. UNCHANGED <<manager, secret, content, made, subs, chain, raced, job, pass>>
    BY <1>5 DEF Unload, Mode
  <2> QED  BY <2>1, <2>2 DEF PluginsTyped, TypeOK, JobFits, Alone
<1>6. ASSUME NEW n \in Names, Reload(a, n) PROVE PluginsTyped'
  <2>1. modules[n] \in Files
    BY <1>6 DEF Reload, PluginsTyped, TypeOK
  <2> DEFINE j == [at |-> "unload", name |-> n, file |-> modules[n]]
  <2>2. j \in Jobs
    BY <2>1 DEF Jobs
  <2>3. JobFits(j) /\ Alone(a)
    BY <1>6 DEF JobFits, Loading, Reload, Alone
  <2>4. /\ job' = [job EXCEPT ![a] = j]
        /\ UNCHANGED <<Mode, content, made, Tables, subs, chain, raced, pass>>
    BY <1>6 DEF Reload
  <2> HIDE DEF j
  <2> QED  BY <1>2, <2>2, <2>3, <2>4, MoveTyped
<1> QED  BY <1>3, <1>4, <1>5, <1>6

\* Where a message is determines what is known of it.
LEMMA PassShape ==
  ASSUME PluginsTyped, NEW h \in Handlers
  PROVE  /\ pass[h].at = "asking" =>
              /\ pass[h] \in [at : {"asking"}, pos : Nat \ {0}, asked : Seq(Instances),
                              due : SUBSET Instances]
              /\ pass[h].pos \in Nat \ {0} /\ pass[h].asked \in Seq(Instances)
              /\ pass[h].due \in SUBSET Instances
         /\ pass[h].at = "done" =>
              /\ pass[h].asked \in Seq(Instances) /\ pass[h].due \in SUBSET Instances
<1>1. pass[h] \in Passes
  BY DEF PluginsTyped, TypeOK
<1>2. CASE pass[h] = Idle
  BY <1>2 DEF Idle
<1>3. CASE pass[h] \in [at : {"asking"}, pos : Nat \ {0}, asked : Seq(Instances),
                       due : SUBSET Instances]
  BY <1>3
<1>4. CASE pass[h] \in [at : {"done"}, verdict : {"passed", "blocked"},
                       asked : Seq(Instances), due : SUBSET Instances]
  BY <1>4
<1> QED  BY <1>1, <1>2, <1>3, <1>4 DEF Passes

\* What changes nothing but where a message is keeps the types.
LEMMA PassTyped ==
  ASSUME PluginsTyped, NEW h \in Handlers, NEW p \in Passes,
         pass' = [pass EXCEPT ![h] = p],
         UNCHANGED <<Mode, content, made, Tables, subs, chain, raced, job>>
  PROVE  PluginsTyped'
<1>1. pass' \in [Handlers -> Passes]
  BY DEF PluginsTyped, TypeOK
<1>2. UNCHANGED <<manager, secret, made, plugins, modules, subs, chain, raced, job>>
  BY DEF Mode, Tables
<1> QED  BY <1>1, <1>2 DEF PluginsTyped, TypeOK, JobFits, Alone

\* The way of a message.
LEMMA MessageTyped ==
  ASSUME PluginsTyped, NEW h \in Handlers
  PROVE  /\ Begin(h) \/ Exhausted(h) => PluginsTyped'
         /\ \A answer \in {"data", "none", "raise"} : Ask(h, answer) => PluginsTyped'
<1>1. chain \in Seq(1..Len(made)) /\ 1..Len(made) \subseteq Instances
  BY PluginsAssumption DEF PluginsTyped, TypeOK, Instances
<1>2. chain \in Seq(Instances) /\ ToSet(chain) \in SUBSET Instances
  BY <1>1, SeqMonotonic DEF ToSet
<1>3. ASSUME NEW verdict \in {"passed", "blocked"}, NEW asked \in Seq(Instances),
             pass[h].at = "asking", Done(h, verdict, asked),
             UNCHANGED <<Mode, content, made, Tables, subs, chain, raced, job>>
      PROVE  PluginsTyped'
  <2> DEFINE p == [at |-> "done", verdict |-> verdict, asked |-> asked, due |-> pass[h].due]
  <2>1. p \in Passes
    BY <1>3, PassShape DEF Passes
  <2>2. pass' = [pass EXCEPT ![h] = p]
    BY <1>3 DEF Done
  <2> HIDE DEF p
  <2> QED  BY <1>3, <2>1, <2>2, PassTyped
<1>4. ASSUME Begin(h) PROVE PluginsTyped'
  <2> DEFINE p == [at |-> "asking", pos |-> 1, asked |-> <<>>, due |-> ToSet(chain)]
  <2>1. p \in Passes
    BY <1>2 DEF Passes
  <2>2. pass' = [pass EXCEPT ![h] = p]
    BY <1>4 DEF Begin
  <2> HIDE DEF p
  <2> QED  BY <1>4, <2>1, <2>2, PassTyped DEF Begin
<1>5. ASSUME Exhausted(h) PROVE PluginsTyped'
  <2>1. pass[h].asked \in Seq(Instances) /\ pass[h].at = "asking"
    BY <1>5, PassShape DEF Exhausted
  <2> QED  BY <1>3, <1>5, <2>1 DEF Exhausted
<1>6. ASSUME NEW answer \in {"data", "none", "raise"}, Ask(h, answer) PROVE PluginsTyped'
  <2> DEFINE asked == Append(pass[h].asked, chain[pass[h].pos])
             p == [pass[h] EXCEPT !.pos = @ + 1, !.asked = asked]
  <2>1. /\ pass[h] \in [at : {"asking"}, pos : Nat \ {0}, asked : Seq(Instances),
                        due : SUBSET Instances]
        /\ pass[h].at = "asking" /\ pass[h].pos \in Nat \ {0}
        /\ pass[h].pos <= Len(chain) /\ pass[h].asked \in Seq(Instances)
    BY <1>6, PassShape DEF Ask
  <2>2. asked \in Seq(Instances)
    <3>1. chain[pass[h].pos] \in Instances
      BY <1>2, <2>1
    <3> QED  BY <2>1, <3>1
  <2>3. UNCHANGED <<Mode, content, made, Tables, subs, chain, raced, job>>
    BY <1>6 DEF Ask
  <2>4. CASE Done(h, "blocked", asked)
    BY <1>3, <2>1, <2>2, <2>3, <2>4
  <2>5. CASE pass' = [pass EXCEPT ![h] = p]
    <3>2. PICK next \in Nat \ {0}, shown \in Seq(Instances) :
            next = pass[h].pos + 1 /\ shown = asked
      <4>1. pass[h].pos + 1 \in Nat \ {0}
        BY <2>1
      <4> HIDE DEF asked
      <4> QED  BY <2>2, <4>1
    <3>3. p = [pass[h] EXCEPT !.pos = next, !.asked = shown]
      BY <3>2
    <3> HIDE DEF asked, p
    <3>1. p \in Passes
      BY <2>1, <3>3 DEF Passes
    <3> QED  BY <2>3, <2>5, <3>1, PassTyped
  <2>6. Done(h, "blocked", asked) \/ pass' = [pass EXCEPT ![h] = p]
    BY <1>6 DEF Ask
  <2> QED  BY <2>4, <2>5, <2>6
<1> QED  BY <1>4, <1>5, <1>6

\* Every step keeps the types.
LEMMA TypedStep == PluginsTyped /\ [Next]_vars => PluginsTyped'
<1> SUFFICES ASSUME PluginsTyped, [Next]_vars PROVE PluginsTyped'
  OBVIOUS
<1>1. ASSUME NEW f \in Files, Sign(f) \/ Edit(f) PROVE PluginsTyped'
  <2>1. UNCHANGED <<manager, secret, made, plugins, modules, subs, chain, raced, job, pass>>
    BY <1>1 DEF Sign, Edit, Mode, Tables
  <2> QED  BY <2>1 DEF PluginsTyped, TypeOK, JobFits, Alone
<1>2. ASSUME NEW a \in Admins, NEW f \in Files, Load(a, <<f>>) PROVE PluginsTyped'
  <2>1. <<f>> \in Seq(Files)
    OBVIOUS
  <2> QED  BY <1>2, <2>1, FilesTyped
<1>3. ASSUME NEW a \in Admins, Load(a, AllFiles) PROVE PluginsTyped'
  BY <1>3, FilesTyped, PluginsAssumption
<1>4. ASSUME NEW a \in Admins, NEW runs \in BOOLEAN, NextFile(a, runs) PROVE PluginsTyped'
  BY <1>4, FilesTyped
<1>5. ASSUME NEW a \in Admins, LoadEnds(a) \/ FileEnds(a) PROVE PluginsTyped'
  BY <1>5, FilesTyped
<1>6. ASSUME NEW a \in Admins,
             Instantiate(a) \/ Subscribe(a) \/ FindPlace(a) \/ InsertFilter(a)
      PROVE  PluginsTyped'
  BY <1>6, LoadingTyped
<1>7. ASSUME NEW a \in Admins, AppendFilter(a) \/ SortBegins(a) \/ SortEnds(a)
      PROVE  PluginsTyped'
  BY <1>7, SortingTyped
<1>8. ASSUME NEW a \in Admins, OnLoadReturns(a) \/ OnLoadRaises(a) \/ ReloadUnloads(a)
      PROVE  PluginsTyped'
  BY <1>8, TablesTyped
<1>9. ASSUME NEW a \in Admins, NEW n \in Names, Unload(a, n) \/ Reload(a, n)
      PROVE  PluginsTyped'
  BY <1>9, TablesTyped
<1>10. ASSUME NEW h \in Handlers, Begin(h) \/ Exhausted(h) PROVE PluginsTyped'
  BY <1>10, MessageTyped
<1>11. ASSUME NEW h \in Handlers, NEW answer \in {"data", "none", "raise"}, Ask(h, answer)
       PROVE  PluginsTyped'
  BY <1>11, MessageTyped
<1>12. CASE UNCHANGED vars
  BY <1>12 DEF vars, PluginsTyped, TypeOK, JobFits, Alone
<1> QED  BY <1>1, <1>2, <1>3, <1>4, <1>5, <1>6, <1>7, <1>8, <1>9, <1>10, <1>11, <1>12 DEF Next

\* The types of all variables hold in every state, for any files, classes,
\* priorities, admins and handlers: every number in a table, the list of filters or
\* a call is that of an instance made.
THEOREM PluginsTypeCorrect == Spec => []TypeOK
<1>1. PluginsTyped => TypeOK
  BY DEF PluginsTyped
<1> QED  BY <1>1, TypedInit, TypedStep, PTL DEF Spec

(***************************************************************************)
(* Every loaded plug-in has its filter in the list, and has it there once. *)
(***************************************************************************)

\* The filter of an instance that is being loaded is in the list, or in the one
\* that is being sorted, exactly when it has been registered.
JobExact(j) ==
    /\ j.at \in {"subscribe", "filter", "insert"} => j.inst \notin ToSet(chain)
    /\ j.at \in {"sort", "return"} => j.inst \in ToSet(chain)
    /\ j.at = "sorting" => IsInjective(j.list) /\ j.inst \in ToSet(j.list)

\* A call answers for an instance: the server lists one before it is registered,
\* and the client takes the filters out of the list while it sorts them.
AnswersFor(j, i) ==
    \/ manager = "server" /\ j.at \in {"subscribe", "filter", "insert"} /\ j.inst = i
    \/ j.at = "sorting" /\ i \in ToSet(j.list)

\* A listed plug-in has its filter in the list, unless its registration is still at it.
ListedExact(n) ==
    plugins[n] # 0 =>
      /\ made[plugins[n]] = n
      /\ \/ plugins[n] \in ToSet(chain)
         \/ \E a \in Admins : AnswersFor(job[a], plugins[n])

\* The inductive invariant about the instances in the list.
PluginsExact ==
    /\ IsInjective(chain)
    /\ \A a \in Admins : JobExact(job[a])
    /\ \A a, b \in Admins :
         a # b /\ job[a].at \in Loading /\ job[b].at \in Loading => job[a].inst # job[b].inst
    /\ \A n \in Names : ListedExact(n)

\* Nothing is listed.
LEMMA ExactInit == Init => PluginsExact
<1> SUFFICES ASSUME Init PROVE PluginsExact
  OBVIOUS
<1>1. IsInjective(chain)
  BY DEF Init, IsInjective
<1>2. \A a \in Admins : job[a].at = "idle"
  BY DEF Init, Idle
<1>3. \A n \in Names : plugins[n] = 0
  BY DEF Init
<1> QED  BY <1>1, <1>2, <1>3 DEF PluginsExact, JobExact, ListedExact, Loading

\* What a step of a call has to keep.
LEMMA ExactJob ==
  ASSUME PluginsTyped, PluginsExact, NEW a \in Admins, NEW j \in Jobs,
         job' = [job EXCEPT ![a] = j], Alone(a), manager' = manager,
         IsInjective(chain'), JobExact(j)',
         j.at \in Loading =>
           \/ job[a].at \in Loading /\ j.inst = job[a].inst
           \/ j.inst = Len(made) + 1,
         manager = "server" =>
           /\ ToSet(chain) \subseteq ToSet(chain')
           /\ \A i \in ToSet(chain') :
                i \in ToSet(chain) \/ (job[a].at \in Loading /\ i = job[a].inst),
         \A i \in 1..Len(made) : made'[i] = made[i],
         \A n \in Names : plugins'[n] # 0 =>
           \/ /\ plugins'[n] = plugins[n]
              /\ plugins[n] \in ToSet(chain) \/ AnswersFor(job[a], plugins[n]) =>
                   plugins[n] \in ToSet(chain') \/ AnswersFor(j, plugins'[n])
           \/ /\ made'[plugins'[n]] = n
              /\ plugins'[n] \in ToSet(chain') \/ AnswersFor(j, plugins'[n])
  PROVE  PluginsExact'
<1>1. /\ job'[a] = j /\ \A b \in Admins \ {a} : job'[b] = job[b]
      /\ \A b \in Admins : job'[b] \in Jobs
      /\ plugins \in [Names -> 0..Len(made)] /\ Len(made) \in Nat
      /\ manager \in {"server", "client"}
  BY DEF PluginsTyped, TypeOK
<1>2. \A b \in Admins \ {a} : manager = "client" => job[b].at = "idle"
  BY DEF Alone
<1>3. \A b \in Admins : job[b].at \in Loading => job[b].inst \in 1..Len(made)
  BY DEF PluginsTyped, JobFits
<1>4. ASSUME NEW b \in Admins \ {a} PROVE JobExact(job[b])'
  <2>1. CASE manager = "client"
    BY <1>1, <1>2, <2>1 DEF JobExact
  <2>2. CASE manager = "server"
    <3>1. job[b].at \notin {"sort", "sorting"}
      BY <2>2 DEF PluginsTyped, JobFits
    <3>2. job[b].at \in {"subscribe", "filter", "insert"} => job[b].inst \notin ToSet(chain')
      BY <2>2 DEF PluginsExact, JobExact, Loading
    <3>3. job[b].at = "return" => job[b].inst \in ToSet(chain')
      BY <2>2 DEF PluginsExact, JobExact
    <3> QED  BY <1>1, <3>1, <3>2, <3>3 DEF JobExact
  <2> QED  BY <1>1, <2>1, <2>2
<1>5. ASSUME NEW b \in Admins \ {a}, j.at \in Loading, job[b].at \in Loading
      PROVE  j.inst # job[b].inst
  <2>1. job[b].inst # Len(made) + 1
    BY <1>1, <1>3, <1>5
  <2> QED  BY <1>5, <2>1 DEF PluginsExact
<1>6. ASSUME NEW n \in Names PROVE ListedExact(n)'
  <2> SUFFICES ASSUME plugins'[n] # 0
               PROVE  /\ made'[plugins'[n]] = n
                      /\ \/ plugins'[n] \in ToSet(chain')
                         \/ \E b \in Admins : AnswersFor(job'[b], plugins'[n])
    BY DEF ListedExact, AnswersFor
  <2>1. PICK i : i = plugins'[n]
    OBVIOUS
  <2>2. CASE made'[i] = n /\ (i \in ToSet(chain') \/ AnswersFor(j, i))
    BY <1>1, <2>1, <2>2
  <2>3. CASE /\ i = plugins[n]
             /\ i \in ToSet(chain) \/ AnswersFor(job[a], i) =>
                  i \in ToSet(chain') \/ AnswersFor(j, i)
    <3>1. made[i] = n /\ i \in 1..Len(made)
      BY <1>1, <2>1, <2>3 DEF PluginsExact, ListedExact
    <3>2. i \in ToSet(chain) \/ \E b \in Admins : AnswersFor(job[b], i)
      BY <2>1, <2>3 DEF PluginsExact, ListedExact
    <3>3. CASE i \in ToSet(chain) \/ AnswersFor(job[a], i)
      BY <1>1, <2>1, <2>3, <3>1, <3>3
    <3>4. ASSUME NEW b \in Admins \ {a}, AnswersFor(job[b], i)
          PROVE  \E c \in Admins : AnswersFor(job'[c], i)
      BY <1>1, <3>4
    <3> QED  BY <2>1, <3>1, <3>2, <3>3, <3>4
  <2> QED  BY <2>1, <2>2, <2>3
<1>7. \A b \in Admins : JobExact(job[b])'
  <2>1. JobExact(job[a])'
    BY <1>1 DEF JobExact
  <2> QED  BY <1>4, <2>1
<1>8. \A b, c \in Admins :
        b # c /\ job'[b].at \in Loading /\ job'[c].at \in Loading => job'[b].inst # job'[c].inst
  BY <1>1, <1>5 DEF PluginsExact
<1> QED  BY <1>6, <1>7, <1>8 DEF PluginsExact

\* Steps outside the loading of a plug-in.
LEMMA ExactMove ==
  ASSUME PluginsTyped, PluginsExact, NEW a \in Admins, NEW j \in Jobs,
         job' = [job EXCEPT ![a] = j], Alone(a),
         job[a].at \notin Loading, j.at \notin Loading,
         UNCHANGED <<Mode, chain, made>>,
         \A n \in Names : plugins'[n] = 0 \/ plugins'[n] = plugins[n]
  PROVE  PluginsExact'
<1>1. manager' = manager /\ chain' = chain /\ made' = made
  BY DEF Mode
<1>2. JobExact(j)'
  BY DEF JobExact, Loading
<1>3. \A i : ~AnswersFor(job[a], i)
  BY DEF AnswersFor, Loading
<1>4. IsInjective(chain')
  BY <1>1 DEF PluginsExact
<1> QED  BY <1>1, <1>2, <1>3, <1>4, ExactJob

\* The calls before and between the plug-ins.
LEMMA ExactFiles ==
  ASSUME PluginsTyped, PluginsTyped', PluginsExact, NEW a \in Admins,
         \/ \E files : Load(a, files)
         \/ \E runs : NextFile(a, runs)
         \/ LoadEnds(a) \/ FileEnds(a) \/ ReloadUnloads(a)
         \/ \E n \in Names : Reload(a, n)
  PROVE  PluginsExact'
<1>1. job \in [Admins -> Jobs] /\ job' \in [Admins -> Jobs] /\ plugins \in [Names -> 0..Len(made)]
  BY DEF PluginsTyped, TypeOK
<1>2. Idle.at = "idle"
  BY DEF Idle
<1>3. /\ job[a].at \in {"idle", "file", "class", "unload"}
      /\ job'[a].at \in {"idle", "file", "class", "unload"}
      /\ job' = [job EXCEPT ![a] = job'[a]]
      /\ UNCHANGED <<Mode, chain, made>>
  BY <1>1, <1>2 DEF Load, MayStart, NextFile, LoadEnds, FileEnds, ReloadUnloads, Reload
<1>4. Alone(a)
  <2>1. job[a].at # "idle" => Alone(a)
    BY DEF PluginsTyped
  <2>2. job[a].at = "idle" => MayStart(a)
    BY DEF Load, NextFile, LoadEnds, FileEnds, ReloadUnloads, Reload
  <2> QED  BY <1>2, <2>1, <2>2 DEF MayStart, Alone
<1>5. \A n \in Names : plugins'[n] = 0 \/ plugins'[n] = plugins[n]
  <2>1. ReloadUnloads(a) => plugins' = [plugins EXCEPT ![job[a].name] = 0]
    BY DEF ReloadUnloads, Unlist
  <2>2. ~ReloadUnloads(a) => plugins' = plugins
    BY DEF Load, NextFile, LoadEnds, FileEnds, Reload, Tables
  <2> QED  BY <1>1, <2>1, <2>2
<1>6. PICK j \in Jobs : j = job'[a]
  BY <1>1
<1>7. job' = [job EXCEPT ![a] = j] /\ job[a].at \notin Loading /\ j.at \notin Loading
  BY <1>3, <1>6 DEF Loading
<1> QED  BY <1>3, <1>4, <1>5, <1>7, ExactMove

\* The steps of one registration, whose instance nobody else has.
LEMMA ExactLoading ==
  ASSUME PluginsTyped, PluginsTyped', PluginsExact, NEW a \in Admins,
         Instantiate(a) \/ Subscribe(a) \/ FindPlace(a) \/ InsertFilter(a)
  PROVE  PluginsExact'
<1>1. /\ job \in [Admins -> Jobs] /\ job' \in [Admins -> Jobs]
      /\ JobFits(job[a]) /\ JobExact(job[a])
      /\ plugins \in [Names -> 0..Len(made)] /\ Len(made) \in Nat
      /\ made \in Seq(Names) /\ chain \in Seq(1..Len(made)) /\ IsInjective(chain)
  BY DEF PluginsTyped, TypeOK, PluginsExact
<1>2. /\ job[a].at \in {"class", "subscribe", "filter", "insert"}
      /\ job' = [job EXCEPT ![a] = job'[a]]
      /\ manager' = manager
  BY <1>1 DEF Instantiate, Subscribe, FindPlace, InsertFilter, Mode
<1>3. PICK j \in Jobs : j = job'[a] /\ job' = [job EXCEPT ![a] = j]
  BY <1>1, <1>2
<1>4. Alone(a)
  BY <1>2 DEF PluginsTyped
<1>5. ToSet(chain) \subseteq 1..Len(made)
  BY <1>1 DEF ToSet
<1>6. CASE Instantiate(a)
  <2>1. PICK i \in Nat : i = Len(made) + 1
    BY <1>1
  <2>2. /\ j.at = "subscribe" /\ j.inst = i /\ job[a].at = "class"
        /\ made' = Append(made, Head(job[a].classes)) /\ chain' = chain
        /\ IF manager = "server" THEN List(Head(job[a].classes), i, job[a].file)
           ELSE UNCHANGED Tables
    BY <1>1, <1>3, <1>6, <2>1 DEF Instantiate
  <2>3. PICK n \in Names : n = Head(job[a].classes)
    <3>1. job[a].classes \in Seq(Names) /\ job[a].classes # <<>>
      BY <1>1, <1>6, <2>2, JobShape DEF Instantiate
    <3> QED  BY <3>1, HeadTailProperties
  <2>4. made' = Append(made, n) /\ made'[i] = n /\ \A k \in 1..Len(made) : made'[k] = made[k]
    BY <1>1, <2>1, <2>2, <2>3
  <2>5. JobExact(j)'
    <3>1. i \notin ToSet(chain)
      BY <1>1, <1>5, <2>1
    <3> QED  BY <2>2, <3>1 DEF JobExact
  <2>6. \A k : ~AnswersFor(job[a], k)
    BY <2>2 DEF AnswersFor
  <2>7. ASSUME NEW m \in Names, plugins'[m] # 0
        PROVE  \/ plugins'[m] = plugins[m]
               \/ made'[plugins'[m]] = m /\ AnswersFor(j, plugins'[m])
    <3>1. CASE manager = "server"
      <4>1. plugins' = [plugins EXCEPT ![n] = i]
        BY <2>2, <2>3, <3>1 DEF List
      <4>2. m = n => plugins'[m] = i
        BY <1>1, <4>1
      <4>3. m # n => plugins'[m] = plugins[m]
        BY <1>1, <4>1
      <4> QED  BY <2>2, <2>4, <3>1, <4>2, <4>3 DEF AnswersFor
    <3>2. CASE manager # "server"
      BY <2>2, <3>2 DEF Tables
    <3> QED  BY <3>1, <3>2
  <2>8. IsInjective(chain') /\ j.at \in Loading /\ j.inst = Len(made) + 1
    BY <1>1, <2>1, <2>2 DEF Loading
  <2> QED  BY <1>2, <1>3, <1>4, <2>2, <2>4, <2>5, <2>6, <2>7, <2>8, ExactJob
<1>7. CASE Subscribe(a)
  <2>1. job[a] \in [at : {"subscribe", "filter", "sort", "return"}, files : Seq(Files),
                    file : Files, classes : Seq(Names), inst : Instances]
        /\ job[a].at = "subscribe"
    BY <1>1, <1>7 DEF Subscribe, Jobs, Idle
  <2>2. /\ j.at = "filter" /\ j.inst = job[a].inst
        /\ chain' = chain /\ made' = made /\ plugins' = plugins
    BY <1>1, <1>3, <1>7, <2>1 DEF Subscribe, Tables
  <2>3. JobExact(j)'
    BY <1>1, <2>1, <2>2 DEF JobExact
  <2>4. \A k : AnswersFor(job[a], k) => AnswersFor(j, k)
    BY <2>1, <2>2 DEF AnswersFor
  <2>5. job[a].at \in Loading /\ IsInjective(chain')
    BY <1>1, <2>1, <2>2 DEF Loading
  <2> QED  BY <1>2, <1>3, <1>4, <2>2, <2>3, <2>4, <2>5, ExactJob
<1>8. CASE FindPlace(a)
  <2>1. PICK place : job'[a] =
          [at |-> "insert", files |-> job[a].files, file |-> job[a].file,
           classes |-> job[a].classes, inst |-> job[a].inst,
           place |-> place, length |-> Len(chain)]
    BY <1>1, <1>8 DEF FindPlace
  <2>2. /\ j.at = "insert" /\ j.inst = job[a].inst /\ job[a].at = "filter"
        /\ chain' = chain /\ made' = made /\ plugins' = plugins
    BY <1>3, <1>8, <2>1 DEF FindPlace, Tables
  <2>3. JobExact(j)'
    BY <1>1, <2>2 DEF JobExact
  <2>4. \A k : AnswersFor(job[a], k) => AnswersFor(j, k)
    BY <2>2 DEF AnswersFor
  <2>5. job[a].at \in Loading /\ IsInjective(chain')
    BY <1>1, <2>2 DEF Loading
  <2> QED  BY <1>2, <1>3, <1>4, <2>2, <2>3, <2>4, <2>5, ExactJob
<1>9. CASE InsertFilter(a)
  <2>1. /\ job[a].at = "insert" /\ j.at = "return" /\ j.inst = job[a].inst
        /\ chain' = InsertAt(chain, job[a].place, job[a].inst)
        /\ made' = made /\ plugins' = plugins
    BY <1>1, <1>3, <1>9 DEF InsertFilter, Tables
  <2>2. PICK i \in 1..Len(made), p \in 1..(Len(chain) + 1) :
          i = job[a].inst /\ p = job[a].place
    <3>1. job[a].length \in Nat /\ Len(chain) \in Nat
      BY <1>1, <2>1, JobShape
    <3> QED  BY <1>1, <2>1, <3>1 DEF JobFits, Loading
  <2>3. i \notin ToSet(chain)
    BY <1>1, <2>1, <2>2 DEF JobExact
  <2>4. ToSet(chain') = ToSet(chain) \cup {i} /\ IsInjective(chain')
    <3>1. chain \in Seq(1..Len(made)) /\ IsInjective(chain)
      BY <1>1
    <3>2. ToSet(InsertAt(chain, p, i)) = ToSet(chain) \cup {i} /\ IsInjective(InsertAt(chain, p, i))
      BY <2>3, <3>1, InsertElements
    <3> QED  BY <2>1, <2>2, <3>2
  <2>5. JobExact(j)'
    BY <2>1, <2>2, <2>4 DEF JobExact
  <2>6. \A k : AnswersFor(job[a], k) => k \in ToSet(chain')
    BY <2>1, <2>2, <2>4 DEF AnswersFor
  <2>7. job[a].at \in Loading
    BY <2>1 DEF Loading
  <2> QED  BY <1>2, <1>3, <1>4, <2>1, <2>2, <2>4, <2>5, <2>6, <2>7, ExactJob
<1> QED  BY <1>6, <1>7, <1>8, <1>9

\* The client's registration: nobody else loads a plug-in then.
LEMMA ExactSorting ==
  ASSUME PluginsTyped, PluginsTyped', PluginsExact, NEW a \in Admins,
         AppendFilter(a) \/ SortBegins(a) \/ SortEnds(a)
  PROVE  PluginsExact'
<1>1. /\ job \in [Admins -> Jobs] /\ job' \in [Admins -> Jobs]
      /\ JobFits(job[a]) /\ JobExact(job[a]) /\ IsInjective(chain)
      /\ chain \in Seq(1..Len(made))
  BY DEF PluginsTyped, TypeOK, PluginsExact
<1>2. /\ job[a].at \in {"filter", "sort", "sorting"} /\ manager = "client"
      /\ job' = [job EXCEPT ![a] = job'[a]]
      /\ manager' = manager /\ made' = made /\ plugins' = plugins
  BY <1>1 DEF AppendFilter, SortBegins, SortEnds, Mode, Tables, JobFits
<1>3. PICK j \in Jobs : j = job'[a] /\ job' = [job EXCEPT ![a] = j]
  BY <1>1, <1>2
<1>4. Alone(a) /\ job[a].at \in Loading
  BY <1>2 DEF PluginsTyped, Loading
<1>5. CASE AppendFilter(a)
  <2>1. job[a] \in [at : {"subscribe", "filter", "sort", "return"}, files : Seq(Files),
                    file : Files, classes : Seq(Names), inst : Instances]
        /\ job[a].at = "filter"
    BY <1>1, <1>5 DEF AppendFilter, Jobs, Idle
  <2>2. /\ j.at = "sort" /\ j.inst = job[a].inst /\ chain' = Append(chain, job[a].inst)
    BY <1>1, <1>3, <1>5, <2>1 DEF AppendFilter
  <2>3. PICK i \in 1..Len(made) : i = job[a].inst
    BY <1>1, <1>4 DEF JobFits
  <2>4. i \notin ToSet(chain)
    BY <1>1, <2>1, <2>3 DEF JobExact
  <2>5. ToSet(chain') = ToSet(chain) \cup {i} /\ IsInjective(chain')
    <3>1. chain \in Seq(1..Len(made)) /\ IsInjective(chain)
      BY <1>1
    <3>2. ToSet(Append(chain, i)) = ToSet(chain) \cup {i} /\ IsInjective(Append(chain, i))
      BY <2>4, <3>1, AppendElements
    <3> QED  BY <2>2, <2>3, <3>2
  <2>6. JobExact(j)'
    BY <2>2, <2>3, <2>5 DEF JobExact
  <2>7. \A k : ~AnswersFor(job[a], k)
    BY <1>2, <2>1 DEF AnswersFor
  <2> QED  BY <1>2, <1>3, <1>4, <2>2, <2>5, <2>6, <2>7, ExactJob
<1>6. CASE SortBegins(a)
  <2>1. /\ j.at = "sorting" /\ j.inst = job[a].inst /\ j.list = chain /\ chain' = <<>>
        /\ job[a].at = "sort"
    BY <1>1, <1>3, <1>6 DEF SortBegins
  <2>2. IsInjective(chain')
    BY <2>1 DEF IsInjective
  <2>3. JobExact(j)'
    BY <1>1, <2>1 DEF JobExact
  <2>4. \A k : /\ ~AnswersFor(job[a], k)
               /\ k \in ToSet(chain) => AnswersFor(j, k)
    BY <2>1 DEF AnswersFor
  <2> QED  BY <1>2, <1>3, <1>4, <2>1, <2>2, <2>3, <2>4, ExactJob
<1>7. CASE SortEnds(a)
  <2>1. /\ j.at = "return" /\ j.inst = job[a].inst /\ chain' = Sorted(job[a].list)
        /\ job[a].at = "sorting"
    BY <1>1, <1>3, <1>7 DEF SortEnds
  <2>2. PICK list \in Seq(1..Len(made)) : list = job[a].list
    BY <1>1, <2>1 DEF JobFits
  <2>3. IsInjective(list) /\ j.inst \in ToSet(list) /\ chain = <<>>
    BY <1>1, <2>1, <2>2 DEF JobExact, JobFits
  <2>4. IsInjective(chain') /\ ToSet(chain') = ToSet(list)
    <3>1. \A k \in DOMAIN list : PriorityOf(list[k]) \in Int
      BY PriorityType
    <3> QED  BY <2>1, <2>2, <2>3, <3>1, SortExact
  <2>5. JobExact(j)'
    BY <2>1, <2>3, <2>4 DEF JobExact
  <2>6. \A k : /\ AnswersFor(job[a], k) => k \in ToSet(chain')
               /\ k \notin ToSet(chain)
    <3>1. ToSet(chain) = {}
      BY <2>3 DEF ToSet
    <3> QED  BY <2>1, <2>2, <2>4, <3>1 DEF AnswersFor
  <2> QED  BY <1>2, <1>3, <1>4, <2>1, <2>4, <2>5, <2>6, ExactJob
<1> QED  BY <1>5, <1>6, <1>7

\* on_load returns or raises.  When it raises before the filter is registered, the
\* server takes the plug-in out of its table, and the client has not listed it.
LEMMA ExactReturn ==
  ASSUME PluginsTyped, PluginsTyped', PluginsExact, NEW a \in Admins,
         OnLoadReturns(a) \/ OnLoadRaises(a)
  PROVE  PluginsExact'
<1>1. /\ job \in [Admins -> Jobs] /\ job' \in [Admins -> Jobs]
      /\ JobFits(job[a]) /\ JobExact(job[a]) /\ IsInjective(chain)
      /\ plugins \in [Names -> 0..Len(made)] /\ manager \in {"server", "client"}
  BY DEF PluginsTyped, TypeOK, PluginsExact
<1>2. /\ job[a].at \in {"subscribe", "filter", "return"}
      /\ job' = [job EXCEPT ![a] = job'[a]] /\ job'[a].at = "class"
      /\ manager' = manager /\ made' = made /\ chain' = chain
  BY <1>1 DEF OnLoadReturns, OnLoadRaises, NextClass, Mode
<1>3. PICK j \in Jobs : j = job'[a] /\ job' = [job EXCEPT ![a] = j] /\ j.at = "class"
  BY <1>1, <1>2
<1>4. Alone(a) /\ job[a].at \in Loading /\ j.at \notin Loading
  BY <1>2, <1>3 DEF PluginsTyped, Loading
<1>5. PICK i \in 1..Len(made) : i = job[a].inst
  BY <1>1, <1>4 DEF JobFits
<1>6. JobExact(j)'
  BY <1>3 DEF JobExact
<1>7. \A m \in Names : plugins[m] # 0 => made[plugins[m]] = m
  BY DEF PluginsExact, ListedExact
<1>8. ASSUME NEW m \in Names, plugins'[m] # 0
      PROVE  \/ /\ plugins'[m] = plugins[m]
                /\ plugins[m] \in ToSet(chain) \/ AnswersFor(job[a], plugins[m]) =>
                     plugins[m] \in ToSet(chain')
             \/ made'[plugins'[m]] = m /\ plugins'[m] \in ToSet(chain')
  <2>1. CASE OnLoadReturns(a)
    <3>1. job[a].at = "return" /\ i \in ToSet(chain)
      BY <1>1, <1>5, <2>1 DEF OnLoadReturns, JobExact
    <3>2. \A k : ~AnswersFor(job[a], k)
      BY <3>1 DEF AnswersFor
    <3>3. CASE manager = "client"
      <4>1. plugins' = [plugins EXCEPT ![made[i]] = i]
        BY <1>5, <2>1, <3>3 DEF OnLoadReturns, List
      <4>2. m = made[i] => plugins'[m] = i
        BY <1>1, <4>1
      <4>3. m # made[i] => plugins'[m] = plugins[m]
        BY <1>1, <4>1
      <4> QED  BY <1>2, <3>1, <3>2, <4>2, <4>3
    <3>4. CASE manager # "client"
      <4>1. plugins' = plugins
        BY <2>1, <3>4 DEF OnLoadReturns, Tables
      <4> QED  BY <1>2, <3>2, <4>1
    <3> QED  BY <3>3, <3>4
  <2>2. CASE OnLoadRaises(a)
    <3>1. CASE manager = "server"
      <4>1. plugins' = [plugins EXCEPT ![made[i]] = 0]
        BY <1>5, <2>2, <3>1 DEF OnLoadRaises, Unlist
      <4>2. m # made[i]
        BY <1>1, <1>8, <4>1
      <4>3. plugins'[m] = plugins[m]
        BY <1>1, <4>1, <4>2
      <4>4. plugins[m] # i
        BY <1>7, <1>8, <4>2, <4>3
      <4>5. ~AnswersFor(job[a], plugins[m])
        BY <1>2, <1>5, <4>4 DEF AnswersFor
      <4> QED  BY <1>2, <4>3, <4>5
    <3>2. CASE manager # "server"
      <4>1. plugins' = plugins
        BY <2>2, <3>2 DEF OnLoadRaises, Tables
      <4>2. \A k : ~AnswersFor(job[a], k)
        BY <1>2, <3>2 DEF AnswersFor
      <4> QED  BY <1>2, <4>1, <4>2
    <3> QED  BY <3>1, <3>2
  <2> QED  BY <2>1, <2>2
<1>9. IsInjective(chain')
  BY <1>1, <1>2
<1> QED  BY <1>2, <1>3, <1>4, <1>6, <1>8, <1>9, ExactJob

\* Steps that leave the calls, the list and the instances alone.
LEMMA ExactUnload ==
  ASSUME PluginsTyped, PluginsExact, UNCHANGED <<Mode, made, chain, job>>,
         \A n \in Names : plugins'[n] = 0 \/ plugins'[n] = plugins[n]
  PROVE  PluginsExact'
<1>1. manager' = manager /\ made' = made /\ chain' = chain /\ job' = job
  BY DEF Mode
<1>2. ASSUME NEW n \in Names PROVE ListedExact(n)'
  <2>1. CASE plugins'[n] = 0
    BY <2>1 DEF ListedExact
  <2>2. CASE plugins'[n] = plugins[n]
    <3>1. ListedExact(n)
      BY DEF PluginsExact
    <3> QED  BY <1>1, <2>2, <3>1 DEF ListedExact, AnswersFor
  <2> QED  BY <2>1, <2>2
<1>3. \A b \in Admins : JobExact(job[b])'
  BY <1>1 DEF PluginsExact, JobExact
<1> QED  BY <1>1, <1>2, <1>3 DEF PluginsExact

\* Every step keeps the instances in the list as they should be.
LEMMA ExactStep == PluginsTyped /\ PluginsExact /\ [Next]_vars => PluginsExact'
<1> SUFFICES ASSUME PluginsTyped, PluginsExact, [Next]_vars PROVE PluginsExact'
  OBVIOUS
<1>1. PluginsTyped'
  BY TypedStep
<1>2. ASSUME NEW a \in Admins,
             \/ \E files : Load(a, files)
             \/ \E runs : NextFile(a, runs)
             \/ LoadEnds(a) \/ FileEnds(a) \/ ReloadUnloads(a)
             \/ \E n \in Names : Reload(a, n)
      PROVE  PluginsExact'
  BY <1>1, <1>2, ExactFiles
<1>3. ASSUME NEW a \in Admins,
             Instantiate(a) \/ Subscribe(a) \/ FindPlace(a) \/ InsertFilter(a)
      PROVE  PluginsExact'
  BY <1>1, <1>3, ExactLoading
<1>4. ASSUME NEW a \in Admins, AppendFilter(a) \/ SortBegins(a) \/ SortEnds(a)
      PROVE  PluginsExact'
  BY <1>1, <1>4, ExactSorting
<1>5. ASSUME NEW a \in Admins, OnLoadReturns(a) \/ OnLoadRaises(a) PROVE PluginsExact'
  BY <1>1, <1>5, ExactReturn
<1>6. ASSUME NEW a \in Admins, NEW n \in Names, Unload(a, n) PROVE PluginsExact'
  <2>1. \A m \in Names : plugins'[m] = 0 \/ plugins'[m] = plugins[m]
    BY <1>6 DEF Unload, Unlist, PluginsTyped, TypeOK
  <2> QED  BY <1>6, <2>1, ExactUnload DEF Unload
<1>7. ASSUME UNCHANGED <<Mode, made, Tables, chain, job>> PROVE PluginsExact'
  BY <1>7, ExactUnload DEF Tables
<1>8. ASSUME NEW f \in Files, Sign(f) \/ Edit(f) PROVE PluginsExact'
  BY <1>7, <1>8 DEF Sign, Edit
<1>9. ASSUME NEW h \in Handlers,
             \/ Begin(h) \/ Exhausted(h)
             \/ \E answer \in {"data", "none", "raise"} : Ask(h, answer)
      PROVE  PluginsExact'
  BY <1>7, <1>9 DEF Begin, Exhausted, Ask
<1>10. CASE UNCHANGED vars
  BY <1>7, <1>10 DEF vars, Mode, Tables
<1> QED  BY <1>2, <1>3, <1>4, <1>5, <1>6, <1>8, <1>9, <1>10 DEF Next

(***************************************************************************)
(* The order of the list.                                                  *)
(***************************************************************************)

\* While no other filter has come, the place that a registration of the server
\* has found is right.
PlaceRight(j) ==
    j.at = "insert" /\ j.length = Len(chain) => j.place \in Places(chain, j.inst)

\* The inductive invariant about the order of the list.
PluginsOrdered ==
    /\ raced \/ (\E a \in Admins : job[a].at = "sort") \/ InOrder(chain)
    /\ \A a \in Admins : PlaceRight(job[a])

\* An empty list is in order.
LEMMA OrderedInit == Init => PluginsOrdered
<1> SUFFICES ASSUME Init PROVE PluginsOrdered
  OBVIOUS
<1>1. InOrder(chain)
  BY DEF Init, InOrder
<1>2. \A a \in Admins : job[a].at = "idle"
  BY DEF Init, Idle
<1> QED  BY <1>1, <1>2 DEF PluginsOrdered, PlaceRight

\* A filter inserted at the right place keeps a list in order.
LEMMA InsertOrdered ==
  ASSUME NEW T, NEW s \in Seq(T), NEW e \in T, NEW p \in Places(s, e),
         \A i \in T : PriorityOf(i) \in Int, InOrder(s)
  PROVE  InOrder(InsertAt(s, p, e))
<1>1. p \in 1..(Len(s) + 1) /\ Len(s) \in Nat /\ DOMAIN s = 1..Len(s)
  BY DEF Places
<1>2. PICK r \in Seq(T) : r = InsertAt(s, p, e)
  BY <1>1, InsertExact
<1>3. /\ DOMAIN r = 1..(Len(s) + 1)
      /\ \A k \in 1..(Len(s) + 1) :
           r[k] = IF k < p THEN s[k] ELSE IF k = p THEN e ELSE s[k - 1]
  <2>1. /\ Len(InsertAt(s, p, e)) = Len(s) + 1
        /\ \A k \in 1..(Len(s) + 1) :
             InsertAt(s, p, e)[k] = IF k < p THEN s[k] ELSE IF k = p THEN e ELSE s[k - 1]
    <3>1. p \in 1..(Len(s) + 1)
      BY <1>1
    <3> QED  BY ONLY s \in Seq(T), e \in T, <3>1, InsertExact
  <2>2. Len(r) = Len(s) + 1 /\ DOMAIN r = 1..Len(r)
    BY <1>2, <2>1
  <2> QED  BY <1>2, <2>1, <2>2
<1>4. \A k \in DOMAIN s : PriorityOf(s[k]) \in Int /\ k \in Int
  BY <1>1
<1>5. PriorityOf(e) \in Int /\ p \in Int
  BY <1>1
<1>6. \A k, l \in DOMAIN s : k <= l => PriorityOf(s[k]) <= PriorityOf(s[l])
  <2> SUFFICES ASSUME NEW k \in DOMAIN s, NEW l \in DOMAIN s, k <= l
               PROVE  PriorityOf(s[k]) <= PriorityOf(s[l])
    OBVIOUS
  <2>1. k = l \/ k < l
    BY <1>4
  <2> QED  BY <1>4, <2>1 DEF InOrder
<1>7. ASSUME NEW k \in DOMAIN s, k < p PROVE PriorityOf(s[k]) <= PriorityOf(e)
  <2>1. p - 1 \in DOMAIN s /\ k <= p - 1 /\ p > 1
    BY <1>1, <1>7
  <2>2. PriorityOf(s[p - 1]) < PriorityOf(e)
    BY <2>1 DEF Places
  <2>3. PriorityOf(s[k]) <= PriorityOf(s[p - 1])
    BY <1>6, <2>1
  <2> QED  BY <1>4, <1>5, <2>1, <2>2, <2>3
<1>8. ASSUME NEW k \in DOMAIN s, p <= k PROVE PriorityOf(e) <= PriorityOf(s[k])
  <2>1. p \in DOMAIN s /\ p <= Len(s)
    BY <1>1, <1>8
  <2>2. PriorityOf(s[p]) >= PriorityOf(e)
    BY <2>1 DEF Places
  <2>3. PriorityOf(s[p]) <= PriorityOf(s[k])
    BY <1>6, <1>8, <2>1
  <2> QED  BY <1>4, <1>5, <2>1, <2>2, <2>3
<1>9. ASSUME NEW k \in 1..(Len(s) + 1)
      PROVE  \/ k = p /\ r[k] = e
             \/ k < p /\ k \in DOMAIN s /\ r[k] = s[k]
             \/ p < k /\ k - 1 \in DOMAIN s /\ r[k] = s[k - 1]
  <2>1. r[k] = IF k < p THEN s[k] ELSE IF k = p THEN e ELSE s[k - 1]
    BY <1>3
  <2>2. CASE k = p
    BY <2>1, <2>2
  <2>3. CASE k < p
    BY <1>1, <2>1, <2>3
  <2>4. CASE p < k
    <3>1. k - 1 \in DOMAIN s /\ ~(k < p) /\ k # p
      BY <1>1, <2>4
    <3> QED  BY <2>1, <2>4, <3>1
  <2> QED  BY <1>5, <2>2, <2>3, <2>4
<1>10. ASSUME NEW k \in DOMAIN r, NEW l \in DOMAIN r, k < l
       PROVE  PriorityOf(r[k]) <= PriorityOf(r[l])
  <2>1. k \in 1..(Len(s) + 1) /\ l \in 1..(Len(s) + 1)
    BY <1>3
  <2>2. CASE l < p
    <3>1. /\ k \in DOMAIN s /\ r[k] = s[k]
          /\ l \in DOMAIN s /\ r[l] = s[l] /\ k <= l
      BY <1>5, <1>9, <1>10, <2>1, <2>2
    <3> QED  BY <1>6, <3>1
  <2>3. CASE l = p
    <3>1. k \in DOMAIN s /\ r[k] = s[k] /\ r[l] = e /\ k < p
      BY <1>5, <1>9, <1>10, <2>1, <2>3
    <3> QED  BY <1>7, <3>1
  <2>4. CASE p < l
    <3>1. l - 1 \in DOMAIN s /\ r[l] = s[l - 1] /\ p <= l - 1
      <4>1. l \in Int /\ ~(l < p) /\ l # p /\ p <= l - 1
        BY <1>5, <2>1, <2>4
      <4> QED  BY <1>9, <2>1, <4>1
    <3>2. CASE k < p
      <4>1. k \in DOMAIN s /\ r[k] = s[k] /\ k <= l - 1
        BY <1>5, <1>9, <1>10, <2>1, <3>2
      <4> QED  BY <1>6, <3>1, <4>1
    <3>3. CASE k = p
      <4>1. r[k] = e
        BY <1>5, <1>9, <2>1, <3>3
      <4> QED  BY <1>8, <3>1, <4>1
    <3>4. CASE p < k
      <4>1. k - 1 \in DOMAIN s /\ r[k] = s[k - 1] /\ k - 1 <= l - 1
        <5>1. k \in Int /\ l \in Int
          BY <1>1, <2>1
        <5>2. ~(k < p) /\ k # p /\ k - 1 <= l - 1
          BY <1>5, <1>10, <3>4, <5>1
        <5> QED  BY <1>9, <2>1, <5>2
      <4> QED  BY <1>6, <3>1, <4>1
    <3> QED  BY <1>5, <2>1, <3>2, <3>3, <3>4
  <2> QED  BY <1>5, <2>1, <2>2, <2>3, <2>4
<1> QED  BY <1>2, <1>10 DEF InOrder

\* The names of the plug-ins made do not change.
LEMMA MadeStays ==
  ASSUME PluginsTyped, [Next]_vars
  PROVE  /\ \A i \in 1..Len(made) : made'[i] = made[i]
         /\ \A i \in 1..Len(made) : PriorityOf(i)' = PriorityOf(i)
<1>1. made \in Seq(Names)
  BY DEF PluginsTyped, TypeOK
<1>2. ASSUME NEW a \in Admins, Instantiate(a)
      PROVE  \A i \in 1..Len(made) : made'[i] = made[i]
  <2>1. made' = Append(made, Head(job[a].classes))
    BY <1>2 DEF Instantiate
  <2> QED  BY <1>1, <2>1
<1>3. (\A a \in Admins : ~Instantiate(a)) => made' = made
  BY DEF Next, vars, Sign, Edit, Load, NextFile, LoadEnds, FileEnds, Subscribe, FindPlace,
         InsertFilter, AppendFilter, SortBegins, SortEnds, OnLoadReturns, OnLoadRaises,
         Unload, Reload, ReloadUnloads, Begin, Ask, Exhausted
<1>4. \A i \in 1..Len(made) : made'[i] = made[i]
  BY <1>2, <1>3
<1> QED  BY <1>4 DEF PriorityOf

\* What keeps the list and finds no place keeps the order.
LEMMA OrderedSame ==
  ASSUME PluginsTyped, PluginsOrdered, [Next]_vars, UNCHANGED <<chain, raced>>,
         \A a \in Admins :
           \/ job'[a] = job[a]
           \/ /\ job[a].at # "sort"
              /\ job'[a].at = "insert" =>
                   /\ job'[a].inst \in 1..Len(made)
                   /\ job'[a].place \in Places(chain, job'[a].inst)
  PROVE  PluginsOrdered'
<1>1. \A i \in 1..Len(made) : PriorityOf(i)' = PriorityOf(i)
  BY MadeStays
<1>2. chain' = chain /\ raced' = raced /\ chain \in Seq(1..Len(made))
  BY DEF PluginsTyped, TypeOK
<1>3. \A k \in DOMAIN chain : PriorityOf(chain[k])' = PriorityOf(chain[k])
  <2> SUFFICES ASSUME NEW k \in DOMAIN chain PROVE PriorityOf(chain[k])' = PriorityOf(chain[k])
    OBVIOUS
  <2>1. PICK i \in 1..Len(made) : i = chain[k]
    BY <1>2
  <2>2. PriorityOf(i)' = PriorityOf(i)
    BY <1>1
  <2> QED  BY <1>2, <2>1, <2>2 DEF PriorityOf
<1>4. InOrder(chain) => InOrder(chain)'
  BY <1>2, <1>3 DEF InOrder
<1>5. ASSUME NEW i \in 1..Len(made) PROVE Places(chain, i)' = Places(chain, i)
  <2>1. PriorityOf(i)' = PriorityOf(i)
    BY <1>1
  <2>2. DOMAIN chain = 1..Len(chain) /\ Len(chain) \in Nat
    BY <1>2
  <2>3. ASSUME NEW k \in 1..(Len(chain) + 1)
        PROVE  /\ k > 1 => PriorityOf(chain[k - 1])' = PriorityOf(chain[k - 1])
               /\ k <= Len(chain) => PriorityOf(chain[k])' = PriorityOf(chain[k])
    <3>1. CASE k > 1
      <4>1. k - 1 \in DOMAIN chain
        BY <2>2, <3>1
      <4> QED  BY <1>3, <2>2, <4>1
    <3>2. CASE ~(k > 1)
      BY <1>3, <2>2, <3>2
    <3> QED  BY <3>1, <3>2
  <2> QED  BY <1>2, <2>1, <2>3 DEF Places
<1>6. ASSUME NEW a \in Admins PROVE PlaceRight(job[a])'
  <2>1. PICK j : j = job'[a]
    OBVIOUS
  <2>2. ASSUME j.at = "insert", j.length = Len(chain)
        PROVE  j.place \in Places(chain, j.inst)'
    <3>1. j.inst \in 1..Len(made) /\ j.place \in Places(chain, j.inst)
      <4>1. CASE job'[a] = job[a]
        <5>1. JobFits(job[a]) /\ PlaceRight(job[a])
          BY DEF PluginsTyped, PluginsOrdered
        <5> QED  BY <2>1, <2>2, <4>1, <5>1 DEF JobFits, PlaceRight, Loading
      <4>2. CASE job'[a] # job[a]
        BY <2>1, <2>2, <4>2
      <4> QED  BY <4>1, <4>2
    <3>2. Places(chain, j.inst)' = Places(chain, j.inst)
      BY <1>5, <3>1
    <3> QED  BY <3>1, <3>2
  <2> QED  BY <1>2, <2>1, <2>2 DEF PlaceRight, Places, PriorityOf
<1>7. (\E a \in Admins : job[a].at = "sort") => \E a \in Admins : job'[a].at = "sort"
  <2>1. \A a \in Admins : job[a].at = "sort" => job'[a] = job[a]
    OBVIOUS
  <2> QED  BY <2>1
<1> QED  BY <1>2, <1>4, <1>6, <1>7 DEF PluginsOrdered

\* The server's insertion and the client's sorting put the list in order.
LEMMA OrderedChange ==
  ASSUME PluginsTyped, PluginsOrdered, NEW a \in Admins,
         InsertFilter(a) \/ AppendFilter(a) \/ SortBegins(a) \/ SortEnds(a)
  PROVE  PluginsOrdered'
<1>1. /\ job \in [Admins -> Jobs] /\ JobFits(job[a])
      /\ chain \in Seq(1..Len(made)) /\ Len(chain) \in Nat
      /\ \A b \in Admins : JobFits(job[b]) /\ job[b] \in Jobs
  BY DEF PluginsTyped, TypeOK
<1>2. /\ made' = made /\ \A b \in Admins \ {a} : job'[b] = job[b]
  BY <1>1 DEF InsertFilter, AppendFilter, SortBegins, SortEnds
<1>3. \A i \in 1..Len(made) : PriorityOf(i) \in Int
  BY PriorityType
<1>4. CASE InsertFilter(a)
  <2>1. /\ job[a].at = "insert" /\ job'[a].at = "return"
        /\ chain' = InsertAt(chain, job[a].place, job[a].inst)
        /\ raced' = (raced \/ job[a].length # Len(chain))
    BY <1>1, <1>4 DEF InsertFilter
  <2>2. PICK i \in 1..Len(made), p \in 1..(Len(chain) + 1) :
          i = job[a].inst /\ p = job[a].place
    <3>1. job[a].length \in Nat
      BY <1>1, <2>1, JobShape
    <3> QED  BY <1>1, <2>1, <3>1 DEF JobFits, Loading
  <2>3. Len(chain') = Len(chain) + 1
    <3>1. Len(InsertAt(chain, p, i)) = Len(chain) + 1
      BY <1>1, InsertExact
    <3> QED  BY <2>1, <2>2, <3>1
  <2>4. ASSUME NEW b \in Admins PROVE PlaceRight(job[b])'
    <3>1. CASE b = a
      BY <2>1, <3>1 DEF PlaceRight
    <3>2. CASE b # a
      <4>1. job'[b] = job[b]
        BY <1>2, <3>2
      <4>2. job[b].at = "insert" => job[b].length \in Nat /\ job[b].length <= Len(chain)
        BY <1>1, JobShape DEF JobFits
      <4>3. job[b].at = "insert" => job[b].length # Len(chain')
        BY <1>1, <2>3, <4>2
      <4> QED  BY <4>1, <4>3 DEF PlaceRight
    <3> QED  BY <3>1, <3>2
  <2>5. raced' \/ InOrder(chain)'
    <3>1. CASE raced \/ job[a].length # Len(chain)
      BY <2>1, <3>1
    <3>2. CASE ~raced /\ job[a].length = Len(chain)
      <4>1. p \in Places(chain, i)
        BY <2>1, <2>2, <3>2 DEF PluginsOrdered, PlaceRight
      <4>2. \A b \in Admins : job[b].at # "sort"
        BY <1>1, <2>1 DEF JobFits
      <4>3. InOrder(chain)
        BY <3>2, <4>2 DEF PluginsOrdered
      <4>4. InOrder(InsertAt(chain, p, i))
        BY <1>1, <1>3, <4>1, <4>3, InsertOrdered
      <4> QED  BY <1>2, <2>1, <2>2, <4>4 DEF InOrder, PriorityOf
    <3> QED  BY <3>1, <3>2
  <2> QED  BY <2>4, <2>5 DEF PluginsOrdered
<1>5. ASSUME AppendFilter(a) \/ SortBegins(a) \/ SortEnds(a)
      PROVE  \A b \in Admins : PlaceRight(job[b])'
  <2>1. manager = "client" /\ job'[a].at # "insert"
    <3>1. CASE AppendFilter(a)
      <4>1. job[a] \in [at : {"subscribe", "filter", "sort", "return"}, files : Seq(Files),
                        file : Files, classes : Seq(Names), inst : Instances]
        BY <1>1, <3>1 DEF AppendFilter, Jobs, Idle
      <4> QED  BY <1>1, <3>1, <4>1 DEF AppendFilter
    <3>2. CASE SortBegins(a) \/ SortEnds(a)
      BY <1>1, <3>2 DEF SortBegins, SortEnds, JobFits
    <3> QED  BY <1>5, <3>1, <3>2
  <2>2. \A b \in Admins : job[b].at # "insert"
    BY <1>1, <2>1 DEF JobFits
  <2>3. \A b \in Admins : job'[b].at # "insert"
    BY <1>2, <2>1, <2>2
  <2> QED  BY <2>3 DEF PlaceRight
<1>6. CASE AppendFilter(a)
  <2>1. job[a] \in [at : {"subscribe", "filter", "sort", "return"}, files : Seq(Files),
                    file : Files, classes : Seq(Names), inst : Instances]
    BY <1>1, <1>6 DEF AppendFilter, Jobs, Idle
  <2>2. job'[a].at = "sort"
    BY <1>1, <1>6, <2>1 DEF AppendFilter
  <2> QED  BY <1>5, <1>6, <2>2 DEF PluginsOrdered
<1>7. CASE SortBegins(a)
  <2>1. chain' = <<>>
    BY <1>7 DEF SortBegins
  <2>2. InOrder(chain)'
    BY <2>1 DEF InOrder
  <2> QED  BY <1>5, <1>7, <2>2 DEF PluginsOrdered
<1>8. CASE SortEnds(a)
  <2>1. PICK list \in Seq(1..Len(made)) : list = job[a].list
    BY <1>1, <1>8 DEF JobFits, SortEnds
  <2>2. InOrder(Sorted(list))
    <3>1. \A k \in DOMAIN list : PriorityOf(list[k]) \in Int
      BY <1>3
    <3> QED  BY <3>1, SortExact
  <2>3. chain' = Sorted(list)
    BY <1>8, <2>1 DEF SortEnds
  <2>4. InOrder(chain)'
    BY <1>2, <2>2, <2>3 DEF InOrder, PriorityOf
  <2> QED  BY <1>5, <1>8, <2>4 DEF PluginsOrdered
<1> QED  BY <1>4, <1>6, <1>7, <1>8

\* Every step keeps the order.
LEMMA OrderedStep == PluginsTyped /\ PluginsOrdered /\ [Next]_vars => PluginsOrdered'
<1> SUFFICES ASSUME PluginsTyped, PluginsOrdered, [Next]_vars PROVE PluginsOrdered'
  OBVIOUS
<1>1. /\ job \in [Admins -> Jobs] /\ \A a \in Admins : JobFits(job[a]) /\ job[a] \in Jobs
  BY DEF PluginsTyped, TypeOK
<1>2. ASSUME NEW a \in Admins,
             \/ \E files : Load(a, files)
             \/ \E runs : NextFile(a, runs)
             \/ LoadEnds(a) \/ FileEnds(a) \/ ReloadUnloads(a)
             \/ \E n \in Names : Reload(a, n)
             \/ Instantiate(a) \/ OnLoadReturns(a) \/ OnLoadRaises(a)
      PROVE  PluginsOrdered'
  <2>1. /\ job[a].at # "sort" /\ job'[a].at # "insert"
        /\ \A b \in Admins \ {a} : job'[b] = job[b]
        /\ UNCHANGED <<chain, raced>>
    BY <1>1, <1>2 DEF Load, MayStart, NextFile, LoadEnds, FileEnds, ReloadUnloads, Reload,
                      Instantiate, OnLoadReturns, OnLoadRaises, NextClass, Idle
  <2> QED  BY <2>1, OrderedSame
<1>3. ASSUME NEW a \in Admins, Subscribe(a) PROVE PluginsOrdered'
  <2>1. job[a] \in [at : {"subscribe", "filter", "sort", "return"}, files : Seq(Files),
                    file : Files, classes : Seq(Names), inst : Instances]
        /\ job[a].at = "subscribe"
    BY <1>1, <1>3 DEF Subscribe, Jobs, Idle
  <2>2. /\ job'[a].at = "filter" /\ \A b \in Admins \ {a} : job'[b] = job[b]
        /\ UNCHANGED <<chain, raced>>
    BY <1>1, <1>3, <2>1 DEF Subscribe
  <2> QED  BY <2>1, <2>2, OrderedSame
<1>4. ASSUME NEW a \in Admins, FindPlace(a) PROVE PluginsOrdered'
  <2>1. PICK place \in Places(chain, job[a].inst) :
          job' = [job EXCEPT ![a] =
                    [at |-> "insert", files |-> job[a].files, file |-> job[a].file,
                     classes |-> job[a].classes, inst |-> job[a].inst,
                     place |-> place, length |-> Len(chain)]]
    BY <1>4 DEF FindPlace
  <2>2. job[a].at = "filter" /\ job[a].inst \in 1..Len(made)
    BY <1>1, <1>4 DEF FindPlace, JobFits, Loading
  <2>3. /\ job'[a].place = place /\ job'[a].inst = job[a].inst
        /\ \A b \in Admins \ {a} : job'[b] = job[b]
    BY <1>1, <2>1
  <2>4. UNCHANGED <<chain, raced>>
    BY <1>4 DEF FindPlace
  <2> QED  BY <2>2, <2>3, <2>4, OrderedSame
<1>5. ASSUME NEW a \in Admins,
             InsertFilter(a) \/ AppendFilter(a) \/ SortBegins(a) \/ SortEnds(a)
      PROVE  PluginsOrdered'
  BY <1>5, OrderedChange
<1>6. ASSUME UNCHANGED <<chain, raced, job>> PROVE PluginsOrdered'
  BY <1>6, OrderedSame
<1>7. ASSUME NEW a \in Admins, NEW n \in Names, Unload(a, n) PROVE PluginsOrdered'
  BY <1>6, <1>7 DEF Unload
<1>8. ASSUME NEW f \in Files, Sign(f) \/ Edit(f) PROVE PluginsOrdered'
  BY <1>6, <1>8 DEF Sign, Edit
<1>9. ASSUME NEW h \in Handlers,
             \/ Begin(h) \/ Exhausted(h)
             \/ \E answer \in {"data", "none", "raise"} : Ask(h, answer)
      PROVE  PluginsOrdered'
  BY <1>6, <1>9 DEF Begin, Exhausted, Ask
<1>10. CASE UNCHANGED vars
  BY <1>6, <1>10 DEF vars
<1> QED  BY <1>2, <1>3, <1>4, <1>5, <1>7, <1>8, <1>9, <1>10 DEF Next

\* An instance that is in a list without repetition is there once.
LEMMA OnceInList ==
  ASSUME IsInjective(chain), NEW i \in ToSet(chain)
  PROVE  \E k \in DOMAIN chain : \A l \in DOMAIN chain : chain[l] = i <=> l = k
<1>1. PICK k \in DOMAIN chain : chain[k] = i
  BY DEF ToSet
<1>2. \A l \in DOMAIN chain : chain[l] = i <=> l = k
  BY <1>1 DEF IsInjective
<1> QED  BY <1>2

\* The filter of every loaded plug-in is in the list exactly once, for any files,
\* classes, priorities and numbers of admins, and the filters are in the order of
\* their priorities unless two registrations overlapped (plugin_manager.py:41-42).
THEOREM LoadedPluginsFilter == Spec => []ChainExact
<1>1. PluginsTyped /\ PluginsExact /\ PluginsOrdered => ChainExact
  <2> SUFFICES ASSUME PluginsTyped, PluginsExact, PluginsOrdered PROVE ChainExact
    OBVIOUS
  <2>1. ASSUME NEW n \in Names, plugins[n] # 0, ~Registering(plugins[n])
        PROVE  Held(plugins[n])
    <3>1. CASE plugins[n] \in ToSet(chain)
      BY <3>1, OnceInList DEF PluginsExact, Held
    <3>2. CASE plugins[n] \notin ToSet(chain)
      <4>1. PICK a \in Admins : AnswersFor(job[a], plugins[n])
        BY <2>1, <3>2 DEF PluginsExact, ListedExact
      <4>2. job[a].at = "sorting" /\ plugins[n] \in ToSet(job[a].list)
        BY <2>1, <4>1 DEF AnswersFor, Registering
      <4> QED  BY <4>2 DEF Held
    <3> QED  BY <3>1, <3>2
  <2> QED  BY <2>1 DEF ChainExact, PluginsOrdered
<1> QED  BY <1>1, TypedInit, TypedStep, ExactInit, ExactStep, OrderedInit, OrderedStep,
            PTL DEF Spec

(***************************************************************************)
(* No filter is passed over.                                               *)
(***************************************************************************)

\* A filter that was there when the message began its way has been asked or is
\* still ahead, since insertions only move it to the right.
MessageExact(h) ==
    manager = "server" =>
      /\ pass[h].at = "asking" =>
           \A i \in pass[h].due :
             \/ i \in ToSet(pass[h].asked)
             \/ \E k \in DOMAIN chain : k >= pass[h].pos /\ chain[k] = i
      /\ pass[h].at = "done" /\ pass[h].verdict = "passed" =>
           pass[h].due \subseteq ToSet(pass[h].asked)

\* The inductive invariant about the messages that are being filtered.
MessagesExact == \A h \in Handlers : MessageExact(h)

\* No message is on its way.
LEMMA MessagesInit == Init => MessagesExact
  BY DEF Init, MessagesExact, MessageExact, Idle

\* What follows for a message from where it is after a step.
LEMMA MessageStep ==
  ASSUME PluginsTyped, MessagesExact, NEW h \in Handlers,
         \/ Begin(h) \/ Exhausted(h)
         \/ \E answer \in {"data", "none", "raise"} : Ask(h, answer)
  PROVE  MessagesExact'
<1>1. /\ pass \in [Handlers -> Passes] /\ chain \in Seq(1..Len(made))
      /\ DOMAIN chain = 1..Len(chain) /\ Len(chain) \in Nat
  BY DEF PluginsTyped, TypeOK
<1>2. /\ manager' = manager /\ chain' = chain
      /\ \A g \in Handlers \ {h} : pass'[g] = pass[g]
  BY <1>1 DEF Begin, Exhausted, Ask, Done, Mode
<1>3. ASSUME NEW g \in Handlers \ {h} PROVE MessageExact(g)'
  BY <1>2 DEF MessagesExact, MessageExact
<1>4. CASE Begin(h)
  <2>1. /\ pass'[h].at = "asking" /\ pass'[h].pos = 1 /\ pass'[h].due = ToSet(chain)
    BY <1>1, <1>4 DEF Begin
  <2>2. \A i \in ToSet(chain) : \E k \in DOMAIN chain : k >= 1 /\ chain[k] = i
    BY <1>1 DEF ToSet
  <2>3. MessageExact(h)'
    BY <1>2, <2>1, <2>2 DEF MessageExact
  <2> QED  BY <1>3, <2>3 DEF MessagesExact
<1>5. CASE Exhausted(h)
  <2>1. /\ pass[h].at = "asking" /\ pass[h].pos > Len(chain) /\ pass[h].pos \in Nat
        /\ pass'[h].at = "done" /\ pass'[h].asked = pass[h].asked
        /\ pass'[h].due = pass[h].due
    BY <1>1, <1>5, PassShape DEF Exhausted, Done
  <2>2. \A k \in DOMAIN chain : ~(k >= pass[h].pos)
    BY <1>1, <2>1
  <2>3. manager = "server" => pass[h].due \subseteq ToSet(pass[h].asked)
    BY <2>1, <2>2 DEF MessagesExact, MessageExact
  <2>4. MessageExact(h)'
    BY <1>2, <2>1, <2>3 DEF MessageExact
  <2> QED  BY <1>3, <2>4 DEF MessagesExact
<1>6. ASSUME NEW answer \in {"data", "none", "raise"}, Ask(h, answer)
      PROVE  MessagesExact'
  <2>1. /\ pass[h] \in [at : {"asking"}, pos : Nat \ {0}, asked : Seq(Instances),
                        due : SUBSET Instances]
        /\ pass[h].at = "asking" /\ pass[h].pos \in Nat \ {0}
        /\ pass[h].pos <= Len(chain) /\ pass[h].asked \in Seq(Instances)
    BY <1>6, PassShape DEF Ask
  <2>2. PICK i \in Instances, p \in DOMAIN chain : p = pass[h].pos /\ i = chain[p]
    <3>1. pass[h].pos \in DOMAIN chain
      BY <1>1, <2>1
    <3>2. 1..Len(made) \subseteq Instances
      BY PluginsAssumption DEF PluginsTyped, TypeOK, Instances
    <3> QED  BY <1>1, <3>1, <3>2
  <2>3. PICK shown \in Seq(Instances) :
          shown = Append(pass[h].asked, i) /\ ToSet(shown) = ToSet(pass[h].asked) \cup {i}
    <3>1. PICK before \in Seq(Instances) : before = pass[h].asked
      BY <2>1
    <3>2. /\ Append(before, i) \in Seq(Instances)
          /\ ToSet(Append(before, i)) = ToSet(before) \cup {i}
      BY AppendElements, AppendProperties
    <3> QED  BY <3>1, <3>2
  <2>4. CASE Done(h, "blocked", shown)
    <3>1. pass'[h].at = "done" /\ pass'[h].verdict = "blocked"
      BY <1>1, <2>4 DEF Done
    <3>2. MessageExact(h)'
      BY <3>1 DEF MessageExact
    <3> QED  BY <1>3, <3>2 DEF MessagesExact
  <2>5. CASE pass' = [pass EXCEPT ![h].pos = @ + 1, ![h].asked = shown]
    <3>1. /\ pass'[h].at = "asking" /\ pass'[h].pos = p + 1 /\ pass'[h].asked = shown
          /\ pass'[h].due = pass[h].due
      BY <1>1, <2>1, <2>2, <2>5
    <3>2. ASSUME manager = "server", NEW d \in pass[h].due, d \notin ToSet(shown)
          PROVE  \E k \in DOMAIN chain : k >= p + 1 /\ chain[k] = d
      <4>1. d # i /\ d \notin ToSet(pass[h].asked)
        BY <2>3, <3>2
      <4>2. PICK k \in DOMAIN chain : k >= p /\ chain[k] = d
        BY <2>1, <2>2, <3>2, <4>1 DEF MessagesExact, MessageExact
      <4>3. k # p
        BY <2>2, <4>1, <4>2
      <4>4. k >= p + 1
        BY <1>1, <4>2, <4>3
      <4> QED  BY <4>2, <4>4
    <3>3. MessageExact(h)'
      BY <1>2, <3>1, <3>2 DEF MessageExact
    <3> QED  BY <1>3, <3>3 DEF MessagesExact
  <2>6. \/ Done(h, "blocked", shown)
        \/ pass' = [pass EXCEPT ![h].pos = @ + 1, ![h].asked = shown]
    BY <1>6, <2>2, <2>3 DEF Ask
  <2> QED  BY <2>4, <2>5, <2>6
<1> QED  BY <1>4, <1>5, <1>6

\* Whatever else happens, no filter is passed over.
LEMMA MessagesStep == PluginsTyped /\ MessagesExact /\ [Next]_vars => MessagesExact'
<1> SUFFICES ASSUME PluginsTyped, MessagesExact, [Next]_vars PROVE MessagesExact'
  OBVIOUS
<1>1. ASSUME NEW h \in Handlers,
             \/ Begin(h) \/ Exhausted(h)
             \/ \E answer \in {"data", "none", "raise"} : Ask(h, answer)
      PROVE  MessagesExact'
  BY <1>1, MessageStep
<1>2. ASSUME UNCHANGED <<Mode, chain, pass>> PROVE MessagesExact'
  BY <1>2 DEF Mode, MessagesExact, MessageExact
<1>3. ASSUME NEW a \in Admins,
             \/ \E files : Load(a, files)
             \/ \E runs : NextFile(a, runs)
             \/ LoadEnds(a) \/ FileEnds(a) \/ ReloadUnloads(a)
             \/ \E n \in Names : Reload(a, n) \/ Unload(a, n)
             \/ Instantiate(a) \/ OnLoadReturns(a) \/ OnLoadRaises(a)
             \/ Subscribe(a) \/ FindPlace(a)
      PROVE  MessagesExact'
  BY <1>2, <1>3 DEF Load, NextFile, LoadEnds, FileEnds, ReloadUnloads, Reload, Unload,
                    Instantiate, OnLoadReturns, OnLoadRaises, Subscribe, FindPlace
<1>4. ASSUME NEW f \in Files, Sign(f) \/ Edit(f) PROVE MessagesExact'
  BY <1>2, <1>4 DEF Sign, Edit
<1>5. ASSUME NEW a \in Admins, AppendFilter(a) \/ SortBegins(a) \/ SortEnds(a)
      PROVE  MessagesExact'
  <2>1. manager' # "server"
    BY <1>5 DEF PluginsTyped, JobFits, AppendFilter, SortBegins, SortEnds, Mode
  <2> QED  BY <2>1 DEF MessagesExact, MessageExact
<1>6. ASSUME NEW a \in Admins, InsertFilter(a) PROVE MessagesExact'
  <2>1. /\ job[a] \in Jobs /\ JobFits(job[a]) /\ job[a].at = "insert"
        /\ chain \in Seq(1..Len(made)) /\ Len(chain) \in Nat
        /\ DOMAIN chain = 1..Len(chain)
    BY <1>6 DEF PluginsTyped, TypeOK, InsertFilter
  <2>2. PICK i \in 1..Len(made), p \in 1..(Len(chain) + 1) :
          i = job[a].inst /\ p = job[a].place
    <3>1. job[a].length \in Nat
      BY <2>1, JobShape
    <3> QED  BY <2>1, <3>1 DEF JobFits, Loading
  <2>3. /\ DOMAIN chain' = 1..(Len(chain) + 1)
        /\ \A k \in 1..(Len(chain) + 1) :
             chain'[k] = IF k < p THEN chain[k] ELSE IF k = p THEN i ELSE chain[k - 1]
    <3>1. PICK T : T = 1..Len(made)
      OBVIOUS
    <3>2. PICK s \in Seq(T) : s = chain
      BY <2>1, <3>1
    <3>3. PICK r : r = InsertAt(s, p, i)
      OBVIOUS
    <3>4. /\ r \in Seq(T) /\ Len(r) = Len(chain) + 1
          /\ \A k \in 1..(Len(chain) + 1) :
               r[k] = IF k < p THEN chain[k] ELSE IF k = p THEN i ELSE chain[k - 1]
      <4>1. i \in T /\ p \in 1..(Len(s) + 1)
        BY <3>1, <3>2
      <4>2. /\ InsertAt(s, p, i) \in Seq(T) /\ Len(InsertAt(s, p, i)) = Len(s) + 1
            /\ \A k \in 1..(Len(s) + 1) :
                 InsertAt(s, p, i)[k] = IF k < p THEN s[k] ELSE IF k = p THEN i ELSE s[k - 1]
        BY <4>1, InsertExact
      <4> QED  BY <3>2, <3>3, <4>2
    <3>5. chain' = r /\ DOMAIN r = 1..Len(r)
      BY <1>6, <2>2, <3>2, <3>3, <3>4 DEF InsertFilter
    <3> QED  BY <3>4, <3>5
  <2>4. ASSUME NEW k \in DOMAIN chain
        PROVE  \E m \in DOMAIN chain' : m >= k /\ chain'[m] = chain[k]
    <3>1. CASE k < p
      <4>1. k \in 1..(Len(chain) + 1) /\ k >= k
        BY <2>1
      <4> QED  BY <2>3, <3>1, <4>1
    <3>2. CASE ~(k < p)
      <4>1. PICK m \in 1..(Len(chain) + 1) :
              m >= k /\ ~(m < p) /\ m # p /\ m - 1 = k
        <5>1. /\ k + 1 \in 1..(Len(chain) + 1) /\ k + 1 >= k
              /\ ~(k + 1 < p) /\ k + 1 # p /\ (k + 1) - 1 = k
          BY <2>1, <3>2
        <5> QED  BY <5>1
      <4>2. chain'[m] = chain[m - 1]
        BY <2>3, <4>1
      <4> QED  BY <2>3, <4>1, <4>2
    <3> QED  BY <3>1, <3>2
  <2>5. ASSUME NEW h \in Handlers PROVE MessageExact(h)'
    <3>1. pass' = pass /\ manager' = manager
      BY <1>6 DEF InsertFilter, Mode
    <3>2. ASSUME manager = "server", pass[h].at = "asking", NEW d \in pass[h].due,
                 d \notin ToSet(pass[h].asked)
          PROVE  \E m \in DOMAIN chain' : m >= pass[h].pos /\ chain'[m] = d
      <4>1. PICK k \in DOMAIN chain : k >= pass[h].pos /\ chain[k] = d
        BY <3>2 DEF MessagesExact, MessageExact
      <4>2. PICK m \in DOMAIN chain' : m >= k /\ chain'[m] = chain[k]
        BY <2>4
      <4>3. pass[h].pos \in Nat
        BY <3>2, PassShape
      <4>4. m \in Int /\ k \in Int
        BY <2>1, <2>3
      <4>5. m >= pass[h].pos
        BY <4>1, <4>2, <4>3, <4>4
      <4> QED  BY <4>1, <4>2, <4>5
    <3> QED  BY <3>1, <3>2 DEF MessagesExact, MessageExact
  <2> QED  BY <2>5 DEF MessagesExact
<1>7. CASE UNCHANGED vars
  BY <1>2, <1>7 DEF vars, Mode
<1> QED  BY <1>1, <1>3, <1>4, <1>5, <1>6, <1>7 DEF Next

\* A message that the server's filters let through has been shown to all that were
\* registered when its way began, however many plug-ins are loaded, unloaded and
\* reloaded meanwhile and by however many admins (plugin_manager.py:54).
THEOREM NoFilterIsPassedOver == Spec => []EveryFilterAsked
<1>1. MessagesExact => EveryFilterAsked
  BY DEF MessagesExact, MessageExact, EveryFilterAsked
<1> QED  BY <1>1, TypedInit, TypedStep, MessagesInit, MessagesStep, PTL DEF Spec

(***************************************************************************)
(* A manager with a secret.                                                *)
(***************************************************************************)

\* The elements of a set of positions, numbered from the smallest on.
LEMMA PositionsNumbered ==
  ASSUME NEW m \in Nat, NEW K \in SUBSET (1..m)
  PROVE  /\ IsFiniteSet(K) /\ Cardinality(K) \in Nat
         /\ \A n \in 1..Cardinality(K) :
              \E k \in K : Cardinality({l \in K : l <= k}) = n
<1> DEFINE upto(k) == {l \in K : l <= k}
           N == 1..Cardinality(K)
           number == [k \in K |-> Cardinality(upto(k))]
<1>1. IsFiniteSet(K) /\ Cardinality(K) \in Nat
  <2>1. IsFiniteSet(1..m) /\ K \subseteq 1..m
    BY FS_Interval
  <2> QED  BY <2>1, FS_Subset, FS_CardinalityType
<1>2. IsFiniteSet(N) /\ Cardinality(N) = Cardinality(K)
  BY <1>1, FS_Interval
<1>3. ASSUME NEW k \in K PROVE IsFiniteSet(upto(k)) /\ Cardinality(upto(k)) \in N
  <2>1. upto(k) \subseteq K /\ k \in upto(k)
    OBVIOUS
  <2> HIDE DEF upto
  <2>2. IsFiniteSet(upto(k)) /\ Cardinality(upto(k)) <= Cardinality(K)
    BY <1>1, <2>1, FS_Subset
  <2>3. Cardinality(upto(k)) \in Nat /\ Cardinality(upto(k)) # 0
    BY <2>1, <2>2, FS_CardinalityType, FS_EmptySet
  <2> QED  BY <1>1, <2>2, <2>3
<1>4. ASSUME NEW k \in K, NEW l \in K, k < l
      PROVE  Cardinality(upto(k)) < Cardinality(upto(l))
  <2>0. k \in Int /\ l \in Int /\ \A i \in K : i \in Int
    OBVIOUS
  <2>1. upto(k) \subseteq upto(l) /\ l \in upto(l) /\ l \notin upto(k)
    <3>1. ASSUME NEW i \in K, i <= k PROVE i <= l
      BY <1>4, <2>0, <3>1
    <3>2. l <= l /\ ~(l <= k)
      BY <1>4, <2>0
    <3> QED  BY <3>1, <3>2
  <2>2. IsFiniteSet(upto(k)) /\ IsFiniteSet(upto(l))
    BY <1>3
  <2> HIDE DEF upto
  <2> QED  BY <2>1, <2>2, FS_Subset, FS_CardinalityType
<1>5. number \in [K -> N]
  BY <1>3
<1>6. ASSUME NEW k \in K, NEW l \in K, number[k] = number[l] PROVE k = l
  <2>1. Cardinality(upto(k)) = Cardinality(upto(l)) /\ Cardinality(upto(k)) \in N
    BY <1>3, <1>6
  <2>2. k \in Int /\ l \in Int
    OBVIOUS
  <2>3. ~(k < l) /\ ~(l < k)
    <3> HIDE DEF upto
    <3> QED  BY <1>1, <1>4, <2>1
  <2> QED  BY <2>2, <2>3
<1>7. number \in Injection(K, N)
  <2> HIDE DEF number, N
  <2> QED  BY <1>5, <1>6 DEF Injection, IsInjective
<1>8. number \in Surjection(K, N)
  <2> HIDE DEF number, N
  <2> QED  BY <1>1, <1>2, <1>7, FS_Injection
<1>9. \A n \in N : \E k \in K : number[k] = n
  <2> HIDE DEF number, N
  <2> QED  BY <1>8 DEF Surjection
<1> QED  BY <1>1, <1>9

\* What is left of a file is as long as there are lines to keep, and every line of
\* it is one of those.
LEMMA CleanExact ==
  ASSUME NEW T, NEW s \in Seq(T)
  PROVE  /\ IsFiniteSet(Kept(s)) /\ Cardinality(Kept(s)) \in Nat
         /\ Clean(s) \in Seq(T)
         /\ Len(Clean(s)) = Cardinality(Kept(s))
         /\ \A n \in 1..Len(Clean(s)) : Clean(s)[n].kind \notin {"blank", "sig"}
<1> DEFINE K == Kept(s)
           N == Cardinality(K)
           of(n) == CHOOSE k \in K : Cardinality({l \in K : l <= k}) = n
<1>1. K \in SUBSET (1..Len(s)) /\ Len(s) \in Nat
  BY DEF Kept
<1>2. /\ IsFiniteSet(K) /\ N \in Nat
      /\ \A n \in 1..N : \E k \in K : Cardinality({l \in K : l <= k}) = n
  <2> HIDE DEF K
  <2> QED  BY <1>1, PositionsNumbered
<1>3. ASSUME NEW n \in 1..N PROVE of(n) \in K
  <2> HIDE DEF K
  <2> QED  BY <1>2
<1>4. Clean(s) = [n \in 1..N |-> s[of(n)]]
  BY DEF Clean
<1>5. \A k \in K : s[k] \in T /\ s[k].kind \notin {"blank", "sig"}
  BY DEF Kept
<1>6. \A n \in 1..N : Clean(s)[n] \in T /\ Clean(s)[n].kind \notin {"blank", "sig"}
  <2> HIDE DEF K, N, of
  <2> QED  BY <1>3, <1>4, <1>5
<1>7. Clean(s) \in [1..N -> T]
  <2> HIDE DEF K, N, of
  <2> QED  BY <1>4, <1>6
<1>8. Clean(s) \in Seq(T) /\ Len(Clean(s)) = N
  <2> HIDE DEF K, N, of
  <2> QED  BY <1>2, <1>7
<1>9. \A n \in 1..Len(Clean(s)) : Clean(s)[n].kind \notin {"blank", "sig"}
  <2> HIDE DEF K, N, of
  <2> QED  BY <1>6, <1>8
<1>10. IsFiniteSet(Kept(s)) /\ Cardinality(Kept(s)) \in Nat /\ Len(Clean(s)) = Cardinality(Kept(s))
  BY <1>2, <1>8
<1> HIDE DEF K, N, of
<1> QED  BY <1>8, <1>9, <1>10

(***************************************************************************)
(* Signed files.                                                           *)
(***************************************************************************)

\* Every signature in a file was computed from fewer lines than it is compared with.
Stale(lines) ==
    /\ \E T : lines \in Seq(T)
    /\ \A k \in DOMAIN lines :
         lines[k].kind = "sig" =>
           /\ \E T : lines[k].of \in Seq(T)
           /\ Len(lines[k].of) < Cardinality(Kept(lines))

\* No signature in such a file is the right one.
LEMMA StaleIsRefused ==
  ASSUME NEW lines, Stale(lines) PROVE ~Verified(lines)
<1>1. PICK T : lines \in Seq(T)
  BY DEF Stale
<1>2. Len(Clean(lines)) = Cardinality(Kept(lines)) /\ Cardinality(Kept(lines)) \in Nat
  BY <1>1, CleanExact
<1>3. ASSUME NEW k \in DOMAIN lines, lines[k].kind = "sig", lines[k].of = Clean(lines)
      PROVE  FALSE
  BY <1>2, <1>3 DEF Stale
<1> QED  BY <1>3 DEF Verified

\* The note above a new signature makes the file one line longer than what was signed.
LEMMA SignedIsStale ==
  ASSUME NEW lines, Stale(lines) PROVE Stale(SignedFile(lines))
<1>1. PICK T : lines \in Seq(T)
  BY DEF Stale
<1>2. PICK c : c = Clean(lines)
  OBVIOUS
<1>3. c \in Seq(T) /\ \A n \in 1..Len(c) : c[n].kind \notin {"blank", "sig"}
  BY <1>1, <1>2, CleanExact
<1>4. PICK m \in Nat : m = Len(c)
  BY <1>3
<1>5. PICK sig : sig = [kind |-> "sig", of |-> c]
  OBVIOUS
<1>6. PICK r : r = c \o <<Blank, Note, sig>>
  OBVIOUS
<1>7. PICK S : S = T \cup {Blank, Note, sig}
  OBVIOUS
<1>8. c \in Seq(S) /\ <<Blank, Note, sig>> \in Seq(S)
  BY <1>3, <1>7
<1>9. r \in Seq(S) /\ Len(r) = m + 3 /\ DOMAIN r = 1..(m + 3)
  BY <1>4, <1>6, <1>8
<1>10. /\ \A n \in 1..m : r[n] = c[n]
       /\ r[m + 1] = Blank /\ r[m + 2] = Note /\ r[m + 3] = sig
  BY <1>4, <1>6, <1>8
<1>11. Blank.kind = "blank" /\ Note.kind = "note" /\ sig.kind = "sig" /\ sig.of = c
  BY <1>5 DEF Blank, Note, Line
<1>12. Kept(r) = (1..m) \cup {m + 2}
  <2>1. \A n \in 1..m : n \in Kept(r)
    BY <1>3, <1>4, <1>9, <1>10 DEF Kept
  <2>2. m + 2 \in Kept(r) /\ m + 1 \notin Kept(r) /\ m + 3 \notin Kept(r)
    BY <1>9, <1>10, <1>11 DEF Kept
  <2>3. ASSUME NEW n \in Kept(r) PROVE n \in (1..m) \cup {m + 2}
    <3>1. n \in 1..(m + 3)
      BY <1>9 DEF Kept
    <3> QED  BY <2>2, <3>1
  <2> QED  BY <2>1, <2>2, <2>3
<1>13. Cardinality(Kept(r)) = m + 1
  <2>1. IsFiniteSet(1..m) /\ Cardinality(1..m) = m /\ m + 2 \notin 1..m
    BY FS_Interval
  <2> QED  BY <1>12, <2>1, FS_AddElement
<1>14. ASSUME NEW k \in DOMAIN r, r[k].kind = "sig" PROVE r[k] = sig
  <2>1. k \in 1..(m + 3)
    BY <1>9
  <2>2. CASE k \in 1..m
    BY <1>3, <1>4, <1>10, <1>14, <2>2
  <2>3. CASE k \in {m + 1, m + 2, m + 3}
    BY <1>10, <1>11, <1>14, <2>3
  <2> QED  BY <2>1, <2>2, <2>3
<1>15. Stale(r)
  <2>1. \E U : r \in Seq(U)
    BY <1>9
  <2>2. \E U : c \in Seq(U)
    BY <1>3
  <2>3. m < m + 1
    OBVIOUS
  <2> QED  BY <1>4, <1>11, <1>13, <1>14, <2>1, <2>2, <2>3 DEF Stale
<1> QED  BY <1>2, <1>5, <1>6, <1>15 DEF SignedFile

\* Another line of code does not make a signature right.
LEMMA EditedIsStale ==
  ASSUME NEW lines, Stale(lines) PROVE Stale(<<Code>> \o lines)
<1>1. PICK T : lines \in Seq(T)
  BY DEF Stale
<1>2. PICK m \in Nat : m = Len(lines)
  BY <1>1
<1>3. PICK r : r = <<Code>> \o lines
  OBVIOUS
<1>4. PICK S : S = T \cup {Code}
  OBVIOUS
<1>5. lines \in Seq(S) /\ <<Code>> \in Seq(S)
  BY <1>1, <1>4
<1>6. /\ r \in Seq(S) /\ Len(r) = m + 1 /\ DOMAIN r = 1..(m + 1)
      /\ r[1] = Code /\ \A n \in 1..m : r[n + 1] = lines[n]
  BY <1>2, <1>3, <1>5
<1>7. PICK K : K = Kept(lines)
  OBVIOUS
<1>8. K \subseteq 1..m /\ IsFiniteSet(K) /\ Cardinality(K) \in Nat
  <2>1. DOMAIN lines = 1..m
    BY <1>1, <1>2
  <2> QED  BY <1>1, <1>7, <2>1, CleanExact DEF Kept
<1>9. IsFiniteSet(Kept(r)) /\ Cardinality(Kept(r)) \in Nat
  BY <1>6, CleanExact
<1>10. Cardinality(K) <= Cardinality(Kept(r))
  <2> DEFINE moved == [k \in K |-> k + 1]
  <2>1. ASSUME NEW k \in K PROVE k + 1 \in Kept(r)
    <3>1. k \in 1..m /\ k + 1 \in 1..(m + 1) /\ lines[k].kind \notin {"blank", "sig"}
      BY <1>7, <1>8 DEF Kept
    <3>2. r[k + 1] = lines[k]
      BY <1>6, <3>1
    <3> QED  BY <1>6, <3>1, <3>2 DEF Kept
  <2>2. moved \in Injection(K, Kept(r))
    <3>1. moved \in [K -> Kept(r)]
      BY <2>1
    <3>2. \A k, l \in K : moved[k] = moved[l] => k = l
      BY <1>8
    <3> HIDE DEF moved
    <3> QED  BY <3>1, <3>2 DEF Injection, IsInjective
  <2> HIDE DEF moved
  <2> QED  BY <1>8, <1>9, <2>2, FS_Injection
<1>11. ASSUME NEW k \in DOMAIN r, r[k].kind = "sig"
       PROVE  (\E U : r[k].of \in Seq(U)) /\ Len(r[k].of) < Cardinality(Kept(r))
  <2>1. Code.kind = "code"
    BY DEF Code, Line
  <2>2. k \in 1..(m + 1) /\ k # 1
    BY <1>6, <1>11, <2>1
  <2>3. PICK l \in 1..m : k = l + 1
    <3>1. k - 1 \in 1..m /\ k = (k - 1) + 1
      BY <2>2
    <3> QED  BY <3>1
  <2>4. r[k] = lines[l] /\ l \in DOMAIN lines
    BY <1>1, <1>2, <1>6, <2>3
  <2>5. PICK U : lines[l].of \in Seq(U)
    BY <1>11, <2>4 DEF Stale
  <2>6. Len(lines[l].of) < Cardinality(K) /\ Len(lines[l].of) \in Nat
    BY <1>7, <1>11, <2>4, <2>5 DEF Stale
  <2> QED  BY <1>8, <1>9, <1>10, <2>4, <2>5, <2>6
<1> QED  BY <1>3, <1>6, <1>11 DEF Stale

\* The inductive invariant: files are unsigned or stale, and no class of theirs waits
\* to be instantiated.
SecretExact ==
    secret =>
      /\ made = <<>>
      /\ content = [f \in Files |-> content[f]]
      /\ \A f \in Files : Stale(content[f])
      /\ \A a \in Admins : job[a].at = "class" => job[a].classes = <<>>

\* The files have no signatures.
LEMMA SecretInit == Init => SecretExact
<1> SUFFICES ASSUME Init PROVE SecretExact
  OBVIOUS
<1>1. PICK s : s = <<Code, Blank, Code>>
  OBVIOUS
<1>2. s \in Seq({Code, Blank}) /\ DOMAIN s = 1..3 /\ \A k \in 1..3 : s[k] \in {Code, Blank}
  BY <1>1
<1>3. \A k \in DOMAIN s : s[k].kind # "sig"
  BY <1>2 DEF Code, Blank, Line
<1>4. Stale(s)
  BY <1>2, <1>3 DEF Stale
<1>5. made = <<>> /\ content = [f \in Files |-> s] /\ \A a \in Admins : job[a].at = "idle"
  BY <1>1 DEF Init, Idle
<1>6. content = [f \in Files |-> content[f]] /\ \A f \in Files : content[f] = s
  BY <1>5
<1> QED  BY <1>4, <1>5, <1>6 DEF SecretExact

\* A call that moves on and makes nothing.
LEMMA SecretMove ==
  ASSUME PluginsTyped, SecretExact, UNCHANGED <<secret, made, content>>,
         NEW a \in Admins, NEW j, job' = [job EXCEPT ![a] = j],
         secret => (j.at = "class" => j.classes = <<>>)
  PROVE  SecretExact'
<1> SUFFICES ASSUME secret PROVE SecretExact'
  BY DEF SecretExact
<1>1. \A b \in Admins : job'[b] = IF b = a THEN j ELSE job[b]
  BY DEF PluginsTyped, TypeOK
<1>2. ASSUME NEW b \in Admins, job'[b].at = "class" PROVE job'[b].classes = <<>>
  BY <1>1, <1>2 DEF SecretExact
<1> QED  BY <1>2 DEF SecretExact

\* Every step keeps plug-ins out.
LEMMA SecretStep == PluginsTyped /\ SecretExact /\ [Next]_vars => SecretExact'
<1> SUFFICES ASSUME PluginsTyped, SecretExact, [Next]_vars PROVE SecretExact'
  OBVIOUS
<1>1. ASSUME UNCHANGED <<secret, made, content, job>> PROVE SecretExact'
  BY <1>1 DEF SecretExact
<1>2. secret' = secret
  BY DEF Next, Sign, Edit, Load, NextFile, LoadEnds, FileEnds, Instantiate, Subscribe,
         FindPlace, InsertFilter, AppendFilter, SortBegins, SortEnds, OnLoadReturns,
         OnLoadRaises, Unload, Reload, ReloadUnloads, Begin, Exhausted, Ask, vars, Mode
<1>3. CASE ~secret
  BY <1>2, <1>3 DEF SecretExact
<1>4. ASSUME secret, NEW a \in Admins, job[a].at \in Loading PROVE FALSE
  <2>1. made = <<>> /\ job[a].inst \in 1..Len(made)
    BY <1>4 DEF SecretExact, PluginsTyped, JobFits
  <2> QED  BY <2>1
<1>5. ASSUME secret, NEW f \in Files, NEW lines, Stale(lines),
             content' = [content EXCEPT ![f] = lines], UNCHANGED <<made, job>>
      PROVE  SecretExact'
  <2>1. \A g \in Files : content'[g] = IF g = f THEN lines ELSE content[g]
    BY <1>5 DEF SecretExact
  <2>2. content' = [g \in Files |-> content'[g]]
    BY <1>5 DEF SecretExact
  <2>3. \A g \in Files : Stale(content'[g])
    BY <1>5, <2>1 DEF SecretExact
  <2> QED  BY <1>2, <1>5, <2>2, <2>3 DEF SecretExact
<1>6. ASSUME secret, NEW f \in Files, Sign(f) PROVE SecretExact'
  <2>1. Stale(SignedFile(content[f]))
    BY <1>6, SignedIsStale DEF SecretExact
  <2>2. content' = [content EXCEPT ![f] = SignedFile(content[f])] /\ UNCHANGED <<made, job>>
    BY <1>6 DEF Sign
  <2> QED  BY <1>5, <1>6, <2>1, <2>2
<1>7. ASSUME secret, NEW f \in Files, Edit(f) PROVE SecretExact'
  <2>1. Stale(<<Code>> \o content[f])
    BY <1>7, EditedIsStale DEF SecretExact
  <2>2. content' = [content EXCEPT ![f] = <<Code>> \o content[f]] /\ UNCHANGED <<made, job>>
    BY <1>7 DEF Edit
  <2> QED  BY <1>5, <1>7, <2>1, <2>2
<1>8. ASSUME secret, NEW a \in Admins, NEW files, Load(a, files) PROVE SecretExact'
  BY <1>8, SecretMove DEF Load, Mode
<1>9. ASSUME secret, NEW a \in Admins, NEW runs \in BOOLEAN, NextFile(a, runs)
      PROVE  SecretExact'
  <2>1. job[a] \in Jobs /\ job[a].at = "file" /\ job[a].files # <<>>
    BY <1>9 DEF PluginsTyped, TypeOK, NextFile
  <2>2. PICK f \in Files : f = Head(job[a].files)
    BY <2>1, JobShape
  <2>3. ~MayLoad(f)
    BY <1>9, StaleIsRefused DEF SecretExact, MayLoad
  <2>4. job' = [job EXCEPT ![a] = [at |-> "class", files |-> Tail(job[a].files), file |-> f,
                                   classes |-> <<>>]]
    BY <1>9, <2>2, <2>3 DEF NextFile
  <2>5. UNCHANGED <<secret, made, content>>
    BY <1>9 DEF NextFile, Mode
  <2> QED  BY <2>4, <2>5, SecretMove
<1>10. ASSUME secret, NEW a \in Admins, LoadEnds(a) \/ FileEnds(a) \/ ReloadUnloads(a)
       PROVE  SecretExact'
  BY <1>10, SecretMove DEF LoadEnds, FileEnds, ReloadUnloads, Idle, Mode
<1>11. ASSUME secret, NEW a \in Admins, NEW n \in Names, Unload(a, n) \/ Reload(a, n)
       PROVE  SecretExact'
  BY <1>1, <1>11, SecretMove DEF Unload, Reload, Mode
<1>12. ASSUME secret, NEW a \in Admins, Instantiate(a) PROVE FALSE
  BY <1>12 DEF SecretExact, Instantiate
<1>13. ASSUME secret, NEW a \in Admins,
              \/ Subscribe(a) \/ FindPlace(a) \/ InsertFilter(a) \/ AppendFilter(a)
              \/ SortBegins(a) \/ SortEnds(a) \/ OnLoadReturns(a) \/ OnLoadRaises(a)
       PROVE  FALSE
  <2>1. job[a].at \in Loading
    BY <1>13 DEF Subscribe, FindPlace, InsertFilter, AppendFilter, SortBegins, SortEnds,
                 OnLoadReturns, OnLoadRaises, Loading
  <2> QED  BY <1>4, <1>13, <2>1
<1>14. ASSUME NEW h \in Handlers,
              \/ Begin(h) \/ Exhausted(h)
              \/ \E answer \in {"data", "none", "raise"} : Ask(h, answer)
       PROVE  SecretExact'
  BY <1>1, <1>14 DEF Begin, Exhausted, Ask, Mode
<1>15. CASE UNCHANGED vars
  BY <1>1, <1>15 DEF vars, Mode
<1> QED  BY <1>3, <1>6, <1>7, <1>8, <1>9, <1>10, <1>11, <1>12, <1>13, <1>14, <1>15 DEF Next

\* With a secret no plug-in is ever loaded, however its file is signed and edited:
\* sign_plugin_file adds its note after it has computed the signature, and
\* verify_plugin_signature computes it with the note (plugin_signer.py:107).
THEOREM SecretLoadsNothing == Spec => [](secret => made = <<>> /\ chain = <<>>)
<1>1. PluginsTyped /\ SecretExact => (secret => made = <<>> /\ chain = <<>>)
  <2> SUFFICES ASSUME PluginsTyped, SecretExact, secret PROVE made = <<>> /\ chain = <<>>
    OBVIOUS
  <2>1. made = <<>> /\ chain \in Seq(1..Len(made))
    BY DEF SecretExact, PluginsTyped, TypeOK
  <2>2. chain \in Seq({})
    BY <2>1
  <2> QED  BY <2>1, <2>2
<1> QED  BY <1>1, TypedInit, TypedStep, SecretInit, SecretStep, PTL DEF Spec
=============================================================================
