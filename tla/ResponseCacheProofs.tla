------------------------ MODULE ResponseCacheProofs ------------------------
(***************************************************************************)
(* Proofs about the response cache and the pipe in front of it: the cache  *)
(* for any finite set of keys, any hierarchical keys, any capacity and any *)
(* bound on access counts; the pipe for any number of clients, calls,      *)
(* instances and faults and any lengths of messages.                       *)
(***************************************************************************)
EXTENDS LlmCache, CachePipe, FiniteSetTheorems, SequenceTheorems, TLAPS

-----------------------------------------------------------------------------
(* The cache.                                                              *)

\* x comes before y in a sequence.
Before(s, x, y) == \E i, j \in DOMAIN s : i < j /\ s[i] = x /\ s[j] = y

\* Every queue lists the entries that were accessed so often, once each.
QueuesExact ==
    \A f \in Freqs :
        /\ IsInjective(freq_list[f])
        /\ ToSet(freq_list[f]) = {k \in Live : entries[k].access_count = f}

HkeysExact == \A h \in Hkeys : hkey_index[h] = {k \in Live : entries[k].hkey = h}

\* Every entry was accessed once last, and the queues are in that order.
AgesExact ==
    /\ IsInjective(recency)
    /\ ToSet(recency) = Live
    /\ \A f \in Freqs : \A x, y \in Keys : Before(freq_list[f], x, y) => Before(recency, x, y)

\* No queue in use is below min_freq, however stale it is.
FirstUsed == \A f \in Freqs : freq_list[f] # <<>> => min_freq <= f

CacheInvariant == TypeOK /\ IndexesExact /\ AgesExact /\ FirstUsed /\ StoreEnds
-----------------------------------------------------------------------------
(* Queues.                                                                 *)

\* The numbers of a finite set in their order.
LEMMA IncreasingExact ==
    ASSUME NEW K, K \subseteq Nat, IsFiniteSet(K)
    PROVE  /\ Cardinality(K) \in Nat
           /\ Increasing(K) \in [1..Cardinality(K) -> K]
           /\ \A m, n \in 1..Cardinality(K) : m < n => Increasing(K)[m] < Increasing(K)[n]
           /\ \A i \in K : \E n \in 1..Cardinality(K) : Increasing(K)[n] = i
<1> DEFINE N == Cardinality(K)
           upto(i) == {j \in K : j <= i}
           rank == [i \in K |-> Cardinality(upto(i))]
           ranked(n) == CHOOSE i \in K : rank[i] = n
           order == [n \in 1..N |-> ranked(n)]
<1>1. N \in Nat
  BY FS_CardinalityType
<1>2. ASSUME NEW i \in K
      PROVE  /\ IsFiniteSet(upto(i)) /\ rank[i] = Cardinality(upto(i)) /\ rank[i] \in 1..N
  <2>1. upto(i) \subseteq K /\ i \in upto(i)
    OBVIOUS
  <2>2. IsFiniteSet(upto(i)) /\ Cardinality(upto(i)) <= N
    BY <2>1, FS_Subset
  <2>3. Cardinality(upto(i)) \in Nat
    BY <2>2, FS_CardinalityType
  <2>4. Cardinality(upto(i)) # 0
    BY <2>1, <2>2, FS_EmptySet
  <2>5. rank[i] = Cardinality(upto(i))
    OBVIOUS
  <2> HIDE DEF upto, rank, N
  <2> QED  BY <1>1, <2>2, <2>3, <2>4, <2>5
<1>3. ASSUME NEW i \in K, NEW j \in K, i < j PROVE rank[i] < rank[j]
  <2>1. upto(i) \subseteq upto(j) /\ upto(i) # upto(j)
    <3>1. j \in upto(j) /\ j \notin upto(i) /\ i \in Nat /\ j \in Nat
      BY <1>3
    <3>2. upto(i) \subseteq upto(j)
      <4>1. \A x \in K : x \in Nat /\ (x <= i => x <= j)
        BY <1>3, <3>1
      <4> QED  BY <4>1
    <3> QED  BY <3>1, <3>2
  <2>2. IsFiniteSet(upto(i)) /\ IsFiniteSet(upto(j))
        /\ rank[i] = Cardinality(upto(i)) /\ rank[j] = Cardinality(upto(j))
        /\ rank[i] \in 1..N /\ rank[j] \in 1..N
    BY <1>2
  <2>3. Cardinality(upto(i)) <= Cardinality(upto(j))
        /\ Cardinality(upto(i)) # Cardinality(upto(j))
    BY <2>1, <2>2, FS_Subset
  <2> HIDE DEF upto, rank, N
  <2> QED  BY <1>1, <2>2, <2>3
<1>4. rank \in Injection(K, 1..N)
  <2>1. rank = [i \in K |-> rank[i]]
    OBVIOUS
  <2>2. ASSUME NEW i \in K, NEW j \in K, rank[i] = rank[j] PROVE i = j
    <3>1. i \in Nat /\ j \in Nat /\ rank[i] \in 1..N /\ rank[j] \in 1..N
      BY <1>2
    <3> HIDE DEF rank, N
    <3> QED  BY <1>1, <1>3, <2>2, <3>1
  <2>3. rank \in [K -> 1..N]
    <3> HIDE DEF rank, N
    <3> QED  BY <1>2, <2>1
  <2> HIDE DEF rank
  <2> QED  BY <2>2, <2>3 DEF Injection, IsInjective
<1>5. rank \in Surjection(K, 1..N)
  <2>1. IsFiniteSet(1..N) /\ Cardinality(1..N) = N
    BY <1>1, FS_Interval
  <2> HIDE DEF rank
  <2> QED  BY <1>4, <2>1, FS_Injection
<1>6. \A n \in 1..N : ranked(n) \in K /\ rank[ranked(n)] = n
  <2>1. \A n \in 1..N : \E i \in K : rank[i] = n
    <3> HIDE DEF rank
    <3> QED  BY <1>5 DEF Surjection
  <2> HIDE DEF rank, N
  <2> QED  BY <2>1
<1>7. order \in [1..N -> K] /\ \A n \in 1..N : order[n] = ranked(n)
  <2> HIDE DEF rank, ranked, N
  <2> QED  BY <1>6
<1>8. \A m, n \in 1..N : m < n => order[m] < order[n]
  <2> SUFFICES ASSUME NEW m \in 1..N, NEW n \in 1..N, m < n PROVE order[m] < order[n]
    OBVIOUS
  <2>1. order[m] \in K /\ order[n] \in K /\ rank[order[m]] = m /\ rank[order[n]] = n
    BY <1>6, <1>7
  <2>2. PICK i \in K, j \in K : i = order[m] /\ j = order[n] /\ rank[i] = m /\ rank[j] = n
    BY <2>1
  <2>3. i \in Nat /\ j \in Nat
    OBVIOUS
  <2>4. i # j /\ ~(j < i)
    <3> HIDE DEF rank, ranked, order, N
    <3> QED  BY <1>1, <1>3, <2>2
  <2> HIDE DEF rank, ranked, order, N
  <2> QED  BY <2>2, <2>3, <2>4
<1> HIDE DEF rank, ranked, order, upto
<1>9. \E o \in [1..N -> K] : \A m, n \in 1..N : m < n => o[m] < o[n]
  BY <1>7, <1>8
<1>10. /\ Increasing(K) \in [1..N -> K]
       /\ \A m, n \in 1..N : m < n => Increasing(K)[m] < Increasing(K)[n]
  BY <1>9 DEF Increasing
<1>11. PICK o \in [1..N -> K] : o = Increasing(K) /\ \A m, n \in 1..N : m < n => o[m] < o[n]
  BY <1>10
<1>12. ASSUME NEW m \in 1..N, NEW n \in 1..N, o[m] = o[n] PROVE m = n
  <2>1. o[m] \in K /\ o[n] \in K /\ m \in Nat /\ n \in Nat
    BY <1>1
  <2> HIDE DEF N
  <2>2. o[m] \in Nat /\ o[n] \in Nat
    BY <2>1
  <2> QED  BY <1>11, <1>12, <2>1, <2>2
<1>13. o \in Injection(1..N, K)
  BY <1>12 DEF Injection, IsInjective
<1>14. o \in Surjection(1..N, K)
  BY <1>1, <1>13, FS_Interval, FS_Injection
<1>15. \A i \in K : \E n \in 1..N : o[n] = i
  BY <1>14 DEF Surjection
<1> QED  BY <1>1, <1>10, <1>11, <1>15

\* What remains of a queue: the other keys, in the order they had.
LEMMA WithoutExact ==
    ASSUME NEW T, NEW s \in Seq(T), NEW S
    PROVE  /\ Without(s, S) \in Seq(T)
           /\ ToSet(Without(s, S)) = ToSet(s) \ S
           /\ IsInjective(s) => IsInjective(Without(s, S))
           /\ \A x, y \in T : Before(Without(s, S), x, y) => Before(s, x, y)
           /\ \A x, y \in T : Before(s, x, y) /\ x \notin S /\ y \notin S
                                => Before(Without(s, S), x, y)
<1> DEFINE K == {i \in DOMAIN s : s[i] \notin S}
           w == Without(s, S)
<1>0. Len(s) \in Nat /\ DOMAIN s = 1..Len(s)
  OBVIOUS
<1>1. K \subseteq Nat /\ IsFiniteSet(K)
  <2>1. IsFiniteSet(1..Len(s))
    BY <1>0, FS_Interval
  <2>2. K \subseteq 1..Len(s)
    BY <1>0
  <2> QED  BY <2>1, <2>2, FS_Subset
<1>2. PICK N \in Nat : N = Cardinality(K)
  BY <1>1, FS_CardinalityType
<1>3. PICK o \in [1..N -> K] :
        /\ o = Increasing(K)
        /\ \A m, n \in 1..N : m < n => o[m] < o[n]
        /\ \A i \in K : \E n \in 1..N : o[n] = i
  <2> HIDE DEF K
  <2>1. /\ Increasing(K) \in [1..N -> K]
        /\ \A m, n \in 1..N : m < n => Increasing(K)[m] < Increasing(K)[n]
        /\ \A i \in K : \E n \in 1..N : Increasing(K)[n] = i
    BY <1>1, <1>2, IncreasingExact
  <2> QED  BY <2>1
<1>4. w = [n \in 1..N |-> s[o[n]]]
  BY <1>3 DEF Without
<1>5. \A n \in 1..N : o[n] \in DOMAIN s /\ s[o[n]] \in T /\ s[o[n]] \notin S /\ o[n] \in Nat
  BY <1>0, <1>3
<1> HIDE DEF w
<1>6. w \in Seq(T) /\ DOMAIN w = 1..N /\ \A n \in 1..N : w[n] = s[o[n]]
  BY <1>4, <1>5
<1>7. ASSUME NEW i \in DOMAIN s, s[i] \notin S PROVE \E n \in 1..N : o[n] = i
  BY <1>3, <1>7
<1>8. ASSUME NEW m \in 1..N, NEW n \in 1..N, m # n PROVE o[m] # o[n]
  <2>1. m < n \/ n < m
    BY <1>8
  <2>2. o[m] \in Nat /\ o[n] \in Nat
    BY <1>5
  <2>3. o[m] < o[n] \/ o[n] < o[m]
    BY <1>3, <2>1
  <2> HIDE DEF K
  <2> QED  BY <2>2, <2>3
<1>9. ASSUME NEW m \in 1..N, NEW n \in 1..N, o[m] < o[n] PROVE m < n
  <2>1. o[m] \in Nat /\ o[n] \in Nat
    BY <1>5
  <2>2. m < n \/ m = n \/ n < m
    OBVIOUS
  <2>3. n < m => o[n] < o[m]
    BY <1>3
  <2> HIDE DEF K
  <2> QED  BY <1>9, <2>1, <2>2, <2>3
<1>10. ToSet(w) = ToSet(s) \ S
  <2>1. \A n \in DOMAIN w : w[n] \in ToSet(s) /\ w[n] \notin S
    BY <1>5, <1>6 DEF ToSet
  <2>2. \A i \in DOMAIN s : s[i] \notin S => \E n \in DOMAIN w : w[n] = s[i]
    BY <1>6, <1>7
  <2> HIDE DEF K
  <2> QED  BY <2>1, <2>2 DEF ToSet
<1>11. IsInjective(s) => IsInjective(w)
  BY <1>5, <1>6, <1>8 DEF IsInjective
<1>12. \A x, y \in T : Before(w, x, y) => Before(s, x, y)
  <2> SUFFICES ASSUME NEW x \in T, NEW y \in T, Before(w, x, y) PROVE Before(s, x, y)
    OBVIOUS
  <2>1. PICK i \in 1..N, j \in 1..N : i < j /\ w[i] = x /\ w[j] = y
    BY <1>6 DEF Before
  <2>2. o[i] < o[j] /\ o[i] \in DOMAIN s /\ o[j] \in DOMAIN s /\ s[o[i]] = x /\ s[o[j]] = y
    BY <1>3, <1>5, <1>6, <2>1
  <2> QED  BY <2>2 DEF Before
<1>13. ASSUME NEW x \in T, NEW y \in T, Before(s, x, y), x \notin S, y \notin S
       PROVE  Before(w, x, y)
  <2>1. PICK i \in DOMAIN s, j \in DOMAIN s : i < j /\ s[i] = x /\ s[j] = y
    BY <1>13 DEF Before
  <2>2. PICK m \in 1..N, n \in 1..N : o[m] = i /\ o[n] = j
    BY <1>7, <1>13, <2>1
  <2> QED  BY <1>6, <1>9, <2>1, <2>2 DEF Before
<1> QED  BY <1>6, <1>10, <1>11, <1>12, <1>13 DEF w

\* A key is put at the end of a queue.
LEMMA AppendExact ==
    ASSUME NEW T, NEW s \in Seq(T), NEW e \in T
    PROVE  /\ Append(s, e) \in Seq(T)
           /\ ToSet(Append(s, e)) = ToSet(s) \cup {e}
           /\ IsInjective(s) /\ e \notin ToSet(s) => IsInjective(Append(s, e))
           /\ \A x, y \in T : Before(Append(s, e), x, y) <=>
                                Before(s, x, y) \/ (x \in ToSet(s) /\ y = e)
<1>0. Len(s) \in Nat /\ DOMAIN s = 1..Len(s)
  OBVIOUS
<1> PICK t : t = Append(s, e)
  OBVIOUS
<1>1. t \in Seq(T) /\ t = Append(s, e)
  OBVIOUS
<1>2. DOMAIN t = 1..(Len(s) + 1) /\ (\A i \in DOMAIN s : i \in DOMAIN t /\ t[i] = s[i])
      /\ t[Len(s) + 1] = e /\ \A i \in DOMAIN t : i \in DOMAIN s \/ i = Len(s) + 1
  BY <1>0, <1>1
<1>3. Len(s) + 1 \in DOMAIN t /\ \A i \in DOMAIN s : i < Len(s) + 1
  BY <1>0, <1>2
<1>4. ToSet(t) = ToSet(s) \cup {e}
  BY <1>2, <1>3 DEF ToSet
<1>5. IsInjective(s) /\ e \notin ToSet(s) => IsInjective(t)
  BY <1>2 DEF IsInjective, ToSet
<1>6. ASSUME NEW x \in T, NEW y \in T
      PROVE  Before(t, x, y) <=> Before(s, x, y) \/ (x \in ToSet(s) /\ y = e)
  <2>1. ASSUME Before(t, x, y) PROVE Before(s, x, y) \/ (x \in ToSet(s) /\ y = e)
    <3>1. PICK i \in DOMAIN t, j \in DOMAIN t : i < j /\ t[i] = x /\ t[j] = y
      BY <2>1 DEF Before
    <3>2. i \in DOMAIN s
      BY <1>0, <1>2, <3>1
    <3> QED  BY <1>2, <3>1, <3>2 DEF Before, ToSet
  <2>2. ASSUME Before(s, x, y) PROVE Before(t, x, y)
    BY <1>2, <2>2 DEF Before
  <2>3. ASSUME x \in ToSet(s), y = e PROVE Before(t, x, y)
    BY <1>2, <1>3, <2>3 DEF Before, ToSet
  <2> QED  BY <2>1, <2>2, <2>3
<1> QED  BY <1>1, <1>4, <1>5, <1>6

\* The head of a queue is taken.
LEMMA TailExact ==
    ASSUME NEW T, NEW s \in Seq(T), s # <<>>, IsInjective(s)
    PROVE  /\ Tail(s) \in Seq(T) /\ Head(s) \in ToSet(s) /\ Head(s) \in T
           /\ ToSet(Tail(s)) = ToSet(s) \ {Head(s)}
           /\ IsInjective(Tail(s))
           /\ \A x, y \in T : Before(Tail(s), x, y) => Before(s, x, y)
           /\ \A x \in ToSet(s) : x # Head(s) => Before(s, Head(s), x)
<1>0. Len(s) \in Nat /\ DOMAIN s = 1..Len(s) /\ 1 \in DOMAIN s /\ Head(s) = s[1]
  OBVIOUS
<1> PICK t : t = Tail(s)
  OBVIOUS
<1>1. t \in Seq(T) /\ t = Tail(s)
  OBVIOUS
<1>2. /\ \A i \in DOMAIN t : i \in Nat /\ i >= 1 /\ i + 1 \in DOMAIN s /\ t[i] = s[i + 1]
      /\ \A i \in DOMAIN s : i # 1 => i > 1 /\ i - 1 \in DOMAIN t /\ t[i - 1] = s[i]
  BY <1>0, <1>1
<1>3. ToSet(t) \subseteq ToSet(s) \ {Head(s)}
  <2> SUFFICES ASSUME NEW i \in DOMAIN t PROVE t[i] \in ToSet(s) /\ t[i] # s[1]
    BY <1>0 DEF ToSet
  <2>1. i + 1 \in DOMAIN s /\ t[i] = s[i + 1] /\ i + 1 # 1
    BY <1>2
  <2> QED  BY <1>0, <2>1 DEF IsInjective, ToSet
<1>4. ToSet(s) \ {Head(s)} \subseteq ToSet(t)
  <2> SUFFICES ASSUME NEW i \in DOMAIN s, s[i] # Head(s) PROVE s[i] \in ToSet(t)
    BY DEF ToSet
  <2>1. i - 1 \in DOMAIN t /\ t[i - 1] = s[i]
    BY <1>0, <1>2
  <2> QED  BY <2>1 DEF ToSet
<1>5. IsInjective(t)
  BY <1>2 DEF IsInjective
<1>6. \A x, y \in T : Before(t, x, y) => Before(s, x, y)
  <2> SUFFICES ASSUME NEW x \in T, NEW y \in T, Before(t, x, y) PROVE Before(s, x, y)
    OBVIOUS
  <2>1. PICK i \in DOMAIN t, j \in DOMAIN t : i < j /\ t[i] = x /\ t[j] = y
    BY DEF Before
  <2>2. i + 1 \in DOMAIN s /\ j + 1 \in DOMAIN s /\ i + 1 < j + 1
        /\ s[i + 1] = x /\ s[j + 1] = y
    BY <1>2, <2>1
  <2> QED  BY <2>2 DEF Before
<1>7. \A x \in ToSet(s) : x # Head(s) => Before(s, Head(s), x)
  BY <1>0, <1>2 DEF Before, ToSet
<1>8. Head(s) \in ToSet(s) /\ Head(s) \in T
  BY <1>0 DEF ToSet
<1> QED  BY <1>1, <1>3, <1>4, <1>5, <1>6, <1>7, <1>8

\* Nothing is listed in an empty queue only.
LEMMA EmptyQueue ==
    ASSUME NEW T, NEW s \in Seq(T)
    PROVE  s = <<>> <=> ToSet(s) = {}
<1>1. s # <<>> => 1 \in DOMAIN s
  OBVIOUS
<1> QED  BY <1>1 DEF ToSet

\* The smallest of some access counts.
LEMMA MinExact ==
    ASSUME NEW F, F \subseteq Freqs, F # {}
    PROVE  Min(F) \in F /\ \A f \in F : Min(F) <= f
<1>1. MaxFreq \in Nat /\ F \subseteq Nat
  BY CacheAssumption DEF Freqs
<1>2. IsFiniteSet(F)
  <2>1. IsFiniteSet(1..MaxFreq)
    BY <1>1, FS_Interval
  <2> QED  BY <2>1, FS_Subset DEF Freqs
<1>3. Cardinality(F) \in Nat /\ Cardinality(F) # 0
  BY <1>2, FS_CardinalityType, FS_EmptySet
<1>4. PICK N \in Nat : N = Cardinality(F) /\ 1 \in 1..N
  BY <1>3
<1>5. PICK o \in [1..N -> F] :
        /\ \A m, n \in 1..N : m < n => o[m] < o[n]
        /\ \A i \in F : \E n \in 1..N : o[n] = i
  <2>1. /\ Increasing(F) \in [1..N -> F]
        /\ \A m, n \in 1..N : m < n => Increasing(F)[m] < Increasing(F)[n]
        /\ \A i \in F : \E n \in 1..N : Increasing(F)[n] = i
    BY <1>1, <1>2, <1>4, IncreasingExact
  <2> QED  BY <2>1
<1>6. ASSUME NEW f \in F PROVE o[1] <= f
  <2>1. PICK n \in 1..N : o[n] = f
    BY <1>5
  <2>2. n = 1 \/ 1 < n
    OBVIOUS
  <2>3. o[1] \in Nat /\ o[n] \in Nat
    BY <1>1, <1>4
  <2> QED  BY <1>4, <1>5, <2>1, <2>2, <2>3
<1>7. \E x \in F : \A y \in F : x <= y
  BY <1>4, <1>6
<1> QED  BY <1>7 DEF Min

\* ... and in the empty one nothing is.
LEMMA EmptyExact ==
    /\ IsInjective(<<>>) /\ ToSet(<<>>) = {}
    /\ \A x, y : ~Before(<<>>, x, y)
BY DEF IsInjective, ToSet, Before
-----------------------------------------------------------------------------
(* The two ways in which entries come and go.                              *)

Typed(en, hi, fl, re) ==
    /\ en \in [Keys -> Entries \cup {None}]
    /\ hi \in [Hkeys -> SUBSET Keys]
    /\ fl \in [Freqs -> Seq(Keys)]
    /\ re \in Seq(Keys)

\* The same queues without some of their keys.
Thinned(list, fl, S) ==
    /\ list \in [Freqs -> Seq(Keys)]
    /\ \A f \in Freqs :
         /\ IsInjective(list[f]) /\ ToSet(list[f]) = ToSet(fl[f]) \ S
         /\ \A x, y \in Keys : Before(list[f], x, y) => Before(fl[f], x, y)

\* What is in no entry is in no queue.
LEMMA LiveFacts ==
    ASSUME TypeOK
    PROVE  /\ Live \subseteq Keys /\ IsFiniteSet(Live) /\ Cardinality(Live) \in Nat
           /\ \A k \in Live : /\ entries[k] \in Entries /\ entries[k].access_count \in Freqs
                              /\ entries[k].hkey \in Hkeys \cup {None}
           /\ \A k \in Keys : k \notin Live => entries[k] = None
           /\ 1 \in Freqs
<1>1. Live \subseteq Keys
  BY DEF Live
<1>2. IsFiniteSet(Live) /\ Cardinality(Live) \in Nat
  BY <1>1, CacheAssumption, FS_Subset, FS_CardinalityType
<1>3. \A k \in Live : entries[k] \in Entries
  BY DEF Live
<1>4. \A e \in Entries : e.access_count \in Freqs /\ e.hkey \in Hkeys \cup {None}
  BY DEF Entries
<1>5. \A k \in Keys : k \notin Live => entries[k] = None
  BY DEF Live, TypeOK
<1>6. 1 \in Freqs
  BY CacheAssumption DEF Freqs
<1> QED  BY <1>1, <1>2, <1>3, <1>4, <1>5, <1>6

\* Every queue is searched for what is removed.
LEMMA RemoveThins ==
    ASSUME NEW fl \in [Freqs -> Seq(Keys)], NEW S, \A f \in Freqs : IsInjective(fl[f])
    PROVE  Thinned(RemoveFromFreq(fl, S), fl, S)
<1>1. \A f \in Freqs : RemoveFromFreq(fl, S)[f] = Without(fl[f], S)
  BY DEF RemoveFromFreq
<1>2. ASSUME NEW f \in Freqs
      PROVE  /\ Without(fl[f], S) \in Seq(Keys) /\ IsInjective(Without(fl[f], S))
             /\ ToSet(Without(fl[f], S)) = ToSet(fl[f]) \ S
             /\ \A x, y \in Keys : Before(Without(fl[f], S), x, y) => Before(fl[f], x, y)
  BY WithoutExact
<1>3. RemoveFromFreq(fl, S) \in [Freqs -> Seq(Keys)]
  BY <1>2 DEF RemoveFromFreq
<1> QED  BY <1>1, <1>2, <1>3 DEF Thinned

\* Entries are removed.
LEMMA RemovedExact ==
    ASSUME TypeOK, QueuesExact, HkeysExact, AgesExact, NEW S, S \subseteq Live, Removed(S)
    PROVE  /\ Typed(entries', hkey_index', freq_list', recency')
           /\ Live' = Live \ S
           /\ QueuesExact' /\ HkeysExact' /\ AgesExact'
           /\ \A f \in Freqs : freq_list'[f] # <<>> => freq_list[f] # <<>>
<1>1. /\ entries' = [k \in Keys |-> IF k \in S THEN None ELSE entries[k]]
      /\ hkey_index' = Unindexed(S)
      /\ freq_list' = RemoveFromFreq(freq_list, S)
      /\ recency' = Without(recency, S)
  BY DEF Removed
<1>2. /\ entries \in [Keys -> Entries \cup {None}] /\ hkey_index \in [Hkeys -> SUBSET Keys]
      /\ freq_list \in [Freqs -> Seq(Keys)] /\ recency \in Seq(Keys)
  BY DEF TypeOK
<1>3. Thinned(freq_list', freq_list, S)
  BY <1>1, <1>2, RemoveThins DEF QueuesExact
<1>4. entries' \in [Keys -> Entries \cup {None}]
  BY <1>1, <1>2
<1>5. hkey_index' \in [Hkeys -> SUBSET Keys]
      /\ \A h \in Hkeys : hkey_index'[h] = hkey_index[h] \ {k \in S : entries[k].hkey = h}
  BY <1>1, <1>2 DEF Unindexed
<1>6. Live' = Live \ S /\ \A k \in Live' : entries'[k] = entries[k] /\ k \notin S
  BY <1>1, NoneAssumption DEF Live
<1>7. QueuesExact'
  <2> SUFFICES ASSUME NEW f \in Freqs
               PROVE  /\ IsInjective(freq_list'[f])
                      /\ ToSet(freq_list'[f]) = {k \in Live' : entries'[k].access_count = f}
    BY DEF QueuesExact
  <2>1. IsInjective(freq_list'[f]) /\ ToSet(freq_list'[f]) = ToSet(freq_list[f]) \ S
    BY <1>3 DEF Thinned
  <2>2. ToSet(freq_list[f]) = {k \in Live : entries[k].access_count = f}
    BY DEF QueuesExact
  <2> QED  BY <1>6, <2>1, <2>2
<1>8. HkeysExact'
  BY <1>5, <1>6 DEF HkeysExact
<1>9. AgesExact' /\ recency' \in Seq(Keys)
  <2>1. /\ recency' \in Seq(Keys) /\ ToSet(recency') = ToSet(recency) \ S
        /\ IsInjective(recency')
        /\ \A x, y \in Keys : Before(recency, x, y) /\ x \notin S /\ y \notin S
                                => Before(recency', x, y)
    BY <1>1, <1>2, WithoutExact DEF AgesExact
  <2>2. ASSUME NEW f \in Freqs, NEW x \in Keys, NEW y \in Keys, Before(freq_list'[f], x, y)
        PROVE  Before(recency', x, y)
    <3>1. Before(freq_list[f], x, y)
      BY <1>3, <2>2 DEF Thinned
    <3>2. x \in ToSet(freq_list'[f]) /\ y \in ToSet(freq_list'[f])
      BY <2>2 DEF Before, ToSet
    <3>3. x \notin S /\ y \notin S
      BY <1>3, <3>2 DEF Thinned
    <3> QED  BY <2>1, <3>1, <3>3 DEF AgesExact
  <2> QED  BY <1>6, <2>1, <2>2 DEF AgesExact
<1>10. ASSUME NEW f \in Freqs, freq_list'[f] # <<>> PROVE freq_list[f] # <<>>
  <2>1. freq_list[f] \in Seq(Keys) /\ freq_list'[f] \in Seq(Keys)
        /\ ToSet(freq_list'[f]) \subseteq ToSet(freq_list[f])
    BY <1>2, <1>3 DEF Thinned
  <2>2. PICK p, q : p = freq_list[f] /\ q = freq_list'[f]
    OBVIOUS
  <2>3. ToSet(q) # {}
    BY <1>10, <2>1, <2>2, EmptyQueue
  <2>4. ToSet(p) # {}
    BY <2>1, <2>2, <2>3
  <2> QED  BY <2>1, <2>2, <2>4, EmptyQueue
<1>11. freq_list' \in [Freqs -> Seq(Keys)]
  BY <1>3 DEF Thinned
<1> QED  BY <1>4, <1>5, <1>6, <1>7, <1>8, <1>9, <1>10, <1>11 DEF Typed

\* An entry is inserted where others were removed.
LEMMA InsertExact ==
    ASSUME TypeOK, QueuesExact, HkeysExact, AgesExact,
           NEW k \in Keys, NEW h \in Hkeys \cup {None}, NEW S, S \subseteq Live, k \notin Live \ S,
           NEW list, Thinned(list, freq_list, S), NEW freq \in Freqs, Insert(k, h, S, list, freq)
    PROVE  /\ Typed(entries', hkey_index', freq_list', recency')
           /\ Live' = (Live \ S) \cup {k} /\ min_freq' = 1
           /\ QueuesExact' /\ HkeysExact' /\ AgesExact'
<1> DEFINE new == [hkey |-> h, access_count |-> 1, expired |-> FALSE]
<1>1. /\ entries' = [x \in Keys |-> CASE x = k -> new
                                      [] x # k /\ x \in S -> None
                                      [] OTHER -> entries[x]]
      /\ freq_list' = [list EXCEPT ![1] = Append(@, k)]
      /\ min_freq' = Lowered(freq)
      /\ hkey_index' = [x \in Hkeys |-> IF x = h THEN Unindexed(S)[x] \cup {k} ELSE Unindexed(S)[x]]
      /\ recency' = Append(Without(recency, S), k)
  BY DEF Insert
<1>2. /\ entries \in [Keys -> Entries \cup {None}] /\ hkey_index \in [Hkeys -> SUBSET Keys]
      /\ freq_list \in [Freqs -> Seq(Keys)] /\ recency \in Seq(Keys)
  BY DEF TypeOK
<1>3. 1 \in Freqs /\ Live \subseteq Keys
  BY LiveFacts
<1>4. new \in Entries /\ new.hkey = h /\ new.access_count = 1
  BY <1>3 DEF Entries
<1> HIDE DEF new
<1>5. /\ entries'[k] = new
      /\ \A x \in Keys : x # k => entries'[x] = IF x \in S THEN None ELSE entries[x]
  BY <1>1
<1>6. entries' \in [Keys -> Entries \cup {None}]
  <2>1. \A x \in Keys : entries'[x] \in Entries \cup {None}
    BY <1>2, <1>4, <1>5
  <2>2. entries' = [x \in Keys |-> entries'[x]]
    BY <1>1
  <2> QED  BY <2>1, <2>2
<1>7. /\ Live' = (Live \ S) \cup {k}
      /\ \A x \in Live' : x # k => entries'[x] = entries[x] /\ x \in Live /\ x \notin S
  BY <1>4, <1>5, NoneAssumption DEF Live
<1>8. min_freq' = 1
  <2>1. MaxFreq \in Nat /\ {1, freq} \subseteq Freqs
    BY <1>3, CacheAssumption
  <2>2. Min({1, freq}) \in {1, freq} /\ Min({1, freq}) <= 1
    BY <2>1, MinExact
  <2> QED  BY <1>1, <2>1, <2>2 DEF Lowered, Freqs
<1>9. hkey_index' \in [Hkeys -> SUBSET Keys] /\ HkeysExact'
  <2>1. \A x \in Hkeys : Unindexed(S)[x] = hkey_index[x] \ {y \in S : entries[y].hkey = x}
    BY DEF Unindexed
  <2>2. \A x \in Hkeys : hkey_index'[x] = IF x = h THEN Unindexed(S)[x] \cup {k} ELSE Unindexed(S)[x]
    BY <1>1
  <2>3. \A x \in Hkeys : Unindexed(S)[x] = {y \in Live \ S : entries[y].hkey = x}
    BY <2>1 DEF HkeysExact
  <2>4. ASSUME NEW x \in Hkeys
        PROVE  hkey_index'[x] = {y \in Live' : entries'[y].hkey = x}
    <3>1. {y \in Live' : entries'[y].hkey = x}
            = {y \in Live \ S : y # k /\ entries[y].hkey = x}
              \cup (IF x = h THEN {k} ELSE {})
      BY <1>4, <1>5, <1>7
    <3>2. {y \in Live \ S : y # k /\ entries[y].hkey = x} = Unindexed(S)[x]
      BY <2>3
    <3>3. x = h => hkey_index'[x] = Unindexed(S)[x] \cup {k}
      BY <2>2
    <3>4. x # h => hkey_index'[x] = Unindexed(S)[x]
      BY <2>2
    <3> QED  BY <3>1, <3>2, <3>3, <3>4
  <2>5. hkey_index' \in [Hkeys -> SUBSET Keys]
    <3>1. \A x \in Hkeys : hkey_index'[x] \subseteq Keys
      BY <1>3, <2>2, <2>3
    <3>2. hkey_index' = [x \in Hkeys |-> hkey_index'[x]]
      BY <1>1
    <3> QED  BY <3>1, <3>2
  <2> QED  BY <2>4, <2>5 DEF HkeysExact
<1>10. /\ list \in [Freqs -> Seq(Keys)]
       /\ \A f \in Freqs : /\ IsInjective(list[f])
                           /\ ToSet(list[f]) = {x \in Live \ S : entries[x].access_count = f}
                           /\ \A x, y \in Keys : Before(list[f], x, y) => Before(freq_list[f], x, y)
  BY DEF Thinned, QueuesExact
<1>11. /\ freq_list' \in [Freqs -> Seq(Keys)]
       /\ freq_list'[1] = Append(list[1], k)
       /\ \A f \in Freqs : f # 1 => freq_list'[f] = list[f]
  <2>1. PICK q \in Seq(Keys) : q = Append(list[1], k)
    BY <1>3, <1>10, AppendExact
  <2>2. freq_list' = [list EXCEPT ![1] = q]
    BY <1>1, <2>1
  <2> QED  BY <1>3, <1>10, <2>1, <2>2
<1>12. /\ IsInjective(freq_list'[1]) /\ ToSet(freq_list'[1]) = ToSet(list[1]) \cup {k}
       /\ \A x, y \in Keys : Before(freq_list'[1], x, y) <=>
                               Before(list[1], x, y) \/ (x \in ToSet(list[1]) /\ y = k)
  <2>1. PICK q \in Seq(Keys) : q = list[1] /\ IsInjective(q) /\ k \notin ToSet(q)
    BY <1>3, <1>10
  <2>2. freq_list'[1] = Append(q, k)
    BY <1>11, <2>1
  <2> QED  BY <2>1, <2>2, AppendExact
<1>13. QueuesExact'
  <2> SUFFICES ASSUME NEW f \in Freqs
               PROVE  /\ IsInjective(freq_list'[f])
                      /\ ToSet(freq_list'[f]) = {x \in Live' : entries'[x].access_count = f}
    BY DEF QueuesExact
  <2>1. CASE f = 1
    <3>1. ToSet(freq_list'[1]) = {x \in Live \ S : entries[x].access_count = 1} \cup {k}
      BY <1>3, <1>10, <1>12
    <3>2. {x \in Live' : entries'[x].access_count = 1}
            = {x \in Live \ S : entries[x].access_count = 1} \cup {k}
      BY <1>4, <1>5, <1>7
    <3> QED  BY <1>12, <2>1, <3>1, <3>2
  <2>2. CASE f # 1
    <3>1. {x \in Live' : entries'[x].access_count = f}
            = {x \in Live \ S : entries[x].access_count = f}
      BY <1>4, <1>5, <1>7, <2>2
    <3> QED  BY <1>10, <1>11, <2>2, <3>1
  <2> QED  BY <2>1, <2>2
<1>14. PICK rest \in Seq(Keys) :
         /\ rest = Without(recency, S) /\ ToSet(rest) = Live \ S /\ IsInjective(rest)
         /\ \A x, y \in Keys : Before(recency, x, y) /\ x \notin S /\ y \notin S
                                 => Before(rest, x, y)
  BY <1>2, WithoutExact DEF AgesExact
<1>15. /\ recency' \in Seq(Keys) /\ ToSet(recency') = Live' /\ IsInjective(recency')
       /\ \A x, y \in Keys : Before(recency', x, y) <=>
                               Before(rest, x, y) \/ (x \in Live \ S /\ y = k)
  BY <1>1, <1>7, <1>14, AppendExact
<1>16. ASSUME NEW f \in Freqs, NEW x \in Keys, NEW y \in Keys, Before(list[f], x, y)
       PROVE  Before(rest, x, y)
  <2>1. Before(freq_list[f], x, y)
    BY <1>10, <1>16
  <2>2. x \in ToSet(list[f]) /\ y \in ToSet(list[f])
    BY <1>16 DEF Before, ToSet
  <2>3. x \notin S /\ y \notin S
    BY <1>10, <2>2
  <2> QED  BY <1>14, <2>1, <2>3 DEF AgesExact
<1>17. \A f \in Freqs : \A x, y \in Keys : Before(freq_list'[f], x, y) => Before(recency', x, y)
  <2> SUFFICES ASSUME NEW f \in Freqs, NEW x \in Keys, NEW y \in Keys, Before(freq_list'[f], x, y)
               PROVE  Before(recency', x, y)
    OBVIOUS
  <2>1. CASE Before(list[f], x, y)
    BY <1>15, <1>16, <2>1
  <2>2. CASE f = 1 /\ x \in ToSet(list[1]) /\ y = k
    BY <1>3, <1>10, <1>15, <2>2
  <2> QED  BY <1>11, <1>12, <2>1, <2>2
<1>18. AgesExact'
  BY <1>15, <1>17 DEF AgesExact
<1> QED  BY <1>6, <1>7, <1>8, <1>9, <1>11, <1>13, <1>15, <1>18 DEF Typed
-----------------------------------------------------------------------------
(* The operations.                                                         *)

\* What an operation that cannot fail leaves behind.
LEMMA Preserved ==
    ASSUME CacheInvariant, capacity' = capacity, spinning' = spinning,
           Typed(entries', hkey_index', freq_list', recency'),
           QueuesExact', HkeysExact', AgesExact', FirstUsed', min_freq' \in Freqs,
           count' = Cardinality(Live'), count' <= capacity, count' \in Nat
    PROVE  CacheInvariant'
<1>1. capacity \in Nat
  BY CacheAssumption DEF CacheInvariant, TypeOK
<1>2. TypeOK'
  BY <1>1 DEF CacheInvariant, TypeOK, Typed
<1>3. IndexesExact'
  BY DEF IndexesExact, QueuesExact, HkeysExact
<1>4. StoreEnds'
  BY DEF CacheInvariant, StoreEnds
<1> QED  BY <1>2, <1>3, <1>4 DEF CacheInvariant

\* The parts of the invariant.
LEMMA InvariantParts ==
    ASSUME CacheInvariant
    PROVE  /\ TypeOK /\ QueuesExact /\ HkeysExact /\ AgesExact /\ FirstUsed
           /\ count = Cardinality(Live) /\ count \in Nat /\ capacity \in Nat /\ count <= capacity
           /\ min_freq \in Freqs /\ Freqs \subseteq Nat /\ MaxFreq \in Nat /\ 1 \in Freqs
<1>1. MaxFreq \in Nat \ {0} /\ Freqs \subseteq Nat /\ 1 \in Freqs
  BY CacheAssumption DEF Freqs
<1>2. capacity \in Nat
  BY CacheAssumption DEF CacheInvariant, TypeOK
<1>3. count \in 0..capacity /\ min_freq \in Freqs
  BY DEF CacheInvariant, TypeOK
<1> QED  BY <1>1, <1>2, <1>3 DEF CacheInvariant, IndexesExact, QueuesExact, HkeysExact

\* A full cache finds an entry to evict: the first of the first queue in use.
LEMMA VictimExact ==
    ASSUME CacheInvariant
    PROVE  /\ Candidates = {f \in Freqs : freq_list[f] # <<>>}
           /\ Live # {} => Candidates # {}
           /\ Candidates # {} =>
                /\ Min(Candidates) \in Freqs /\ freq_list[Min(Candidates)] # <<>>
                /\ Victim = Head(freq_list[Min(Candidates)]) /\ Victim \in Live
                /\ entries[Victim].access_count = Min(Candidates)
                /\ \A k \in Live : Min(Candidates) <= entries[k].access_count
<1>1. /\ TypeOK /\ QueuesExact /\ FirstUsed /\ min_freq \in Freqs /\ Freqs \subseteq Nat
  BY InvariantParts
<1>2. Candidates = {f \in Freqs : freq_list[f] # <<>>}
  BY <1>1 DEF Candidates, FirstUsed
<1>3. ASSUME NEW k \in Live PROVE entries[k].access_count \in Candidates
  <2>1. entries[k].access_count \in Freqs
    BY <1>1, LiveFacts
  <2>2. PICK f \in Freqs : f = entries[k].access_count
    BY <2>1
  <2>3. k \in ToSet(freq_list[f]) /\ freq_list[f] \in Seq(Keys)
    BY <1>1, <2>2 DEF QueuesExact, TypeOK
  <2>4. freq_list[f] # <<>>
    BY <2>3, EmptyQueue
  <2> QED  BY <1>2, <2>2, <2>4
<1>4. ASSUME Candidates # {}
      PROVE  /\ Min(Candidates) \in Freqs /\ freq_list[Min(Candidates)] # <<>>
             /\ Victim = Head(freq_list[Min(Candidates)]) /\ Victim \in Live
             /\ entries[Victim].access_count = Min(Candidates)
             /\ \A k \in Live : Min(Candidates) <= entries[k].access_count
  <2>1. Candidates \subseteq Freqs
    BY <1>2
  <2>2. Min(Candidates) \in Candidates /\ \A f \in Candidates : Min(Candidates) <= f
    BY <1>4, <2>1, MinExact
  <2>3. PICK f \in Freqs : f = Min(Candidates) /\ freq_list[f] # <<>>
    BY <1>2, <2>2
  <2>4. freq_list[f] \in Seq(Keys) /\ IsInjective(freq_list[f])
        /\ ToSet(freq_list[f]) = {k \in Live : entries[k].access_count = f}
    BY <1>1 DEF QueuesExact, TypeOK
  <2>5. Head(freq_list[f]) \in ToSet(freq_list[f])
    BY <2>3, <2>4, TailExact
  <2>6. Victim = Head(freq_list[f])
    BY <2>3 DEF Victim
  <2> QED  BY <1>3, <2>2, <2>3, <2>4, <2>5, <2>6
<1> QED  BY <1>2, <1>3, <1>4

\* A store() replaces an entry, or adds one, or evicts one first; it never searches
\* for ever unless nothing can be stored.
LEMMA StoreStep ==
    ASSUME CacheInvariant, NEW k \in Keys, NEW h \in Hkeys \cup {None},
           Store(k, h), capacity' = capacity
    PROVE  CacheInvariant'
<1>1. /\ TypeOK /\ QueuesExact /\ HkeysExact /\ AgesExact /\ FirstUsed
      /\ count = Cardinality(Live) /\ count \in Nat /\ capacity \in Nat /\ count <= capacity
      /\ min_freq \in Freqs /\ Freqs \subseteq Nat /\ MaxFreq \in Nat /\ 1 \in Freqs
  BY InvariantParts
<1>2. Live \subseteq Keys /\ IsFiniteSet(Live)
  BY <1>1, LiveFacts
<1>3. freq_list \in [Freqs -> Seq(Keys)] /\ \A f \in Freqs : IsInjective(freq_list[f])
  BY <1>1 DEF TypeOK, QueuesExact
<1>4. ASSUME NEW S, S \subseteq Live, k \notin Live \ S, spinning' = spinning,
             NEW list, Thinned(list, freq_list, S), NEW freq \in Freqs,
             Insert(k, h, S, list, freq),
             count' = Cardinality((Live \ S) \cup {k}), count' \in Nat, count' <= capacity
      PROVE  CacheInvariant'
  <2>1. /\ Typed(entries', hkey_index', freq_list', recency')
        /\ Live' = (Live \ S) \cup {k} /\ min_freq' = 1
        /\ QueuesExact' /\ HkeysExact' /\ AgesExact'
    BY <1>1, <1>4, InsertExact
  <2>2. FirstUsed'
    BY <1>1, <2>1 DEF FirstUsed, Freqs
  <2> QED  BY <1>1, <1>4, <2>1, <2>2, Preserved
<1>5. CASE Replace(k, h) /\ UNCHANGED spinning
  <2>1. /\ k \in Live /\ count' = count
        /\ Insert(k, h, {k}, RemoveFromFreq(freq_list, {k}), min_freq)
    BY <1>5 DEF Replace
  <2>2. Thinned(RemoveFromFreq(freq_list, {k}), freq_list, {k})
    BY <1>3, RemoveThins
  <2>3. (Live \ {k}) \cup {k} = Live /\ {k} \subseteq Live /\ k \notin Live \ {k}
    BY <2>1
  <2>4. PICK list : list = RemoveFromFreq(freq_list, {k})
    OBVIOUS
  <2> QED  BY <1>1, <1>4, <1>5, <2>1, <2>2, <2>3, <2>4
<1>6. CASE Add(k, h) /\ UNCHANGED spinning
  <2>1. /\ k \notin Live /\ Cardinality(Live) < capacity /\ count' = count + 1
        /\ Insert(k, h, {}, freq_list, min_freq)
    BY <1>6 DEF Add
  <2>2. Thinned(freq_list, freq_list, {})
    BY <1>3 DEF Thinned
  <2>3. Cardinality((Live \ {}) \cup {k}) = Cardinality(Live) + 1
    <3>1. Cardinality(Live \cup {k}) = Cardinality(Live) + 1
      BY <1>2, <2>1, FS_AddElement
    <3>2. (Live \ {}) \cup {k} = Live \cup {k}
      OBVIOUS
    <3> QED  BY <3>1, <3>2
  <2>4. {} \subseteq Live /\ k \notin Live \ {}
    BY <2>1
  <2>5. count' \in Nat /\ count' <= capacity
    BY <1>1, <2>1
  <2> QED  BY <1>1, <1>4, <1>6, <2>1, <2>2, <2>3, <2>4, <2>5
<1>7. CASE EvictAndAdd(k, h) /\ UNCHANGED spinning
  <2> DEFINE f == Min(Candidates)
             list == [freq_list EXCEPT ![f] = Tail(@)]
  <2>1. /\ k \notin Live /\ Candidates # {}
        /\ Insert(k, h, {Victim} \cap Live, list, Refreshed(list))
        /\ count' = count - Cardinality({Victim} \cap Live) + 1
    BY <1>7 DEF EvictAndAdd
  <2>2. /\ f \in Freqs /\ freq_list[f] # <<>> /\ Victim = Head(freq_list[f]) /\ Victim \in Live
        /\ entries[Victim].access_count = f
    BY <2>1, VictimExact
  <2>3. {Victim} \cap Live = {Victim} /\ Cardinality({Victim}) = 1
    BY <2>2, FS_Singleton
  <2> HIDE DEF f
  <2>4. /\ Tail(freq_list[f]) \in Seq(Keys) /\ IsInjective(Tail(freq_list[f]))
        /\ ToSet(Tail(freq_list[f])) = ToSet(freq_list[f]) \ {Victim}
        /\ \A x, y \in Keys : Before(Tail(freq_list[f]), x, y) => Before(freq_list[f], x, y)
    BY <1>3, <2>2, TailExact
  <2>5. list \in [Freqs -> Seq(Keys)] /\ list[f] = Tail(freq_list[f])
        /\ \A g \in Freqs : g # f => list[g] = freq_list[g]
    BY <1>3, <2>2, <2>4
  <2> HIDE DEF list
  <2>6. \A g \in Freqs : g # f => ToSet(freq_list[g]) = ToSet(freq_list[g]) \ {Victim}
    BY <1>1, <2>2 DEF QueuesExact
  <2>7. Thinned(list, freq_list, {Victim})
    <3> SUFFICES ASSUME NEW g \in Freqs
                 PROVE  /\ IsInjective(list[g]) /\ ToSet(list[g]) = ToSet(freq_list[g]) \ {Victim}
                        /\ \A x, y \in Keys : Before(list[g], x, y) => Before(freq_list[g], x, y)
      BY <2>5 DEF Thinned
    <3>1. CASE g = f
      BY <2>4, <2>5, <3>1
    <3>2. CASE g # f
      BY <1>3, <2>5, <2>6, <3>2
    <3> QED  BY <3>1, <3>2
  <2>8. PICK freq \in Freqs : freq = Refreshed(list)
    <3>1. PICK used : used = {g \in Freqs : list[g] # <<>>}
      OBVIOUS
    <3>2. Refreshed(list) = IF used = {} THEN 1 ELSE Min(used)
      BY <3>1 DEF Refreshed
    <3>3. used # {} => Min(used) \in Freqs
      BY <3>1, MinExact
    <3> QED  BY <1>1, <3>2, <3>3
  <2>9. Cardinality((Live \ {Victim}) \cup {k}) = count
    <3>1. IsFiniteSet(Live \ {Victim}) /\ Cardinality(Live \ {Victim}) = count - 1
      BY <1>1, <1>2, <2>2, FS_RemoveElement
    <3>2. Cardinality((Live \ {Victim}) \cup {k}) = (count - 1) + 1
      BY <2>1, <3>1, FS_AddElement
    <3> QED  BY <1>1, <3>2
  <2>10. count' = count
    BY <1>1, <2>1, <2>3
  <2>11. {Victim} \subseteq Live /\ k \notin Live \ {Victim}
         /\ Insert(k, h, {Victim}, list, freq)
    BY <2>1, <2>2, <2>3, <2>8
  <2> QED  BY <1>1, <1>4, <1>7, <2>7, <2>9, <2>10, <2>11
<1>8. CASE SearchForever(k)
  <2>1. /\ Cardinality(Live) >= capacity /\ Candidates = {}
        /\ spinning' = TRUE /\ UNCHANGED <<indexes, min_freq, count>>
    BY <1>8 DEF SearchForever
  <2>2. Live = {}
    BY <2>1, VictimExact
  <2>3. capacity = 0
    BY <1>1, <2>1, <2>2, FS_EmptySet
  <2>4. UNCHANGED <<entries, hkey_index, freq_list, recency, min_freq, count>>
    BY <2>1 DEF indexes
  <2>5. TypeOK'
    BY <1>1, <2>1, <2>4 DEF TypeOK
  <2>6. IndexesExact' /\ AgesExact' /\ FirstUsed'
    BY <2>4 DEF CacheInvariant, IndexesExact, AgesExact, FirstUsed, Live
  <2> QED  BY <2>3, <2>5, <2>6 DEF CacheInvariant, StoreEnds
<1> QED  BY <1>5, <1>6, <1>7, <1>8 DEF Store

\* A hit moves its entry to the end of the next queue and of the order of ages.
LEMMA HitStep ==
    ASSUME CacheInvariant, NEW k \in Keys, LookupHit(k), capacity' = capacity
    PROVE  CacheInvariant'
<1>1. /\ TypeOK /\ QueuesExact /\ HkeysExact /\ AgesExact /\ FirstUsed
      /\ count = Cardinality(Live) /\ count \in Nat /\ capacity \in Nat /\ count <= capacity
      /\ min_freq \in Freqs /\ Freqs \subseteq Nat /\ MaxFreq \in Nat /\ 1 \in Freqs
  BY InvariantParts
<1>2. /\ entries \in [Keys -> Entries \cup {None}] /\ hkey_index \in [Hkeys -> SUBSET Keys]
      /\ freq_list \in [Freqs -> Seq(Keys)] /\ recency \in Seq(Keys)
  BY <1>1 DEF TypeOK
<1>3. k \in Live /\ entries[k] \in Entries /\ entries[k].access_count < MaxFreq
      /\ UNCHANGED <<hkey_index, min_freq, count, spinning>>
  BY <1>1, LiveFacts DEF LookupHit
<1>4. PICK f \in Freqs : f = entries[k].access_count /\ f + 1 \in Freqs /\ f # f + 1
  <2>1. entries[k].access_count \in Freqs
    BY <1>1, <1>3, LiveFacts
  <2> QED  BY <1>1, <1>3, <2>1 DEF Freqs
<1>5. /\ entries' = [entries EXCEPT ![k].access_count = f + 1]
      /\ freq_list' = [freq_list EXCEPT ![f] = Without(@, {k}), ![f + 1] = Append(@, k)]
      /\ recency' = Append(Without(recency, {k}), k)
  BY <1>4 DEF LookupHit
<1>6. PICK e : /\ e = [entries[k] EXCEPT !.access_count = f + 1]
               /\ e \in Entries /\ e.access_count = f + 1 /\ e.hkey = entries[k].hkey
  <2>1. PICK e : e = [entries[k] EXCEPT !.access_count = f + 1]
    OBVIOUS
  <2>2. e \in Entries /\ e.access_count = f + 1 /\ e.hkey = entries[k].hkey
    BY <1>3, <1>4, <2>1 DEF Entries
  <2> QED  BY <2>1, <2>2
<1>7. entries' = [entries EXCEPT ![k] = e]
  BY <1>5, <1>6
<1>8. /\ entries' \in [Keys -> Entries \cup {None}] /\ entries'[k] = e
      /\ \A x \in Keys : x # k => entries'[x] = entries[x]
  BY <1>2, <1>6, <1>7
<1>9. Live' = Live
  BY <1>3, <1>6, <1>8 DEF Live
<1>10. PICK rest \in Seq(Keys) :
         /\ rest = Without(freq_list[f], {k}) /\ ToSet(rest) = ToSet(freq_list[f]) \ {k}
         /\ IsInjective(rest)
         /\ \A x, y \in Keys : Before(rest, x, y) => Before(freq_list[f], x, y)
  BY <1>1, <1>2, WithoutExact DEF QueuesExact
<1>11. PICK next \in Seq(Keys) :
         /\ next = Append(freq_list[f + 1], k) /\ ToSet(next) = ToSet(freq_list[f + 1]) \cup {k}
         /\ IsInjective(next)
         /\ \A x, y \in Keys : Before(next, x, y) <=>
              Before(freq_list[f + 1], x, y) \/ (x \in ToSet(freq_list[f + 1]) /\ y = k)
  <2>1. PICK q \in Seq(Keys) : q = freq_list[f + 1] /\ IsInjective(q) /\ k \notin ToSet(q)
    BY <1>1, <1>2, <1>4 DEF QueuesExact
  <2>2. /\ Append(q, k) \in Seq(Keys) /\ ToSet(Append(q, k)) = ToSet(q) \cup {k}
        /\ IsInjective(Append(q, k))
        /\ \A x, y \in Keys : Before(Append(q, k), x, y) <=>
                               Before(q, x, y) \/ (x \in ToSet(q) /\ y = k)
    BY <2>1, AppendExact
  <2> QED  BY <2>1, <2>2
<1>12. freq_list' = [freq_list EXCEPT ![f] = rest, ![f + 1] = next]
  BY <1>4, <1>5, <1>10, <1>11
<1>13. /\ freq_list' \in [Freqs -> Seq(Keys)] /\ freq_list'[f] = rest /\ freq_list'[f + 1] = next
       /\ \A g \in Freqs : g # f /\ g # f + 1 => freq_list'[g] = freq_list[g]
  BY <1>2, <1>4, <1>12
<1>14. QueuesExact'
  <2> SUFFICES ASSUME NEW g \in Freqs
               PROVE  /\ IsInjective(freq_list'[g])
                      /\ ToSet(freq_list'[g]) = {x \in Live' : entries'[x].access_count = g}
    BY DEF QueuesExact
  <2>1. ToSet(freq_list[g]) = {x \in Live : entries[x].access_count = g}
        /\ IsInjective(freq_list[g]) /\ Live \subseteq Keys
    BY <1>1, LiveFacts DEF QueuesExact
  <2>2. CASE g = f
    <3>1. {x \in Live : entries'[x].access_count = f}
            = {x \in Live : entries[x].access_count = f} \ {k}
      BY <1>4, <1>6, <1>8, <2>1
    <3> QED  BY <1>9, <1>10, <1>13, <2>1, <2>2, <3>1
  <2>3. CASE g = f + 1
    <3>1. {x \in Live : entries'[x].access_count = f + 1}
            = {x \in Live : entries[x].access_count = f + 1} \cup {k}
      BY <1>3, <1>6, <1>8, <2>1
    <3> QED  BY <1>9, <1>11, <1>13, <2>1, <2>3, <3>1
  <2>4. CASE g # f /\ g # f + 1
    <3>1. {x \in Live : entries'[x].access_count = g}
            = {x \in Live : entries[x].access_count = g}
      BY <1>4, <1>6, <1>8, <2>1, <2>4
    <3> QED  BY <1>9, <1>13, <2>1, <2>4, <3>1
  <2> QED  BY <2>2, <2>3, <2>4
<1>15. HkeysExact'
  <2>1. \A x \in Live : entries'[x].hkey = entries[x].hkey
    BY <1>6, <1>8, <1>1, LiveFacts
  <2> QED  BY <1>1, <1>3, <1>9, <2>1 DEF HkeysExact
<1>16. PICK old \in Seq(Keys) :
         /\ old = Without(recency, {k}) /\ ToSet(old) = Live \ {k} /\ IsInjective(old)
         /\ \A x, y \in Keys : Before(recency, x, y) /\ x # k /\ y # k => Before(old, x, y)
  <2>1. /\ Without(recency, {k}) \in Seq(Keys)
        /\ ToSet(Without(recency, {k})) = ToSet(recency) \ {k}
        /\ IsInjective(recency) => IsInjective(Without(recency, {k}))
        /\ \A x, y \in Keys : Before(recency, x, y) /\ x \notin {k} /\ y \notin {k}
                                => Before(Without(recency, {k}), x, y)
    BY <1>2, WithoutExact
  <2>2. ToSet(recency) = Live /\ IsInjective(recency)
    BY <1>1 DEF AgesExact
  <2> QED  BY <2>1, <2>2
<1>17. /\ recency' \in Seq(Keys) /\ ToSet(recency') = Live' /\ IsInjective(recency')
       /\ \A x, y \in Keys : Before(recency', x, y) <=>
                               Before(old, x, y) \/ (x \in Live \ {k} /\ y = k)
  <2>1. /\ Append(old, k) \in Seq(Keys) /\ ToSet(Append(old, k)) = ToSet(old) \cup {k}
        /\ IsInjective(old) /\ k \notin ToSet(old) => IsInjective(Append(old, k))
        /\ \A x, y \in Keys : Before(Append(old, k), x, y) <=>
                               Before(old, x, y) \/ (x \in ToSet(old) /\ y = k)
    BY AppendExact
  <2>2. recency' = Append(old, k) /\ k \notin ToSet(old) /\ ToSet(old) \cup {k} = Live
    BY <1>3, <1>5, <1>16
  <2> QED  BY <1>9, <1>16, <2>1, <2>2
<1>18. AgesExact'
  <2> SUFFICES ASSUME NEW g \in Freqs, NEW x \in Keys, NEW y \in Keys,
                      Before(freq_list'[g], x, y)
               PROVE  Before(recency', x, y)
    BY <1>17 DEF AgesExact
  <2>1. ASSUME Before(freq_list[g], x, y), x # k, y # k PROVE Before(recency', x, y)
    BY <1>1, <1>16, <1>17, <2>1 DEF AgesExact
  <2>2. \A z \in ToSet(freq_list[g]) : z \in Live /\ entries[z].access_count = g
    BY <1>1 DEF QueuesExact
  <2>3. x \in ToSet(freq_list'[g]) /\ y \in ToSet(freq_list'[g])
    BY DEF Before, ToSet
  <2>4. CASE g = f
    BY <1>10, <1>13, <2>1, <2>3, <2>4
  <2>5. CASE g = f + 1
    <3>1. \A u, v \in Keys : Before(freq_list[g], u, v)
                               => u \in ToSet(freq_list[g]) /\ v \in ToSet(freq_list[g])
      BY DEF Before, ToSet
    <3>2. k \notin ToSet(freq_list[g])
      BY <1>4, <2>2, <2>5
    <3>3. CASE Before(freq_list[g], x, y)
      BY <2>1, <3>1, <3>2, <3>3
    <3>4. CASE x \in ToSet(freq_list[g]) /\ y = k
      BY <1>17, <2>2, <3>2, <3>4
    <3> QED  BY <1>11, <1>13, <2>5, <3>3, <3>4
  <2>6. CASE g # f /\ g # f + 1
    <3>1. k \notin ToSet(freq_list[g])
      BY <1>4, <2>2, <2>6
    <3> QED  BY <1>13, <2>1, <2>3, <2>6, <3>1
  <2> QED  BY <2>4, <2>5, <2>6
<1>19. FirstUsed'
  <2>1. freq_list[f] # <<>>
    <3>1. k \in ToSet(freq_list[f]) /\ freq_list[f] \in Seq(Keys)
      BY <1>1, <1>2, <1>3, <1>4 DEF QueuesExact
    <3> QED  BY <3>1, EmptyQueue
  <2>2. min_freq <= f /\ min_freq \in Nat /\ f \in Nat
    BY <1>1, <2>1 DEF FirstUsed
  <2> SUFFICES ASSUME NEW g \in Freqs, freq_list'[g] # <<>> PROVE min_freq <= g
    BY <1>3 DEF FirstUsed
  <2>3. CASE g = f \/ g = f + 1
    BY <2>2, <2>3
  <2>4. CASE g # f /\ g # f + 1
    BY <1>1, <1>13, <2>4 DEF FirstUsed
  <2> QED  BY <2>3, <2>4
<1>20. Typed(entries', hkey_index', freq_list', recency')
  BY <1>2, <1>3, <1>8, <1>13, <1>17 DEF Typed
<1> QED
  BY <1>1, <1>3, <1>9, <1>14, <1>15, <1>18, <1>19, <1>20, Preserved

\* Entries are removed, with or without a new min_freq.
LEMMA RemovalStep ==
    ASSUME CacheInvariant, NEW S, S \subseteq Live, Removed(S),
           count' = count - Cardinality(S),
           min_freq' = min_freq \/ min_freq' = Refreshed(freq_list'),
           capacity' = capacity, spinning' = spinning
    PROVE  CacheInvariant'
<1>1. /\ TypeOK /\ QueuesExact /\ HkeysExact /\ AgesExact /\ FirstUsed
      /\ count = Cardinality(Live) /\ count \in Nat /\ capacity \in Nat /\ count <= capacity
      /\ min_freq \in Freqs /\ Freqs \subseteq Nat /\ MaxFreq \in Nat /\ 1 \in Freqs
  BY InvariantParts
<1>2. /\ Typed(entries', hkey_index', freq_list', recency')
      /\ Live' = Live \ S
      /\ QueuesExact' /\ HkeysExact' /\ AgesExact'
      /\ \A f \in Freqs : freq_list'[f] # <<>> => freq_list[f] # <<>>
  BY <1>1, RemovedExact
<1>3. count' = Cardinality(Live') /\ count' \in Nat /\ count' <= capacity
  <2>1. IsFiniteSet(Live) /\ IsFiniteSet(S)
    BY <1>1, LiveFacts, FS_Subset
  <2>2. Cardinality(Live \ S) = Cardinality(Live) - Cardinality(Live \cap S)
    BY <2>1, FS_Difference
  <2>3. Live \cap S = S
    OBVIOUS
  <2>4. Cardinality(S) \in Nat /\ Cardinality(S) <= Cardinality(Live)
    BY <2>1, FS_Subset, FS_CardinalityType
  <2>5. Cardinality(Live') = count - Cardinality(S)
    BY <1>1, <1>2, <2>2, <2>3
  <2>6. PICK n \in Nat : n = Cardinality(S) /\ n <= count
    BY <1>1, <2>4
  <2> QED  BY <1>1, <2>5, <2>6
<1>4. min_freq' \in Freqs /\ FirstUsed'
  <2>1. CASE min_freq' = min_freq
    BY <1>1, <1>2, <2>1 DEF FirstUsed
  <2>2. CASE min_freq' = Refreshed(freq_list')
    <3>1. PICK used : used = {f \in Freqs : freq_list'[f] # <<>>}
      OBVIOUS
    <3>2. min_freq' = IF used = {} THEN 1 ELSE Min(used)
      BY <2>2, <3>1 DEF Refreshed
    <3>3. used # {} => Min(used) \in Freqs /\ \A f \in used : Min(used) <= f
      BY <3>1, MinExact
    <3>4. min_freq' \in Freqs
      BY <1>1, <3>2, <3>3
    <3>5. \A f \in Freqs : freq_list'[f] # <<>> => min_freq' <= f
      BY <3>1, <3>2, <3>3
    <3> QED  BY <3>4, <3>5 DEF FirstUsed
  <2> QED  BY <2>1, <2>2
<1> QED  BY <1>2, <1>3, <1>4, Preserved

\* Every operation.
LEMMA CacheStep == CacheInvariant /\ [Next]_vars => CacheInvariant'
<1> SUFFICES ASSUME CacheInvariant, [Next]_vars PROVE CacheInvariant'
  OBVIOUS
<1>1. /\ TypeOK /\ QueuesExact /\ HkeysExact /\ AgesExact /\ FirstUsed
      /\ count = Cardinality(Live) /\ count \in Nat /\ capacity \in Nat /\ count <= capacity
      /\ min_freq \in Freqs /\ Freqs \subseteq Nat /\ MaxFreq \in Nat /\ 1 \in Freqs
  BY InvariantParts
<1>2. ASSUME NEW S, S \subseteq Live, Purge(S), capacity' = capacity PROVE CacheInvariant'
  BY <1>2, RemovalStep DEF Purge
<1>3. ASSUME NEW k \in Keys, capacity' = capacity,
             LookupExpired(k) \/ Delete(k)
      PROVE  CacheInvariant'
  <2>1. /\ {k} \subseteq Live /\ Removed({k}) /\ count' = count - 1
        /\ UNCHANGED <<min_freq, spinning>>
    BY <1>3 DEF LookupExpired, Delete
  <2>2. Cardinality({k}) = 1
    BY FS_Singleton
  <2> QED  BY <1>3, <2>1, <2>2, RemovalStep
<1>4. ASSUME NEW k \in Keys, capacity' = capacity, Expire(k)
      PROVE  CacheInvariant'
  <2>1. /\ k \in Live /\ entries' = [entries EXCEPT ![k].expired = TRUE]
        /\ UNCHANGED <<hkey_index, freq_list, min_freq, count, recency, spinning>>
    BY <1>4 DEF Expire
  <2>2. PICK e : e = [entries[k] EXCEPT !.expired = TRUE]
    OBVIOUS
  <2>3. entries[k] \in Entries
    BY <1>1, <2>1, LiveFacts
  <2>4. e \in Entries /\ e.access_count = entries[k].access_count /\ e.hkey = entries[k].hkey
    BY <2>2, <2>3 DEF Entries
  <2>5. entries' = [entries EXCEPT ![k] = e]
    BY <2>1, <2>2
  <2>6. /\ entries' \in [Keys -> Entries \cup {None}] /\ entries'[k] = e
        /\ \A x \in Keys : x # k => entries'[x] = entries[x]
    BY <1>1, <2>4, <2>5 DEF TypeOK
  <2>7. Live' = Live
    BY <2>1, <2>4, <2>6 DEF Live
  <2>8. \A x \in Live : /\ entries'[x].access_count = entries[x].access_count
                        /\ entries'[x].hkey = entries[x].hkey
    BY <1>1, <2>4, <2>6, LiveFacts
  <2>9. \A f \in Freqs : {x \in Live' : entries'[x].access_count = f}
                           = {x \in Live : entries[x].access_count = f}
    BY <2>7, <2>8
  <2>10. \A h \in Hkeys : {x \in Live' : entries'[x].hkey = h} = {x \in Live : entries[x].hkey = h}
    BY <2>7, <2>8
  <2>11. QueuesExact'
    BY <1>1, <2>1, <2>9 DEF QueuesExact
  <2>12. HkeysExact'
    BY <1>1, <2>1, <2>10 DEF HkeysExact
  <2>13. AgesExact' /\ FirstUsed'
    BY <1>1, <2>1, <2>7 DEF AgesExact, FirstUsed
  <2>14. Typed(entries', hkey_index', freq_list', recency')
    BY <1>1, <2>1, <2>6 DEF Typed, TypeOK
  <2> QED  BY <1>1, <1>4, <2>1, <2>7, <2>11, <2>12, <2>13, <2>14, Preserved
<1>5. ASSUME capacity' = capacity, Clear PROVE CacheInvariant'
  <2>1. /\ entries' = [k \in Keys |-> None]
        /\ hkey_index' = [h \in Hkeys |-> {}]
        /\ freq_list' = [f \in Freqs |-> <<>>]
        /\ recency' = <<>> /\ count' = 0 /\ min_freq' = 1 /\ spinning' = spinning
    BY <1>5 DEF Clear
  <2>2. Live' = {}
    BY <2>1, NoneAssumption DEF Live
  <2>3. count' = Cardinality(Live')
    BY <2>1, <2>2, FS_EmptySet
  <2>4. QueuesExact' /\ HkeysExact' /\ AgesExact' /\ FirstUsed'
    BY <2>1, <2>2, EmptyExact DEF QueuesExact, HkeysExact, AgesExact, FirstUsed
  <2>5. Typed(entries', hkey_index', freq_list', recency')
    BY <2>1 DEF Typed
  <2> QED  BY <1>1, <1>5, <2>1, <2>3, <2>4, <2>5, Preserved
<1>6. CASE Next
  <2>1. capacity' = capacity
    BY <1>6 DEF Next
  <2>2. ASSUME NEW k \in Keys, NEW h \in Hkeys \cup {None}, Store(k, h) PROVE CacheInvariant'
    BY <2>1, <2>2, StoreStep
  <2>3. ASSUME NEW k \in Keys, LookupHit(k) PROVE CacheInvariant'
    BY <2>1, <2>3, HitStep
  <2>4. Expired \subseteq Live
    BY DEF Expired
  <2>5. ASSUME NEW P \in Selections, LookupHkey(P) PROVE CacheInvariant'
    BY <1>2, <2>1, <2>4, <2>5 DEF LookupHkey
  <2>6. ASSUME EvictExpired PROVE CacheInvariant'
    BY <1>2, <2>1, <2>4, <2>6 DEF EvictExpired
  <2> QED  BY <1>3, <1>4, <1>5, <1>6, <2>1, <2>2, <2>3, <2>5, <2>6 DEF Next
<1>7. CASE UNCHANGED vars
  <2>1. UNCHANGED <<capacity, entries, hkey_index, freq_list, recency, min_freq, count, spinning>>
    BY <1>7 DEF vars, indexes
  <2>2. Live' = Live
    BY <2>1 DEF Live
  <2>3. TypeOK'
    BY <1>1, <2>1 DEF TypeOK
  <2>4. IndexesExact' /\ AgesExact' /\ FirstUsed' /\ StoreEnds'
    BY <2>1, <2>2 DEF CacheInvariant, IndexesExact, AgesExact, FirstUsed, StoreEnds
  <2> QED  BY <2>3, <2>4 DEF CacheInvariant
<1> QED  BY <1>6, <1>7

\* The parts of the invariant, in every state.
LEMMA CacheAlways == Spec => []CacheInvariant
<1>1. Init => CacheInvariant
  <2> SUFFICES ASSUME Init PROVE CacheInvariant
    OBVIOUS
  <2>1. /\ entries = [k \in Keys |-> None]
        /\ hkey_index = [h \in Hkeys |-> {}]
        /\ freq_list = [f \in Freqs |-> <<>>]
        /\ recency = <<>> /\ count = 0 /\ min_freq = 1 /\ spinning = FALSE
        /\ capacity \in Capacities
    BY DEF Init
  <2>2. Live = {}
    BY <2>1, NoneAssumption DEF Live
  <2>3. capacity \in Nat /\ 1 \in Freqs
    BY <2>1, CacheAssumption DEF Freqs
  <2>4. TypeOK
    <3>1. /\ entries \in [Keys -> Entries \cup {None}] /\ hkey_index \in [Hkeys -> SUBSET Keys]
          /\ freq_list \in [Freqs -> Seq(Keys)] /\ recency \in Seq(Keys)
      BY <2>1
    <3>2. 0 \in 0..capacity
      BY <2>3
    <3>3. count \in 0..capacity /\ min_freq \in Freqs
      BY <2>1, <2>3, <3>2
    <3> QED  BY <2>1, <3>1, <3>3 DEF TypeOK
  <2>5. IndexesExact
    BY <2>1, <2>2, FS_EmptySet, EmptyExact DEF IndexesExact
  <2>6. AgesExact /\ FirstUsed /\ StoreEnds
    BY <2>1, <2>2, EmptyExact DEF AgesExact, FirstUsed, StoreEnds
  <2> QED  BY <2>4, <2>5, <2>6 DEF CacheInvariant
<1> QED  BY <1>1, CacheStep, PTL DEF Spec

\* Every variable holds values of its kind, and the cache is within its capacity
\* (cache.rs: store, evict_one).
THEOREM CacheTypeCorrect == Spec => []TypeOK
BY CacheAlways, PTL DEF CacheInvariant

\* The two indexes list every entry once, where its access count and its
\* hierarchical key say, and nothing else, and the entries are counted (cache.rs).
THEOREM IndexesAreExact == Spec => []IndexesExact
BY CacheAlways, PTL DEF CacheInvariant

\* A store() into a full cache of any positive capacity ends (evict_one of cache.rs).
THEOREM EveryStoreEnds == Spec => []StoreEnds
BY CacheAlways, PTL DEF CacheInvariant
-----------------------------------------------------------------------------
(* EvictsLeastUsed.                                                        *)

\* Who is live when an entry was inserted.
LEMMA InsertLive ==
    ASSUME TypeOK, NEW k \in Keys, NEW h \in Hkeys \cup {None}, NEW S, NEW list, NEW freq,
           Insert(k, h, S, list, freq)
    PROVE  Live' = (Live \ S) \cup {k}
<1>1. PICK new : new = [hkey |-> h, access_count |-> 1, expired |-> FALSE]
  OBVIOUS
<1>2. entries' = [x \in Keys |-> CASE x = k -> new
                                   [] x # k /\ x \in S -> None
                                   [] OTHER -> entries[x]]
  BY <1>1 DEF Insert
<1>3. new \in Entries
  BY <1>1, LiveFacts DEF Entries
<1>4. /\ entries'[k] = new
      /\ \A x \in Keys : x # k => entries'[x] = IF x \in S THEN None ELSE entries[x]
  BY <1>2
<1> QED  BY <1>3, <1>4, NoneAssumption DEF Live

\* Only a store() that evicts takes an entry and adds one.
LEMMA LiveChanges ==
    ASSUME CacheInvariant, Next
    PROVE  \/ Live' \subseteq Live \/ Live \subseteq Live'
           \/ Candidates # {} /\ \E k \in Keys : Live' = (Live \ {Victim}) \cup {k}
<1>1. TypeOK
  BY InvariantParts
<1>2. ASSUME NEW k \in Keys, NEW h \in Hkeys \cup {None}, Replace(k, h)
      PROVE  Live \subseteq Live'
  <2>1. Live' = (Live \ {k}) \cup {k}
    BY <1>1, <1>2, InsertLive DEF Replace
  <2> QED  BY <2>1
<1>3. ASSUME NEW k \in Keys, NEW h \in Hkeys \cup {None}, Add(k, h)
      PROVE  Live \subseteq Live'
  <2>1. Live' = (Live \ {}) \cup {k}
    BY <1>1, <1>3, InsertLive DEF Add
  <2> QED  BY <2>1
<1>4. ASSUME NEW k \in Keys, NEW h \in Hkeys \cup {None}, EvictAndAdd(k, h)
      PROVE  Candidates # {} /\ Live' = (Live \ {Victim}) \cup {k}
  <2> DEFINE list == [freq_list EXCEPT ![Min(Candidates)] = Tail(@)]
  <2>1. Candidates # {} /\ Insert(k, h, {Victim} \cap Live, list, Refreshed(list))
    BY <1>4 DEF EvictAndAdd
  <2> HIDE DEF list
  <2>2. Live' = (Live \ ({Victim} \cap Live)) \cup {k}
    BY <1>1, <2>1, InsertLive
  <2> QED  BY <2>1, <2>2
<1>5. ASSUME UNCHANGED entries PROVE Live' = Live
  BY <1>5 DEF Live
<1>6. ASSUME NEW k \in Keys, NEW h \in Hkeys \cup {None}, Store(k, h)
      PROVE  \/ Live \subseteq Live'
             \/ Candidates # {} /\ \E d \in Keys : Live' = (Live \ {Victim}) \cup {d}
  <2>1. CASE SearchForever(k)
    BY <1>5, <2>1 DEF SearchForever, indexes
  <2> QED  BY <1>2, <1>3, <1>4, <1>6, <2>1 DEF Store
<1>7. ASSUME NEW S, Removed(S) PROVE Live' \subseteq Live
  <2>1. \A x \in Keys : entries'[x] = entries[x] \/ entries'[x] = None
    BY <1>7 DEF Removed
  <2> QED  BY <2>1, NoneAssumption DEF Live
<1>8. ASSUME NEW k \in Live, NEW e, entries' = [entries EXCEPT ![k] = e]
      PROVE  Live' \subseteq Live
  <2>1. k \in Keys /\ entries \in [Keys -> Entries \cup {None}]
    BY <1>1, LiveFacts DEF TypeOK
  <2>2. \A x \in Keys : x # k => entries'[x] = entries[x]
    BY <1>8, <2>1
  <2> QED  BY <2>2 DEF Live
<1>9. ASSUME NEW k \in Keys, LookupHit(k) PROVE Live' \subseteq Live
  <2>1. k \in Live /\ entries' = [entries EXCEPT ![k].access_count = entries[k].access_count + 1]
    BY <1>9 DEF LookupHit
  <2>2. PICK e : e = [entries[k] EXCEPT !.access_count = entries[k].access_count + 1]
    OBVIOUS
  <2> QED  BY <1>8, <2>1, <2>2
<1>10. ASSUME NEW k \in Keys, Expire(k) PROVE Live' \subseteq Live
  <2>1. k \in Live /\ entries' = [entries EXCEPT ![k].expired = TRUE]
    BY <1>10 DEF Expire
  <2>2. PICK e : e = [entries[k] EXCEPT !.expired = TRUE]
    OBVIOUS
  <2> QED  BY <1>8, <2>1, <2>2
<1>11. ASSUME Clear PROVE Live' \subseteq Live
  <2>1. \A x \in Keys : entries'[x] = None
    BY <1>11 DEF Clear
  <2> QED  BY <2>1, NoneAssumption DEF Live
<1>12. ASSUME NEW k \in Keys, LookupExpired(k) \/ Delete(k) PROVE Live' \subseteq Live
  BY <1>7, <1>12 DEF LookupExpired, Delete
<1>13. ASSUME NEW P \in Selections, LookupHkey(P) PROVE Live' \subseteq Live
  BY <1>7, <1>13 DEF LookupHkey, Purge
<1>14. ASSUME EvictExpired PROVE Live' \subseteq Live
  BY <1>7, <1>14 DEF EvictExpired, Purge
<1> QED  BY <1>6, <1>9, <1>10, <1>11, <1>12, <1>13, <1>14 DEF Next

\* The order of ages.
LEMMA AgesOrder ==
    ASSUME NEW s \in Seq(Keys), IsInjective(s), NEW x \in Keys, NEW y \in Keys, Before(s, x, y),
           NEW m, m = CHOOSE i \in DOMAIN s : s[i] = x, NEW n, n = CHOOSE i \in DOMAIN s : s[i] = y
    PROVE  m < n
<1>1. PICK i \in DOMAIN s, j \in DOMAIN s : i < j /\ s[i] = x /\ s[j] = y
  BY DEF Before
<1>2. m \in DOMAIN s /\ s[m] = x /\ n \in DOMAIN s /\ s[n] = y
  BY <1>1
<1>3. m = i /\ n = j
  BY <1>1, <1>2 DEF IsInjective
<1> QED  BY <1>1, <1>3

\* The entry that is evicted is used least and, of those used least, longest ago.
LEMMA EvictionStep ==
    ASSUME CacheInvariant, Next, NEW k \in Keys, Evicted(k), NEW j \in Live, j # k
    PROVE  \/ entries[k].access_count < entries[j].access_count
           \/ /\ entries[k].access_count = entries[j].access_count
              /\ LastAccess(k) < LastAccess(j)
<1>1. k \in Live /\ k \notin Live' /\ \E d \in Keys : d \notin Live /\ d \in Live'
  BY DEF Evicted
<1>2. Candidates # {} /\ \E d \in Keys : Live' = (Live \ {Victim}) \cup {d}
  BY <1>1, LiveChanges
<1>3. k = Victim
  BY <1>1, <1>2
<1>4. /\ TypeOK /\ QueuesExact /\ AgesExact /\ Freqs \subseteq Nat
  BY InvariantParts
<1>5. PICK f \in Freqs :
        /\ freq_list[f] # <<>> /\ k = Head(freq_list[f])
        /\ entries[k].access_count = f /\ \A d \in Live : f <= entries[d].access_count
  BY <1>2, <1>3, VictimExact
<1>6. entries[j].access_count \in Freqs /\ j \in Keys
  BY <1>4, LiveFacts
<1>7. CASE entries[j].access_count = f
  <2>1. /\ freq_list[f] \in Seq(Keys) /\ IsInjective(freq_list[f]) /\ j \in ToSet(freq_list[f])
    BY <1>4, <1>7 DEF TypeOK, QueuesExact
  <2>2. Before(freq_list[f], k, j)
    BY <1>5, <2>1, TailExact
  <2>3. Before(recency, k, j) /\ IsInjective(recency) /\ recency \in Seq(Keys)
    BY <1>4, <1>6, <2>2 DEF AgesExact, TypeOK
  <2>4. LastAccess(k) < LastAccess(j)
    BY <1>6, <2>3, AgesOrder DEF LastAccess
  <2> QED  BY <1>5, <1>7, <2>4
<1>8. CASE entries[j].access_count # f
  <2>1. f <= entries[j].access_count /\ f \in Nat /\ entries[j].access_count \in Nat
    BY <1>4, <1>5, <1>6
  <2> QED  BY <1>5, <1>8, <2>1
<1> QED  BY <1>7, <1>8

\* The entry a store() evicts is the least frequently used one and, of those, the
\* one whose last access is the longest ago (evict_one, update_freq of cache.rs).
THEOREM LeastUsedAreEvicted == Spec => EvictsLeastUsed
<1>1. CacheInvariant /\ [Next]_vars =>
        [\A k \in Keys : Evicted(k) =>
            \A j \in Live \ {k} :
               \/ entries[k].access_count < entries[j].access_count
               \/ /\ entries[k].access_count = entries[j].access_count
                  /\ LastAccess(k) < LastAccess(j)]_vars
  BY EvictionStep
<1> QED  BY <1>1, CacheAlways, PTL DEF Spec, EvictsLeastUsed

-----------------------------------------------------------------------------
(* The pipe.                                                               *)

-----------------------------------------------------------------------------
(* Messages.                                                               *)

\* Lengths of requests are numbers, none of them what the server sees in a text.
LEMMA LengthType ==
    /\ TextAsLength \in Nat \ {0}
    /\ MaxMsg \in Nat \ {0} /\ MaxMsg < TextAsLength
    /\ \A n \in Sizes : n \in Nat \ {0} /\ n < TextAsLength
<1>1. TextAsLength \in Nat \ {0}
  BY SMT DEF TextAsLength
<1> QED
  BY <1>1, PipeAssumption

\* A message is a header and its text, and so is every beginning of it.
LEMMA MessageType ==
    ASSUME NEW req \in Requests
    PROVE  /\ Message(req) \in Seq(Groups)
           /\ Len(Message(req)) = req.size + 1
           /\ Message(req)[1] = [length |-> req.size, of |-> req]
           /\ \A n \in 2..Len(Message(req)) :
                 Message(req)[n] = [length |-> TextAsLength, of |-> req]
<1> DEFINE header == <<[length |-> req.size, of |-> req]>>
           text == [n \in 1..req.size |-> [length |-> TextAsLength, of |-> req]]
<1>1. req.size \in Sizes /\ req.size \in Nat \ {0}
  BY LengthType DEF Requests
<1>2. header \in Seq(Groups) /\ Len(header) = 1
  BY <1>1 DEF Groups
<1>3. text \in Seq(Groups) /\ Len(text) = req.size
  <2>1. text \in [1..req.size -> Groups]
    BY <1>1 DEF Groups
  <2> HIDE DEF text
  <2>2. text \in Seq(Groups)
    BY <1>1, <2>1
  <2>3. Len(text) \in Nat /\ 1..Len(text) = 1..req.size
    BY <2>1, <2>2, LenProperties
  <2> QED
    BY <1>1, <2>2, <2>3
<1>4. /\ header \o text \in Seq(Groups)
      /\ Len(header \o text) = 1 + req.size
      /\ \A n \in 1..(1 + req.size) :
            (header \o text)[n] = IF n <= 1 THEN header[n] ELSE text[n - 1]
  <2> HIDE DEF header, text
  <2>1. /\ header \o text \in Seq(Groups)
        /\ Len(header \o text) = Len(header) + Len(text)
        /\ \A n \in 1..(Len(header) + Len(text)) :
              (header \o text)[n] = IF n <= Len(header) THEN header[n]
                                     ELSE text[n - Len(header)]
    BY <1>2, <1>3, ConcatProperties, Zenon
  <2> QED
    BY <1>2, <1>3, <2>1
<1>5. Message(req) = header \o text
  BY DEF Message
<1> QED
  BY <1>1, <1>4, <1>5

\* What is left of the text of an instance when something was read from it.
LEMMA RestType ==
    ASSUME PipeTypeOK, NEW i \in Instances, toServer[i] # <<>>
    PROVE  /\ Announced(i) \in Nat \ {0}
           /\ ToRead(i) \in Nat
           /\ Rest(i) \in [Instances -> Seq(Groups)]
           /\ Head(toServer[i]).of \in Requests
<1>1. toServer[i] \in Seq(Groups)
  BY DEF PipeTypeOK
<1>2. Head(toServer[i]) \in Groups
  BY <1>1, HeadTailProperties
<1>3. Announced(i) \in Nat \ {0} /\ ToRead(i) \in Nat
  BY <1>2, LengthType DEF Announced, ToRead, Groups
<1>4. SubSeq(toServer[i], ToRead(i) + 2, Len(toServer[i])) \in Seq(Groups)
  <2>1. \A n \in (ToRead(i) + 2)..Len(toServer[i]) : toServer[i][n] \in Groups
    BY <1>1, <1>3, ElementOfSeq, LenProperties
  <2> QED
    BY <1>1, <1>3, <2>1, LenProperties, SubSeqProperties
<1> QED
  BY <1>2, <1>3, <1>4 DEF Rest, PipeTypeOK, Groups

-----------------------------------------------------------------------------
(* Types and permits.                                                      *)

\* A call under way has a request, its own.
Underway ==
    \A c \in Clients :
        stage[c] # "idle" => /\ request[c] \in Requests
                             /\ request[c].id = Id(c)
                             /\ calls[c] \in 1..MaxCalls[c]

Busy == {i \in Instances : task[i] # "none"}

PermitInv == PipeTypeOK /\ Underway /\ PermitsExact

\* A task more or less is a busy instance more or less.
LEMMA BusyCount ==
    ASSUME PipeTypeOK
    PROVE  /\ IsFiniteSet(Busy) /\ Cardinality(Busy) \in Nat
           /\ \A i \in Instances :
                 /\ task[i] = "none" =>
                       Cardinality(Busy \cup {i}) = Cardinality(Busy) + 1
                 /\ task[i] # "none" =>
                       Cardinality(Busy \ {i}) = Cardinality(Busy) - 1
<1>1. IsFiniteSet(Instances)
  BY FS_Interval, PipeAssumption DEF Instances
<1>2. IsFiniteSet(Busy)
  BY <1>1, FS_Subset DEF Busy
<1> QED
  BY <1>2, FS_CardinalityType, FS_AddElement, FS_RemoveElement DEF Busy

LEMMA IdType ==
    /\ \A c \in Clients : \A n \in 1..MaxCalls[c] : <<c, n>> \in Ids
    /\ \A id \in Ids : id = <<id[1], id[2]>> /\ id[1] \in Clients
                       /\ id[2] \in 1..MaxCalls[id[1]]
BY DEF Ids

\* The end of a task keeps the types and returns the permit.
LEMMA EndedPermit ==
    ASSUME PermitInv, NEW i \in Instances, task[i] # "none", Ended(i)
    PROVE  /\ permits' \in Nat
           /\ permits' + (IF main = "acquire" THEN 0 ELSE 1)
                + Cardinality({j \in Instances : task'[j] # "none"})
              = MaxInstances
           /\ task' \in [Instances -> {"none", "listening", "taken", "serving"}]
           /\ peer' \in [Instances -> Clients \cup {Nothing}]
           /\ toServer' \in [Instances -> Seq(Groups)]
           /\ toClient' \in [Instances -> Seq(Answers)]
<1>1. {j \in Instances : task'[j] # "none"} = Busy \ {i}
  BY DEF Ended, Busy, PermitInv, PipeTypeOK
<1>2. Cardinality(Busy \ {i}) = Cardinality(Busy) - 1 /\ Cardinality(Busy) \in Nat
  BY BusyCount DEF PermitInv
<1>3. permits' + (IF main = "acquire" THEN 0 ELSE 1) + (Cardinality(Busy) - 1)
        = MaxInstances
  BY <1>2, PipeAssumption DEF Ended, PermitInv, PermitsExact, Busy, PipeTypeOK
<1>4. /\ permits' \in Nat
      /\ task' \in [Instances -> {"none", "listening", "taken", "serving"}]
      /\ peer' \in [Instances -> Clients \cup {Nothing}]
  BY PipeAssumption DEF Ended, PermitInv, PipeTypeOK
<1>5. <<>> \in Seq(Groups) /\ <<>> \in Seq(Answers)
  BY EmptySeq
<1>6. /\ toServer' \in [Instances -> Seq(Groups)]
      /\ toClient' \in [Instances -> Seq(Answers)]
  BY <1>5 DEF Ended, PermitInv, PipeTypeOK
<1> QED
  BY <1>1, <1>2, <1>3, <1>4, <1>6

\* A call that returns leaves types and requests as they should be.
LEMMA ReturnsType ==
    ASSUME PermitInv, NEW c \in Clients, NEW result \in Outcomes,
           Returns(c, result)
    PROVE  /\ calls' = calls
           /\ request' \in [Clients -> Requests \cup {Nothing}]
           /\ stage' \in [Clients -> {"idle", "opened", "waiting"}]
           /\ outcome' \in [Ids -> Outcomes \cup {Nothing}]
           /\ peer' \in [Instances -> Clients \cup {Nothing}]
           /\ Underway'
BY DEF Returns, PermitInv, PipeTypeOK, Underway, Id

\* Nothing a client does touches the permits.
LEMMA ClientKeepsPermits ==
    ASSUME PermitInv, NEW c \in Clients, ClientStep(c)
    PROVE  PermitInv'
<1> USE DEF PermitInv
<1>1. CASE Open(c)
  <2>1. <<c, calls[c] + 1>> \in Ids /\ calls[c] + 1 \in 1..MaxCalls[c]
    <3>1. calls[c] \in Nat /\ MaxCalls[c] \in Nat /\ calls[c] < MaxCalls[c]
      <4>1. calls[c] \in Nat /\ MaxCalls[c] \in Nat
        BY PipeAssumption DEF PipeTypeOK
      <4> QED
        BY <1>1, <4>1 DEF Open, PipeTypeOK
    <3>2. calls[c] + 1 \in 1..MaxCalls[c]
      BY <3>1
    <3> QED
      BY <3>2, IdType
  <2>2. calls' = [calls EXCEPT ![c] = @ + 1] /\ calls[c] \in Nat
    BY <1>1 DEF Open, PipeTypeOK
  <2>3. calls' \in [Clients -> Nat] /\ \A d \in Clients : calls'[d] <= MaxCalls[d]
    BY <1>1, <2>1 DEF Open, PipeTypeOK
  <2>4. CASE \E i \in Instances : task[i] = "listening"
    <3>1. PICK i \in Instances :
             /\ task[i] = "listening"
             /\ task' = [task EXCEPT ![i] = "taken"]
             /\ peer' = [peer EXCEPT ![i] = c]
             /\ stage' = [stage EXCEPT ![c] = "opened"]
             /\ \E req \in Requests :
                   /\ req.id = <<c, calls[c] + 1>>
                   /\ request' = [request EXCEPT ![c] = req]
             /\ UNCHANGED outcome
      BY <1>1, <2>4 DEF Open
    <3>2. PipeTypeOK'
      BY <1>1, <2>3, <3>1 DEF Open, PipeTypeOK, server
    <3>3. Underway'
      <4> SUFFICES ASSUME NEW d \in Clients, stage'[d] # "idle"
                   PROVE  /\ request'[d] \in Requests
                          /\ request'[d].id = Id(d)'
                          /\ calls'[d] \in 1..MaxCalls[d]
        BY DEF Underway
      <4>1. CASE d = c
        <5>1. PICK req \in Requests :
                 /\ req.id = <<c, calls[c] + 1>>
                 /\ request' = [request EXCEPT ![c] = req]
          BY <3>1
        <5>2. request'[c] = req /\ calls'[c] = calls[c] + 1
          BY <2>2, <5>1 DEF PipeTypeOK, Open
        <5> QED
          BY <2>1, <4>1, <5>1, <5>2 DEF Id
      <4>2. CASE d # c
        BY <2>2, <3>1, <4>2 DEF PipeTypeOK, Underway, Id
      <4> QED
        BY <4>1, <4>2
    <3>4. {j \in Instances : task'[j] # "none"} = {j \in Instances : task[j] # "none"}
      BY <3>1 DEF PipeTypeOK
    <3> QED
      BY <1>1, <3>2, <3>3, <3>4 DEF PermitsExact, Open, server
  <2>5. CASE ~\E i \in Instances : task[i] = "listening"
    <3>1. /\ outcome' = [outcome EXCEPT ![<<c, calls[c] + 1>>] = Failed]
          /\ UNCHANGED <<request, stage, task, peer>>
      BY <1>1, <2>5 DEF Open
    <3>2. PipeTypeOK'
      BY <1>1, <2>3, <3>1 DEF Open, PipeTypeOK, server, Outcomes
    <3>3. Underway'
      <4> SUFFICES ASSUME NEW d \in Clients, stage'[d] # "idle"
                   PROVE  /\ request'[d] \in Requests
                          /\ request'[d].id = Id(d)'
                          /\ calls'[d] \in 1..MaxCalls[d]
        BY DEF Underway
      <4>1. d # c
        BY <1>1, <3>1 DEF Open
      <4> QED
        BY <2>2, <3>1, <4>1 DEF PipeTypeOK, Underway, Id
    <3> QED
      BY <1>1, <3>1, <3>2, <3>3 DEF PermitsExact, Open, server
  <2> QED
    BY <2>4, <2>5
<1>2. CASE Write(c)
  <2>1. request[c] \in Requests
    BY <1>2 DEF Write, Underway
  <2>2. \A i \in Instances : toServer[i] \o Message(request[c]) \in Seq(Groups)
    BY <2>1, MessageType, ConcatProperties DEF PipeTypeOK
  <2>3. toServer' \in [Instances -> Seq(Groups)]
    BY <1>2, <2>2 DEF Write, Link, PipeTypeOK
  <2>4. PipeTypeOK'
    BY <1>2, <2>3 DEF Write, PipeTypeOK, server
  <2>5. Underway'
    BY <1>2 DEF Write, Underway, Id, PipeTypeOK
  <2> QED
    BY <1>2, <2>4, <2>5 DEF PermitsExact, Write, server
<1>3. CASE Read(c)
  <2>1. PICK i \in Link(c) :
           /\ toClient[i] # <<>>
           /\ Returns(c, IF Head(toClient[i]).large THEN Failed
                         ELSE Head(toClient[i]))
    BY <1>3 DEF Read
  <2>2. Head(toClient[i]) \in Answers
    BY <2>1, HeadTailProperties DEF Link, PipeTypeOK
  <2>3. (IF Head(toClient[i]).large THEN Failed ELSE Head(toClient[i])) \in Outcomes
    BY <2>2 DEF Outcomes
  <2>4. PipeTypeOK' /\ Underway'
    BY <1>3, <2>1, <2>3, ReturnsType DEF Read, PipeTypeOK, server
  <2> QED
    BY <1>3, <2>4 DEF PermitsExact, Read, server
<1>4. CASE Broken(c)
  <2>1. PipeTypeOK' /\ Underway'
    BY <1>4, ReturnsType DEF Broken, PipeTypeOK, server, Outcomes
  <2> QED
    BY <1>4, <2>1 DEF PermitsExact, Broken, server
<1>5. CASE GoesAway(c)
  <2>1. request[c] \in Requests
    BY <1>5 DEF GoesAway, Underway
  <2>2. \A i \in Instances, n \in 1..request[c].size :
           toServer[i] \o SubSeq(Message(request[c]), 1, n) \in Seq(Groups)
    <3> TAKE i \in Instances, n \in 1..request[c].size
    <3>1. SubSeq(Message(request[c]), 1, n) \in Seq(Groups)
      <4>1. \A k \in 1..n : Message(request[c])[k] \in Groups
        <5> TAKE k \in 1..n
        <5>1. request[c].size \in Nat
          BY <2>1, LengthType DEF Requests
        <5>2. Len(Message(request[c])) = request[c].size + 1
          BY <2>1, MessageType
        <5>3. k \in 1..Len(Message(request[c]))
          BY <5>1, <5>2
        <5> QED
          BY <2>1, <5>3, MessageType, ElementOfSeq
      <4> QED
        BY <4>1, SubSeqProperties
    <3> QED
      BY <3>1, ConcatProperties DEF PipeTypeOK
  <2>3. toServer' \in [Instances -> Seq(Groups)]
    <3>1. CASE UNCHANGED toServer
      BY <3>1 DEF PipeTypeOK
    <3>2. CASE \E i \in Link(c), n \in 1..request[c].size :
                  toServer' = [toServer EXCEPT
                      ![i] = @ \o SubSeq(Message(request[c]), 1, n)]
      <4>1. PICK i \in Instances, n \in 1..request[c].size :
               toServer' = [toServer EXCEPT
                   ![i] = toServer[i] \o SubSeq(Message(request[c]), 1, n)]
        BY <3>2 DEF Link
      <4> QED
        BY <2>2, <4>1 DEF PipeTypeOK
    <3> QED
      BY <1>5, <3>1, <3>2 DEF GoesAway
  <2>4. faults' \in 0..MaxFaults
    BY <1>5, PipeAssumption DEF GoesAway, Fault, PipeTypeOK
  <2>5. PipeTypeOK' /\ Underway'
    BY <1>5, <2>3, <2>4, ReturnsType DEF GoesAway, PipeTypeOK, server, Outcomes
  <2> QED
    BY <1>5, <2>5 DEF PermitsExact, GoesAway, server
<1> QED
  BY <1>1, <1>2, <1>3, <1>4, <1>5 DEF ClientStep

\* The main loop takes a permit for what it is about to create, hands it to the
\* task with the instance, or gives it back.
LEMMA MainKeepsPermits ==
    ASSUME PermitInv, MainStep
    PROVE  PermitInv'
<1> USE DEF PermitInv
<1>1. Underway'
  BY DEF MainStep, Acquire, Create, CreateFails, Retry, client, Underway, Id
<1>2. Cardinality(Busy) \in Nat /\ permits \in Nat /\ MaxInstances \in Nat
  BY BusyCount, PipeAssumption DEF PipeTypeOK
<1>3. permits + (IF main = "acquire" THEN 0 ELSE 1) + Cardinality(Busy) = MaxInstances
  BY DEF PermitsExact, Busy
<1>4. CASE Acquire
  <2>1. PipeTypeOK'
    BY <1>2, <1>4 DEF Acquire, PipeTypeOK, client, pipes
  <2>2. Busy' = Busy
    BY <1>4 DEF Acquire, Busy, pipes
  <2>3. permits' + (IF main' = "acquire" THEN 0 ELSE 1) + Cardinality(Busy) = MaxInstances
    BY <1>2, <1>3, <1>4 DEF Acquire
  <2> QED
    BY <1>1, <2>1, <2>2, <2>3 DEF PermitsExact, Busy
<1>5. CASE Create
  <2>1. PICK i \in Instances :
           task[i] = "none" /\ task' = [task EXCEPT ![i] = "listening"]
    BY <1>5 DEF Create
  <2>2. PipeTypeOK'
    BY <1>5, <2>1 DEF Create, PipeTypeOK, client
  <2>3. Busy' = Busy \cup {i}
    BY <2>1 DEF Busy, PipeTypeOK
  <2>4. Cardinality(Busy') = Cardinality(Busy) + 1
    BY <2>1, <2>3, BusyCount
  <2>5. permits' + (IF main' = "acquire" THEN 0 ELSE 1) + Cardinality(Busy') = MaxInstances
    BY <1>2, <1>3, <1>5, <2>4 DEF Create
  <2> QED
    BY <1>1, <2>2, <2>5 DEF PermitsExact, Busy
<1>6. CASE CreateFails
  <2>1. PipeTypeOK'
    BY <1>6, PipeAssumption DEF CreateFails, Fault, PipeTypeOK, client, pipes
  <2>2. Busy' = Busy
    BY <1>6 DEF CreateFails, Busy, pipes
  <2>3. permits' + (IF main' = "acquire" THEN 0 ELSE 1) + Cardinality(Busy) = MaxInstances
    BY <1>2, <1>3, <1>6 DEF CreateFails
  <2> QED
    BY <1>1, <2>1, <2>2, <2>3 DEF PermitsExact, Busy
<1>7. CASE Retry
  <2>1. Busy' = Busy
    BY <1>7 DEF Retry, Busy, pipes
  <2>2. permits' + (IF main' = "acquire" THEN 0 ELSE 1) + Cardinality(Busy) = MaxInstances
    BY <1>2, <1>3, <1>7 DEF Retry
  <2>3. permits' \in 0..MaxInstances
    BY <1>2, <1>3, <1>7 DEF Retry
  <2>4. PipeTypeOK'
    BY <1>7, <2>3 DEF Retry, PipeTypeOK, client, pipes
  <2> QED
    BY <1>1, <2>1, <2>2, <2>4 DEF PermitsExact, Busy
<1> QED
  BY <1>4, <1>5, <1>6, <1>7 DEF MainStep

\* The rest of a text is a text; nothing else of the types is concerned.
LEMMA RestPermit ==
    ASSUME PermitInv, NEW i \in Instances, toServer[i] # <<>>,
           toServer' = Rest(i),
           toClient' \in [Instances -> Seq(Answers)],
           applied' \in [Ids -> Nat],
           UNCHANGED <<client, server, task, peer, faults>>
    PROVE  PermitInv'
<1>1. PipeTypeOK'
  BY RestType DEF PermitInv, PipeTypeOK, client, server
<1>2. Underway' /\ PermitsExact'
  BY DEF PermitInv, Underway, PermitsExact, Id, client, server
<1> QED
  BY <1>1, <1>2 DEF PermitInv

\* The end of a task returns its permit.
LEMMA EndedKeepsPermits ==
    ASSUME PermitInv, NEW i \in Instances, task[i] # "none", Ended(i),
           applied' \in [Ids -> Nat],
           UNCHANGED <<client, up, main, faults>>
    PROVE  PermitInv'
<1>1. permits' \in 0..MaxInstances
  <2>1. Cardinality({j \in Instances : task'[j] # "none"}) \in Nat
    <3>1. IsFiniteSet(Instances)
      BY FS_Interval, PipeAssumption DEF Instances
    <3>2. IsFiniteSet({j \in Instances : task'[j] # "none"})
      BY <3>1, FS_Subset
    <3> QED
      BY <3>2, FS_CardinalityType
  <2> QED
    BY <2>1, EndedPermit, PipeAssumption
<1>2. PipeTypeOK'
  BY <1>1, EndedPermit DEF PermitInv, PipeTypeOK, client
<1>3. Underway'
  BY DEF PermitInv, Underway, Id, client
<1>4. PermitsExact'
  BY EndedPermit DEF PermitsExact
<1> QED
  BY <1>2, <1>3, <1>4 DEF PermitInv

\* A task keeps its permit until it ends.
LEMMA TaskKeepsPermits ==
    ASSUME PermitInv, NEW i \in Instances, TaskStep(i)
    PROVE  PermitInv'
<1> USE DEF PermitInv
<1>0. applied \in [Ids -> Nat]
  BY DEF PipeTypeOK
<1>1. CASE Connected(i)
  <2>1. CASE Ended(i)
    BY <1>0, <1>1, <2>1, EndedKeepsPermits DEF Connected
  <2>2. CASE /\ task' = [task EXCEPT ![i] = "serving"]
             /\ UNCHANGED <<permits, peer, toServer, toClient>>
    <3>1. PipeTypeOK' /\ Underway'
      BY <1>1, <2>2 DEF Connected, PipeTypeOK, Underway, Id, client
    <3>2. {j \in Instances : task'[j] # "none"} = {j \in Instances : task[j] # "none"}
      BY <1>1, <2>2 DEF Connected, PipeTypeOK
    <3> QED
      BY <1>1, <2>2, <3>1, <3>2 DEF Connected, PermitsExact
  <2> QED
    BY <1>1, <2>1, <2>2 DEF Connected
<1>2. CASE Drain(i)
  BY <1>0, <1>2, RestPermit DEF Drain, Complete, PipeTypeOK
<1>3. CASE Serve(i)
  <2> DEFINE req == Head(toServer[i]).of
             garbled == [id |-> Nothing, large |-> FALSE]
  <2>1. req \in Requests /\ req.id \in Ids /\ toServer[i] # <<>> /\ task[i] # "none"
    BY <1>3, RestType DEF Serve, Complete, Requests
  <2>2. ASSUME NEW answer \in Answers, Respond(i, answer), applied' \in [Ids -> Nat]
        PROVE  PermitInv'
    <3>1. UNCHANGED <<client, up, main, faults>>
      BY <1>3 DEF Serve
    <3>2. CASE peer[i] = Nothing
      BY <2>1, <2>2, <3>1, <3>2, EndedKeepsPermits DEF Respond
    <3>3. CASE peer[i] # Nothing
      <4>1. /\ toClient' = [toClient EXCEPT ![i] = Append(@, answer)]
            /\ toServer' = Rest(i)
            /\ UNCHANGED <<permits, task, peer>>
        BY <2>2, <3>3 DEF Respond
      <4>2. toClient' \in [Instances -> Seq(Answers)]
        BY <4>1 DEF PipeTypeOK
      <4> QED
        BY <2>1, <2>2, <3>1, <4>1, <4>2, RestPermit DEF server
    <3> QED
      BY <3>2, <3>3
  <2>3. CASE /\ applied' = [applied EXCEPT ![req.id] = @ + 1]
             /\ \E large \in BOOLEAN : Respond(i, [id |-> req.id, large |-> large])
    <3>1. applied' \in [Ids -> Nat]
      BY <1>0, <2>1, <2>3
    <3>2. PICK large \in BOOLEAN : Respond(i, [id |-> req.id, large |-> large])
      BY <2>3
    <3>3. [id |-> req.id, large |-> large] \in Answers
      BY <2>1, <3>2 DEF Answers
    <3> QED
      BY <2>2, <3>1, <3>2, <3>3
  <2>4. CASE (Respond(i, garbled) \/ Ended(i)) /\ UNCHANGED applied
    <3>1. garbled \in Answers
      BY DEF Answers
    <3>2. CASE Respond(i, garbled)
      BY <1>0, <2>2, <2>4, <3>1, <3>2
    <3>3. CASE Ended(i)
      BY <1>0, <1>3, <2>1, <2>4, <3>3, EndedKeepsPermits DEF Serve
    <3> QED
      BY <2>4, <3>2, <3>3
  <2> QED
    BY <1>3, <2>3, <2>4 DEF Serve
<1>4. CASE Disconnected(i)
  BY <1>0, <1>4, EndedKeepsPermits DEF Disconnected
<1> QED
  BY <1>1, <1>2, <1>3, <1>4 DEF TaskStep

\* A daemon that died has all its permits when it starts again.
LEMMA CrashKeepsPermits ==
    ASSUME PermitInv, Crash \/ Restart
    PROVE  PermitInv'
<1> USE DEF PermitInv
<1>1. CASE Crash
  <2>1. PipeTypeOK'
    <3>1. permits' \in 0..MaxInstances /\ faults' \in 0..MaxFaults
      BY <1>1, PipeAssumption DEF Crash, Fault, PipeTypeOK
    <3>2. /\ toServer' \in [Instances -> Seq(Groups)]
          /\ toClient' \in [Instances -> Seq(Answers)]
      BY <1>1, EmptySeq DEF Crash
    <3>3. /\ task' \in [Instances -> {"none", "listening", "taken", "serving"}]
          /\ peer' \in [Instances -> Clients \cup {Nothing}]
      BY <1>1 DEF Crash
    <3> QED
      BY <1>1, <3>1, <3>2, <3>3 DEF Crash, PipeTypeOK, client
  <2>2. Underway'
    BY <1>1 DEF Crash, Underway, Id, client
  <2>3. {j \in Instances : task'[j] # "none"} = {}
    BY <1>1 DEF Crash
  <2>4. Cardinality({j \in Instances : task'[j] # "none"}) = 0
    BY <2>3, FS_EmptySet
  <2> QED
    BY <1>1, <2>1, <2>2, <2>4, PipeAssumption DEF Crash, PermitsExact
<1>2. CASE Restart
  BY <1>2 DEF Restart, PipeTypeOK, Underway, PermitsExact, Id, client, pipes
<1> QED
  BY <1>1, <1>2

LEMMA PermitInit ==
    PipeInit => PermitInv
<1> SUFFICES ASSUME PipeInit PROVE PermitInv
  OBVIOUS
<1>1. PipeTypeOK
  BY PipeAssumption, EmptySeq DEF PipeInit, PipeTypeOK
<1>2. {i \in Instances : task[i] # "none"} = {}
  BY DEF PipeInit
<1>3. PermitsExact
  <2>1. Cardinality({i \in Instances : task[i] # "none"}) = 0
    BY <1>2, FS_EmptySet
  <2> QED
    BY <2>1, PipeAssumption DEF PipeInit, PermitsExact
<1> QED
  BY <1>1, <1>3 DEF PermitInv, PipeInit, Underway

LEMMA PermitStep ==
    PermitInv /\ [PipeNext]_pipeVars => PermitInv'
<1> SUFFICES ASSUME PermitInv, [PipeNext]_pipeVars PROVE PermitInv'
  OBVIOUS
<1>1. CASE UNCHANGED pipeVars
  BY <1>1 DEF pipeVars, client, server, pipes, PermitInv, PipeTypeOK, Underway, PermitsExact, Id
<1>2. CASE PipeNext
  BY <1>2, ClientKeepsPermits, MainKeepsPermits, TaskKeepsPermits, CrashKeepsPermits
     DEF PipeNext
<1> QED
  BY <1>1, <1>2

\* Every variable of the pipe and of its clients holds values of its kind.
THEOREM PipeTypeCorrect ==
    PipeSpec => []PipeTypeOK
<1>1. PipeSpec => []PermitInv
  BY PermitInit, PermitStep, PTL DEF PipeSpec
<1>2. PermitInv => PipeTypeOK
  BY DEF PermitInv
<1> QED
  BY <1>1, <1>2, PTL

\* No permit is ever lost or made up, whichever way creations and tasks end.
THEOREM PermitsAreExact ==
    PipeSpec => []PermitsExact
<1>1. PipeSpec => []PermitInv
  BY PermitInit, PermitStep, PTL DEF PipeSpec
<1>2. PermitInv => PermitsExact
  BY DEF PermitInv
<1> QED
  BY <1>1, <1>2, PTL

-----------------------------------------------------------------------------
(* Answers.                                                                *)

\* The next group in an instance is the header of a message, and whose.
Heads(i) == toServer[i] # <<>> /\ Head(toServer[i]).length # TextAsLength
HeadId(i) == Head(toServer[i]).of.id

\* A call is settled when its message is neither to be written nor to be read.
Pending(id) == \E i \in Instances : Heads(i) /\ HeadId(i) = id
Unsent(id) ==
    \/ id[2] > calls[id[1]]
    \/ id[2] = calls[id[1]] /\ stage[id[1]] = "opened"
Settled(id) == ~Pending(id) /\ ~Unsent(id)

IsAnswer(a, id) ==
    \/ a.id = id /\ applied[id] = 1
    \/ a.id = Nothing /\ applied[id] = 0

\* Only the first group in an instance may be a header.
TextsInOrder ==
    \A i \in Instances : \A n \in 2..Len(toServer[i]) :
        toServer[i][n].length = TextAsLength

\* No message is in two instances.
OneHeader ==
    \A i, j \in Instances :
        Heads(i) /\ Heads(j) /\ HeadId(i) = HeadId(j) => i = j

\* A request is processed once, when its message is read.
AppliedOnce ==
    \A id \in Ids : /\ applied[id] \in {0, 1}
                    /\ Pending(id) => ~Unsent(id)
                    /\ ~Settled(id) => applied[id] = 0

\* What a call returned remains its answer.
OutcomesSettled ==
    \A id \in Ids :
        outcome[id] \in Answers => IsAnswer(outcome[id], id) /\ Settled(id)

\* The instance a client holds has its message and its answer, nothing else.
HeldBy(c, i) ==
    /\ stage[c] # "idle"
    /\ stage[c] = "opened" => toServer[i] = <<>> /\ toClient[i] = <<>>
    /\ \A n \in 1..Len(toServer[i]) : toServer[i][n].of.id = Id(c)
    /\ \A n \in 1..Len(toClient[i]) :
          IsAnswer(toClient[i][n], Id(c)) /\ Settled(Id(c))
    /\ \A j \in Instances : peer[j] = c => j = i

Held == \A i \in Instances : peer[i] # Nothing => HeldBy(peer[i], i)

\* An instance without a client so far is empty.
Clean ==
    \A i \in Instances :
        task[i] \in {"none", "listening"} =>
            peer[i] = Nothing /\ toServer[i] = <<>> /\ toClient[i] = <<>>

AnswerInv ==
    /\ PermitInv
    /\ TextsInOrder /\ OneHeader /\ AppliedOnce
    /\ OutcomesSettled /\ Held /\ Clean

LEMMA FailedIsNoAnswer ==
    Failed \notin Answers
<1>1. DOMAIN Failed = {"error"}
  BY DEF Failed
<1>2. \A a \in Answers : DOMAIN a = {"id", "large"}
  BY DEF Answers
<1>3. {"error"} # {"id", "large"}
  OBVIOUS
<1> QED
  BY <1>1, <1>2, <1>3

\* The head of a sequence is its first element.
LEMMA HeadIsFirst ==
    \A s \in Seq(Groups) :
        /\ Len(s) \in Nat \ {0} <=> s # <<>>
        /\ s # <<>> => Head(s) = s[1]
BY EmptySeq

\* The head of an instance is its first group, of a call under way or past.
LEMMA HeadType ==
    ASSUME PipeTypeOK, NEW i \in Instances, toServer[i] # <<>>
    PROVE  /\ Len(toServer[i]) \in Nat \ {0}
           /\ Head(toServer[i]) = toServer[i][1]
           /\ HeadId(i) \in Ids
<1>1. toServer[i] \in Seq(Groups)
  BY DEF PipeTypeOK
<1>2. Len(toServer[i]) \in Nat \ {0}
  BY <1>1, EmptySeq
<1>3. HeadId(i) \in Ids
  BY RestType DEF HeadId, Requests
<1> QED
  BY <1>1, <1>2, <1>3

\* Nothing about answers changes with what they do not depend on.
LEMMA Undisturbed ==
    ASSUME AnswerInv, UNCHANGED <<client, peer, toServer, toClient, applied>>
    PROVE  /\ TextsInOrder' /\ OneHeader' /\ AppliedOnce' /\ OutcomesSettled'
           /\ Held'
<1> USE DEF AnswerInv
<1>1. TextsInOrder'
  BY DEF TextsInOrder
<1>2. \A i \in Instances : (Heads(i)' <=> Heads(i)) /\ HeadId(i)' = HeadId(i)
  BY DEF Heads, HeadId
<1>3. OneHeader'
  BY <1>2 DEF OneHeader
<1>4. \A id \in Ids : (Pending(id)' <=> Pending(id)) /\ (Unsent(id)' <=> Unsent(id))
  BY <1>2 DEF Pending, Unsent, client
<1>5. \A id \in Ids : Settled(id)' <=> Settled(id)
  BY <1>4 DEF Settled
<1>6. AppliedOnce'
  BY <1>4, <1>5 DEF AppliedOnce
<1>7. OutcomesSettled'
  BY <1>5 DEF OutcomesSettled, IsAnswer, client
<1>8. Held'
  <2> SUFFICES ASSUME NEW j \in Instances, peer[j] # Nothing
               PROVE  HeldBy(peer[j], j)'
    BY DEF Held
  <2>1. HeldBy(peer[j], j) /\ peer[j] \in Clients
    BY DEF Held, PermitInv, PipeTypeOK
  <2>2. Id(peer[j]) \in Ids /\ Id(peer[j])' = Id(peer[j])
    BY <2>1, IdType DEF PermitInv, Underway, HeldBy, Id, client
  <2>3. \A n \in 1..Len(toClient[j]) :
           IsAnswer(toClient[j][n], Id(peer[j])) /\ Settled(Id(peer[j]))
    BY <2>1 DEF HeldBy
  <2> QED
    BY <1>5, <2>1, <2>2, <2>3 DEF HeldBy, IsAnswer, client
<1> QED
  BY <1>1, <1>3, <1>6, <1>7, <1>8

\* Reading or dropping what is in an instance, with or without an effect on the
\* call whose header was there, leaves everything else about answers alone.
LEMMA Consumed ==
    ASSUME AnswerInv, NEW i \in Instances,
           UNCHANGED client,
           \/ toServer' = [toServer EXCEPT ![i] = <<>>]
           \/ toServer[i] # <<>> /\ toServer' = Rest(i),
           applied' \in [Ids -> Nat],
           \A id \in Ids : \/ applied'[id] = applied[id]
                           \/ Heads(i) /\ HeadId(i) = id /\ applied'[id] = 1
    PROVE  /\ TextsInOrder' /\ OneHeader' /\ AppliedOnce' /\ OutcomesSettled'
           /\ \A j \in Instances \ {i} : toServer'[j] = toServer[j]
           /\ \A n \in 1..Len(toServer'[i]) : \E m \in 1..Len(toServer[i]) :
                 toServer'[i][n] = toServer[i][m]
           /\ \A id \in Ids : Settled(id) => Settled(id)' /\ applied'[id] = applied[id]
           /\ \A id \in Ids : Heads(i) /\ HeadId(i) = id => Settled(id)'
<1> USE DEF AnswerInv, PermitInv
<1>1. \A j \in Instances \ {i} : toServer'[j] = toServer[j]
  BY DEF Rest, PipeTypeOK
<1>2. /\ toServer'[i] \in Seq(Groups)
      /\ \A n \in 1..Len(toServer'[i]) : \E m \in 2..Len(toServer[i]) :
            toServer'[i][n] = toServer[i][m]
  <2>1. CASE toServer' = [toServer EXCEPT ![i] = <<>>]
    <3>1. toServer'[i] = <<>>
      BY <2>1 DEF PipeTypeOK
    <3> QED
      BY <3>1, EmptySeq
  <2>2. CASE toServer[i] # <<>> /\ toServer' = Rest(i)
    <3> DEFINE k == ToRead(i) + 2
               l == Len(toServer[i])
    <3>1. toServer'[i] = SubSeq(toServer[i], k, l)
      BY <2>2 DEF Rest, PipeTypeOK
    <3>2. k \in Nat /\ k >= 2 /\ l \in Nat
      BY <2>2, RestType, HeadType
    <3>3. toServer[i] \in Seq(Groups)
      BY DEF PipeTypeOK
    <3>4. \A n \in k..l : toServer[i][n] \in Groups
      BY <3>2, <3>3, ElementOfSeq
    <3> HIDE DEF k, l
    <3>5. /\ SubSeq(toServer[i], k, l) \in Seq(Groups)
          /\ Len(SubSeq(toServer[i], k, l)) = IF k <= l THEN l - k + 1 ELSE 0
          /\ \A n \in 1..(l - k + 1) :
                SubSeq(toServer[i], k, l)[n] = toServer[i][k + n - 1]
      BY <3>2, <3>4, SubSeqProperties
    <3>6. ASSUME NEW n \in 1..Len(toServer'[i])
          PROVE  k + n - 1 \in 2..l /\ toServer'[i][n] = toServer[i][k + n - 1]
      BY <3>1, <3>2, <3>5, <3>6
    <3> QED
      BY <3>1, <3>5, <3>6 DEF l
  <2> QED
    BY <2>1, <2>2
<1>3. \A n \in 1..Len(toServer'[i]) : toServer'[i][n].length = TextAsLength
  BY <1>2 DEF TextsInOrder
<1>4. ~Heads(i)'
  <2>1. CASE toServer'[i] = <<>>
    BY <2>1 DEF Heads
  <2>2. CASE toServer'[i] # <<>>
    <3>1. Len(toServer'[i]) \in Nat \ {0} /\ Head(toServer'[i]) = toServer'[i][1]
      BY <1>2, <2>2, EmptySeq
    <3> QED
      BY <1>3, <3>1 DEF Heads
  <2> QED
    BY <2>1, <2>2
<1>5. \A j \in Instances : Heads(j)' => j # i /\ Heads(j) /\ HeadId(j)' = HeadId(j)
  BY <1>1, <1>4 DEF Heads, HeadId
<1>6. TextsInOrder'
  <2> SUFFICES ASSUME NEW j \in Instances, NEW n \in 2..Len(toServer'[j])
               PROVE  toServer'[j][n].length = TextAsLength
    BY DEF TextsInOrder
  <2>1. CASE j = i
    BY <1>2, <1>3, <2>1, LenProperties
  <2>2. CASE j # i
    BY <1>1, <2>2 DEF TextsInOrder
  <2> QED
    BY <2>1, <2>2
<1>7. OneHeader'
  BY <1>5 DEF OneHeader
<1>8. \A id \in Ids : (Pending(id)' => Pending(id)) /\ (Unsent(id)' <=> Unsent(id))
  BY <1>5 DEF Pending, Unsent, client
<1>9. \A id \in Ids :
         Heads(i) /\ HeadId(i) = id => Pending(id) /\ ~Pending(id)'
  <2> SUFFICES ASSUME NEW id \in Ids, Heads(i), HeadId(i) = id
               PROVE  Pending(id) /\ ~Pending(id)'
    OBVIOUS
  <2>1. \A j \in Instances : Heads(j)' => HeadId(j)' # id
    BY <1>5 DEF OneHeader
  <2> QED
    BY <2>1 DEF Pending
<1>10. \A id \in Ids : Settled(id) => Settled(id)' /\ applied'[id] = applied[id]
  BY <1>8, <1>9 DEF Settled
<1>11. AppliedOnce'
  <2> SUFFICES ASSUME NEW id \in Ids
               PROVE  /\ applied'[id] \in {0, 1}
                      /\ Pending(id)' => ~Unsent(id)'
                      /\ ~Settled(id)' => applied'[id] = 0
    BY DEF AppliedOnce
  <2>1. CASE Heads(i) /\ HeadId(i) = id
    BY <1>8, <1>9, <2>1 DEF AppliedOnce, Settled
  <2>2. CASE ~(Heads(i) /\ HeadId(i) = id)
    BY <1>8, <2>2 DEF AppliedOnce, Settled
  <2> QED
    BY <2>1, <2>2
<1>12. OutcomesSettled'
  BY <1>10 DEF OutcomesSettled, IsAnswer, client
<1>13. \A id \in Ids : Heads(i) /\ HeadId(i) = id => Settled(id)'
  BY <1>8, <1>9 DEF Settled, AppliedOnce
<1> QED
  BY <1>1, <1>2, <1>6, <1>7, <1>10, <1>11, <1>12, <1>13

\* The end of a task: nobody holds the instance any more.
LEMMA EndedKeepsAnswers ==
    ASSUME AnswerInv, NEW i \in Instances, Ended(i),
           UNCHANGED client, PermitInv',
           \A id \in Ids : \/ applied'[id] = applied[id]
                           \/ Heads(i) /\ HeadId(i) = id /\ applied'[id] = 1
    PROVE  AnswerInv'
<1> USE DEF AnswerInv, PermitInv
<1>1. /\ toServer' = [toServer EXCEPT ![i] = <<>>]
      /\ applied' \in [Ids -> Nat]
  BY DEF Ended, PipeTypeOK
<1>2. /\ TextsInOrder' /\ OneHeader' /\ AppliedOnce' /\ OutcomesSettled'
      /\ \A id \in Ids : Settled(id) => Settled(id)' /\ applied'[id] = applied[id]
  BY <1>1, Consumed
<1>3. Held'
  <2> SUFFICES ASSUME NEW j \in Instances, peer'[j] # Nothing
               PROVE  HeldBy(peer[j], j)'
    BY DEF Held
  <2>1. /\ j # i
        /\ peer'[j] = peer[j] /\ peer[j] \in Clients
        /\ toServer'[j] = toServer[j] /\ toClient'[j] = toClient[j]
    BY DEF Ended, PipeTypeOK
  <2>2. HeldBy(peer[j], j)
    BY <2>1 DEF Held
  <2>3. Id(peer[j]) \in Ids /\ Id(peer[j])' = Id(peer[j])
    BY <2>1, <2>2, IdType DEF Underway, HeldBy, Id, client
  <2>4. \A k \in Instances : peer'[k] = peer'[j] => peer[k] = peer[j]
    BY <2>1 DEF Ended, PipeTypeOK
  <2>5. \A n \in 1..Len(toClient[j]) :
           IsAnswer(toClient[j][n], Id(peer[j])) /\ Settled(Id(peer[j]))
    BY <2>2 DEF HeldBy
  <2> QED
    BY <1>2, <2>1, <2>2, <2>3, <2>4, <2>5 DEF HeldBy, IsAnswer, client
<1>4. Clean'
  BY DEF Clean, Ended, PipeTypeOK
<1> QED
  BY <1>2, <1>3, <1>4

\* Reading a message, with or without an answer to the client that holds the
\* instance.
LEMMA RestKeepsAnswers ==
    ASSUME AnswerInv, NEW i \in Instances, toServer[i] # <<>>, toServer' = Rest(i),
           UNCHANGED <<client, task, peer>>, PermitInv',
           task[i] \notin {"none", "listening"},
           \A id \in Ids : \/ applied'[id] = applied[id]
                           \/ Heads(i) /\ HeadId(i) = id /\ applied'[id] = 1,
           \/ toClient' = toClient
           \/ /\ Heads(i)
              /\ \E answer \in Answers :
                    /\ toClient' = [toClient EXCEPT ![i] = Append(@, answer)]
                    /\ \A id \in Ids : HeadId(i) = id => IsAnswer(answer, id)'
    PROVE  AnswerInv'
<1> USE DEF AnswerInv, PermitInv
<1>1. /\ TextsInOrder' /\ OneHeader' /\ AppliedOnce' /\ OutcomesSettled'
      /\ \A j \in Instances \ {i} : toServer'[j] = toServer[j]
      /\ \A n \in 1..Len(toServer'[i]) : \E m \in 1..Len(toServer[i]) :
            toServer'[i][n] = toServer[i][m]
      /\ \A id \in Ids : Settled(id) => Settled(id)' /\ applied'[id] = applied[id]
      /\ \A id \in Ids : Heads(i) /\ HeadId(i) = id => Settled(id)'
  <2>1. applied' \in [Ids -> Nat]
    BY DEF PipeTypeOK
  <2> QED
    BY <2>1, Consumed
<1>2. Held'
  <2> SUFFICES ASSUME NEW j \in Instances, peer'[j] # Nothing
               PROVE  HeldBy(peer[j], j)'
    BY DEF Held
  <2>1. peer[j] \in Clients /\ peer' = peer /\ HeldBy(peer[j], j)
    BY DEF Held, PipeTypeOK
  <2>2. Id(peer[j]) \in Ids /\ Id(peer[j])' = Id(peer[j])
    BY <2>1, IdType DEF Underway, HeldBy, Id, client
  <2>3. \A n \in 1..Len(toClient[j]) :
           IsAnswer(toClient[j][n], Id(peer[j])) /\ Settled(Id(peer[j]))
    BY <2>1 DEF HeldBy
  <2>4. \A n \in 1..Len(toClient[j]) :
           toClient'[j][n] = toClient[j][n] =>
               IsAnswer(toClient[j][n], Id(peer[j]))' /\ Settled(Id(peer[j]))'
    BY <1>1, <2>1, <2>2, <2>3 DEF IsAnswer
  <2>5. CASE j # i
    <3>1. toServer'[j] = toServer[j] /\ toClient'[j] = toClient[j]
      BY <1>1, <2>5 DEF PipeTypeOK
    <3> QED
      BY <2>1, <2>2, <2>4, <3>1 DEF HeldBy, client
  <2>6. CASE j = i
    <3>1. stage[peer[i]] # "opened"
      BY <2>1, <2>6 DEF HeldBy
    <3>2. \A n \in 1..Len(toServer'[i]) : toServer'[i][n].of.id = Id(peer[i])
      BY <1>1, <2>1, <2>6 DEF HeldBy
    <3>3. \A n \in 1..Len(toClient'[i]) :
             IsAnswer(toClient[i][n], Id(peer[i]))' /\ Settled(Id(peer[i]))'
      <4>1. CASE toClient' = toClient
        BY <2>4, <2>6, <4>1
      <4>2. CASE toClient' # toClient
        <5>1. PICK answer \in Answers :
                 /\ Heads(i)
                 /\ toClient' = [toClient EXCEPT ![i] = Append(@, answer)]
                 /\ \A id \in Ids : HeadId(i) = id => IsAnswer(answer, id)'
          BY <4>2
        <5>2. toClient[i] \in Seq(Answers)
          BY DEF PipeTypeOK
        <5>3. toClient'[i] = Append(toClient[i], answer)
          BY <5>1 DEF PipeTypeOK
        <5>4. HeadId(i) = Id(peer[i])
          <6>1. Head(toServer[i]) = toServer[i][1] /\ 1 \in 1..Len(toServer[i])
            BY HeadType
          <6> QED
            BY <2>1, <2>6, <6>1 DEF HeldBy, HeadId
        <5>5. IsAnswer(answer, Id(peer[i]))' /\ Settled(Id(peer[i]))'
          BY <1>1, <2>1, <2>2, <2>6, <5>1, <5>4 DEF IsAnswer
        <5> TAKE n \in 1..Len(toClient'[i])
        <5>6. CASE n <= Len(toClient[i])
          <6>1. n \in 1..Len(toClient[i]) /\ toClient'[i][n] = toClient[i][n]
            BY <5>2, <5>3, <5>6, LenProperties
          <6> QED
            BY <2>4, <2>6, <6>1
        <5>7. CASE ~(n <= Len(toClient[i]))
          <6>1. toClient'[i][n] = answer
            BY <5>2, <5>3, <5>7, LenProperties
          <6> QED
            BY <5>5, <6>1 DEF IsAnswer
        <5> QED
          BY <5>6, <5>7
      <4> QED
        BY <4>1, <4>2
    <3> QED
      BY <2>1, <2>2, <2>6, <3>1, <3>2, <3>3 DEF HeldBy, client
  <2> QED
    BY <2>5, <2>6
<1>3. Clean'
  <2> SUFFICES ASSUME NEW j \in Instances, task[j] \in {"none", "listening"}
               PROVE  peer'[j] = Nothing /\ toServer'[j] = <<>> /\ toClient'[j] = <<>>
    BY DEF Clean
  <2>1. j # i
    OBVIOUS
  <2>2. toServer'[j] = toServer[j] /\ toClient'[j] = toClient[j]
    BY <1>1, <2>1 DEF PipeTypeOK
  <2> QED
    BY <2>2 DEF Clean
<1> QED
  BY <1>1, <1>2, <1>3

\* What the task of an instance does.
LEMMA TaskKeepsAnswers ==
    ASSUME AnswerInv, NEW i \in Instances, TaskStep(i), PermitInv'
    PROVE  AnswerInv'
<1> USE DEF AnswerInv, PermitInv
<1>1. CASE Connected(i)
  <2>1. CASE Ended(i)
    BY <1>1, <2>1, EndedKeepsAnswers DEF Connected
  <2>2. CASE /\ task' = [task EXCEPT ![i] = "serving"]
             /\ UNCHANGED <<permits, peer, toServer, toClient>>
    <3>1. /\ TextsInOrder' /\ OneHeader' /\ AppliedOnce' /\ OutcomesSettled'
          /\ Held'
      BY <1>1, <2>2, Undisturbed DEF Connected
    <3>2. Clean'
      BY <1>1, <2>2 DEF Connected, Clean, PipeTypeOK
    <3> QED
      BY <3>1, <3>2
  <2> QED
    BY <1>1, <2>1, <2>2 DEF Connected
<1>2. CASE Drain(i)
  BY <1>2, RestKeepsAnswers DEF Drain, Complete
<1>3. CASE Serve(i)
  <2> DEFINE req == Head(toServer[i]).of
             garbled == [id |-> Nothing, large |-> FALSE]
             Step == \A id \in Ids :
                        \/ applied'[id] = applied[id]
                        \/ Heads(i) /\ HeadId(i) = id /\ applied'[id] = 1
  <2>1. /\ toServer[i] # <<>> /\ task[i] = "serving" /\ UNCHANGED client
        /\ Announced(i) <= MaxMsg
    BY <1>3 DEF Serve, Complete
  <2>2. Heads(i) /\ HeadId(i) \in Ids /\ req.id = HeadId(i)
    BY <2>1, HeadType, RestType, LengthType DEF Heads, HeadId, Announced
  <2>3. applied[HeadId(i)] = 0
    BY <2>2 DEF AppliedOnce, Settled, Pending
  <2>4. ASSUME NEW answer \in Answers, Respond(i, answer), Step,
               \A id \in Ids : HeadId(i) = id => IsAnswer(answer, id)'
        PROVE  AnswerInv'
    <3>1. CASE peer[i] = Nothing
      BY <2>1, <2>4, <3>1, EndedKeepsAnswers DEF Respond
    <3>2. CASE peer[i] # Nothing
      <4>1. /\ toClient' = [toClient EXCEPT ![i] = Append(@, answer)]
            /\ toServer' = Rest(i)
            /\ UNCHANGED <<permits, task, peer>>
        BY <2>4, <3>2 DEF Respond
      <4> QED
        BY <2>1, <2>2, <2>4, <4>1, RestKeepsAnswers
    <3> QED
      BY <3>1, <3>2
  <2>5. CASE /\ applied' = [applied EXCEPT ![req.id] = @ + 1]
             /\ \E large \in BOOLEAN : Respond(i, [id |-> req.id, large |-> large])
    <3>1. PICK answer \in Answers : answer.id = HeadId(i) /\ Respond(i, answer)
      <4>1. \A large \in BOOLEAN : [id |-> req.id, large |-> large] \in Answers
        BY <2>2 DEF Answers
      <4> QED
        BY <2>2, <2>5, <4>1
    <3>2. applied \in [Ids -> Nat] /\ applied' = [applied EXCEPT ![HeadId(i)] = @ + 1]
      BY <2>2, <2>5 DEF PipeTypeOK
    <3>3. applied'[HeadId(i)] = 1 /\ Step
      BY <2>2, <2>3, <3>2
    <3>4. \A id \in Ids : HeadId(i) = id => IsAnswer(answer, id)'
      BY <3>1, <3>3 DEF IsAnswer
    <3> QED
      BY <2>4, <3>1, <3>3, <3>4
  <2>6. CASE (Respond(i, garbled) \/ Ended(i)) /\ UNCHANGED applied
    <3>1. garbled \in Answers
      BY DEF Answers
    <3>2. \A id \in Ids : HeadId(i) = id => IsAnswer(garbled, id)'
      BY <2>3, <2>6 DEF IsAnswer
    <3>3. Step
      BY <2>6
    <3>4. CASE Respond(i, garbled)
      BY <2>4, <3>1, <3>2, <3>3, <3>4
    <3>5. CASE Ended(i)
      BY <2>1, <3>3, <3>5, EndedKeepsAnswers
    <3> QED
      BY <2>6, <3>4, <3>5
  <2> QED
    BY <1>3, <2>5, <2>6 DEF Serve
<1>4. CASE Disconnected(i)
  BY <1>4, EndedKeepsAnswers DEF Disconnected
<1> QED
  BY <1>1, <1>2, <1>3, <1>4 DEF TaskStep

\* The main loop makes an empty instance one that listens.
LEMMA MainKeepsAnswers ==
    ASSUME AnswerInv, MainStep, PermitInv'
    PROVE  AnswerInv'
<1>1. UNCHANGED <<client, peer, toServer, toClient, applied>>
  BY DEF MainStep, Acquire, Create, CreateFails, Retry, pipes
<1>2. TextsInOrder' /\ OneHeader' /\ AppliedOnce' /\ OutcomesSettled' /\ Held'
  BY <1>1, Undisturbed
<1>3. \A i \in Instances :
         task'[i] \in {"none", "listening"} => task[i] \in {"none", "listening"}
  BY DEF MainStep, Acquire, Create, CreateFails, Retry, pipes, AnswerInv, PermitInv,
     PipeTypeOK
<1>4. Clean'
  BY <1>1, <1>3 DEF AnswerInv, Clean
<1> QED
  BY <1>2, <1>4 DEF AnswerInv

\* A crash empties every instance, and settles the calls that were under way.
LEMMA CrashKeepsAnswers ==
    ASSUME AnswerInv, Crash \/ Restart, PermitInv'
    PROVE  AnswerInv'
<1> USE DEF AnswerInv, PermitInv
<1>1. CASE Crash
  <2>1. \A i \in Instances :
           toServer'[i] = <<>> /\ toClient'[i] = <<>> /\ peer'[i] = Nothing
    BY <1>1 DEF Crash
  <2>2. UNCHANGED <<client, applied>>
    BY <1>1 DEF Crash
  <2>3. \A i \in Instances : ~Heads(i)'
    BY <2>1 DEF Heads
  <2>4. \A id \in Ids : ~Pending(id)' /\ (Unsent(id)' <=> Unsent(id))
    BY <2>2, <2>3 DEF Pending, Unsent, client
  <2>5. TextsInOrder'
    BY <2>1, EmptySeq DEF TextsInOrder
  <2>6. OneHeader' /\ Held' /\ Clean'
    BY <2>1, <2>3 DEF OneHeader, Held, Clean
  <2>7. AppliedOnce' /\ OutcomesSettled'
    BY <2>2, <2>4 DEF AppliedOnce, OutcomesSettled, Settled, IsAnswer, client
  <2> QED
    BY <2>5, <2>6, <2>7
<1>2. CASE Restart
  BY <1>2, Undisturbed DEF Restart, pipes, Clean
<1> QED
  BY <1>1, <1>2

\* Writing a message, or the beginning of one, into the instance a client holds.
LEMMA Written ==
    ASSUME AnswerInv, NEW c \in Clients, stage[c] = "opened",
           NEW i \in Link(c), NEW k \in 1..Len(Message(request[c])),
           toServer' = [toServer EXCEPT
               ![i] = @ \o SubSeq(Message(request[c]), 1, k)]
    PROVE  /\ TextsInOrder' /\ OneHeader'
           /\ \A id \in Ids : Pending(id)' <=> Pending(id) \/ id = Id(c)
           /\ \A j \in Instances : peer[j] # c => toServer'[j] = toServer[j]
           /\ \A n \in 1..Len(toServer'[i]) : toServer'[i][n].of.id = Id(c)
<1> USE DEF AnswerInv, PermitInv
<1> DEFINE req == request[c]
           msg == Message(request[c])
<1>1. i \in Instances /\ peer[i] = c /\ c # Nothing
  BY PipeAssumption DEF Link
<1>2. /\ req \in Requests /\ req.id = Id(c) /\ Id(c) \in Ids
      /\ Unsent(Id(c)) /\ ~Pending(Id(c))
  <2>1. req \in Requests /\ req.id = Id(c) /\ Id(c) \in Ids
    BY IdType DEF Underway, Id
  <2>2. Unsent(Id(c))
    BY DEF Unsent, Id
  <2> QED
    BY <2>1, <2>2 DEF AppliedOnce
<1>3. /\ toServer[i] = <<>>
      /\ \A j \in Instances : peer[j] = c => j = i
  BY <1>1 DEF Held, HeldBy
<1>4. /\ msg \in Seq(Groups) /\ Len(msg) = req.size + 1 /\ req.size \in Nat \ {0}
      /\ req.size # TextAsLength
      /\ msg[1] = [length |-> req.size, of |-> req]
      /\ \A n \in 2..Len(msg) : msg[n] = [length |-> TextAsLength, of |-> req]
  BY <1>2, MessageType, LengthType DEF Requests
<1>5. /\ SubSeq(msg, 1, k) \in Seq(Groups)
      /\ Len(SubSeq(msg, 1, k)) = k
      /\ \A n \in 1..k : SubSeq(msg, 1, k)[n] = msg[n]
  <2>1. \A n \in 1..k : msg[n] \in Groups
    BY <1>4, ElementOfSeq
  <2> HIDE DEF msg
  <2>2. k \in Nat /\ k >= 1
    BY <1>4 DEF msg
  <2>3. /\ SubSeq(msg, 1, k) \in Seq(Groups)
        /\ Len(SubSeq(msg, 1, k)) = IF 1 <= k THEN k - 1 + 1 ELSE 0
        /\ \A n \in 1..(k - 1 + 1) : SubSeq(msg, 1, k)[n] = msg[1 + n - 1]
    BY <2>1, <2>2, SubSeqProperties
  <2> QED
    BY <2>2, <2>3
<1>6. toServer'[i] = SubSeq(msg, 1, k)
  <2>1. toServer'[i] = <<>> \o SubSeq(msg, 1, k)
    BY <1>1, <1>3 DEF PipeTypeOK
  <2> QED
    BY <1>5, <2>1, ConcatEmptySeq
<1>7. /\ toServer'[i] \in Seq(Groups) /\ Len(toServer'[i]) = k /\ k \in Nat \ {0}
      /\ toServer'[i][1] = [length |-> req.size, of |-> req]
      /\ \A n \in 2..k : toServer'[i][n].length = TextAsLength
      /\ \A n \in 1..k : toServer'[i][n].of = req
  <2>1. k \in 1..Len(msg)
    OBVIOUS
  <2> HIDE DEF msg, req
  <2>2. k \in Nat \ {0} /\ \A n \in 1..k : n \in 1..Len(msg)
    BY <1>4, <2>1
  <2>3. \A n \in 1..k : toServer'[i][n] = msg[n]
    BY <1>5, <1>6
  <2>4. toServer'[i][1] = msg[1]
    BY <2>2, <2>3
  <2>5. /\ \A n \in 2..Len(msg) : msg[n].length = TextAsLength
        /\ \A n \in 1..Len(msg) : msg[n].of = req
    BY <1>4
  <2>6. \A n \in 2..k : n \in 1..k /\ n \in 2..Len(msg)
    BY <1>4, <2>1
  <2>7. \A n \in 2..k : toServer'[i][n].length = TextAsLength
    BY <2>3, <2>5, <2>6
  <2>8. \A n \in 1..k : toServer'[i][n].of = req
    BY <2>2, <2>3, <2>5
  <2> QED
    BY <1>4, <1>5, <1>6, <2>2, <2>4, <2>7, <2>8
<1>8. Heads(i)' /\ HeadId(i)' = Id(c)
  <2>1. toServer'[i] # <<>> /\ Head(toServer'[i]) = toServer'[i][1]
    <3>1. toServer'[i] \in Seq(Groups) /\ Len(toServer'[i]) \in Nat \ {0}
      BY <1>7
    <3>2. toServer'[i] # <<>>
      BY <3>1, HeadIsFirst, Zenon
    <3> QED
      BY <3>1, <3>2, HeadIsFirst, Zenon
  <2>2. Head(toServer'[i]).length = req.size /\ Head(toServer'[i]).of = req
    BY <1>7, <2>1
  <2> QED
    BY <1>2, <1>4, <2>1, <2>2 DEF Heads, HeadId
<1>9. ~Heads(i)
  BY <1>3 DEF Heads
<1>10. \A j \in Instances \ {i} :
          /\ toServer'[j] = toServer[j]
          /\ (Heads(j)' <=> Heads(j)) /\ HeadId(j)' = HeadId(j)
  <2>1. \A j \in Instances \ {i} : toServer'[j] = toServer[j]
    BY DEF PipeTypeOK
  <2> QED
    BY <2>1 DEF Heads, HeadId
<1>11. \A j \in Instances \ {i} : Heads(j) => HeadId(j) # Id(c)
  BY <1>2 DEF Pending
<1>12. TextsInOrder'
  <2> SUFFICES ASSUME NEW j \in Instances, NEW n \in 2..Len(toServer'[j])
               PROVE  toServer'[j][n].length = TextAsLength
    BY DEF TextsInOrder
  <2>1. CASE j = i
    <3>1. n \in 2..k
      BY <1>7, <2>1
    <3> QED
      BY <1>7, <2>1, <3>1
  <2>2. CASE j # i
    BY <1>10, <2>2 DEF TextsInOrder
  <2> QED
    BY <2>1, <2>2
<1>13. OneHeader'
  BY <1>8, <1>10, <1>11 DEF OneHeader
<1>14. \A id \in Ids : Pending(id)' <=> Pending(id) \/ id = Id(c)
  BY <1>1, <1>8, <1>9, <1>10 DEF Pending
<1>15. \A n \in 1..Len(toServer'[i]) : toServer'[i][n].of.id = Id(c)
  BY <1>2, <1>7
<1> QED
  BY <1>1, <1>10, <1>12, <1>13, <1>14, <1>15

\* A call returns: an error, or the answer it found.
LEMMA ReturnsKeepsAnswers ==
    ASSUME AnswerInv, NEW c \in Clients, NEW result \in Outcomes,
           stage[c] # "idle", Returns(c, result), PermitInv',
           result \in Answers => IsAnswer(result, Id(c)) /\ Settled(Id(c)),
           UNCHANGED <<task, toClient, applied>>,
           TextsInOrder', OneHeader',
           \A id \in Ids :
               Pending(id)' => Pending(id) \/ (stage[c] = "opened" /\ id = Id(c)),
           \A j \in Instances : peer[j] # c => toServer'[j] = toServer[j]
    PROVE  AnswerInv'
<1> USE DEF AnswerInv, PermitInv
<1>1. /\ calls' = calls
      /\ stage' = [stage EXCEPT ![c] = "idle"]
      /\ outcome' = [outcome EXCEPT ![Id(c)] = result]
      /\ peer' = [i \in Instances |-> IF peer[i] = c THEN Nothing ELSE peer[i]]
  BY DEF Returns
<1>2. Id(c) \in Ids
  BY IdType DEF Underway, Id
<1>3. \A id \in Ids : (Unsent(id)' => Unsent(id)) /\ ~Unsent(Id(c))'
  <2>1. \A id \in Ids : Unsent(id)' => Unsent(id)
    BY <1>1 DEF Unsent, PipeTypeOK
  <2>2. ~Unsent(Id(c))'
    BY <1>1 DEF Unsent, Id, PipeTypeOK
  <2> QED
    BY <2>1, <2>2
<1>4. stage[c] = "opened" => Unsent(Id(c))
  BY DEF Unsent, Id
<1>5. \A id \in Ids : Settled(id) => Settled(id)'
  BY <1>3, <1>4 DEF Settled
<1>6. Id(c)' = Id(c)
  BY <1>1 DEF Id
<1>7. AppliedOnce'
  <2> SUFFICES ASSUME NEW id \in Ids
               PROVE  /\ applied'[id] \in {0, 1}
                      /\ Pending(id)' => ~Unsent(id)'
                      /\ ~Settled(id)' => applied'[id] = 0
    BY DEF AppliedOnce
  <2>1. Pending(id)' => ~Unsent(id)'
    <3>1. CASE id = Id(c)
      BY <1>1, <3>1 DEF Unsent, Id, PipeTypeOK
    <3>2. CASE id # Id(c)
      BY <1>3, <3>2 DEF AppliedOnce
    <3> QED
      BY <3>1, <3>2
  <2> QED
    BY <1>5, <2>1 DEF AppliedOnce
<1>8. OutcomesSettled'
  <2> SUFFICES ASSUME NEW id \in Ids, outcome'[id] \in Answers
               PROVE  IsAnswer(outcome[id], id)' /\ Settled(id)'
    BY DEF OutcomesSettled
  <2>1. CASE id = Id(c)
    <3>1. outcome'[id] = result
      BY <1>1, <1>2, <2>1 DEF PipeTypeOK
    <3> QED
      BY <1>2, <1>5, <2>1, <3>1 DEF IsAnswer
  <2>2. CASE id # Id(c)
    <3>1. outcome'[id] = outcome[id]
      BY <1>1, <2>2 DEF PipeTypeOK
    <3> QED
      BY <1>5, <3>1 DEF OutcomesSettled, IsAnswer
  <2> QED
    BY <2>1, <2>2
<1>9. Held'
  <2> SUFFICES ASSUME NEW j \in Instances, peer'[j] # Nothing
               PROVE  HeldBy(peer[j], j)'
    BY DEF Held
  <2>1. /\ peer'[j] = peer[j] /\ peer[j] \in Clients \ {c}
        /\ toServer'[j] = toServer[j] /\ toClient'[j] = toClient[j]
    BY <1>1 DEF PipeTypeOK
  <2>2. HeldBy(peer[j], j)
    BY <2>1 DEF Held
  <2>3. /\ Id(peer[j]) \in Ids /\ Id(peer[j])' = Id(peer[j])
        /\ stage'[peer[j]] = stage[peer[j]]
    BY <1>1, <2>1, <2>2, IdType DEF Underway, HeldBy, Id, PipeTypeOK
  <2>4. \A k \in Instances : peer'[k] = peer'[j] => peer[k] = peer[j]
    BY <1>1, <2>1
  <2>5. \A n \in 1..Len(toClient[j]) :
           IsAnswer(toClient[j][n], Id(peer[j])) /\ Settled(Id(peer[j]))
    BY <2>2 DEF HeldBy
  <2> QED
    BY <1>5, <2>1, <2>2, <2>3, <2>4, <2>5 DEF HeldBy, IsAnswer
<1>10. Clean'
  <2> SUFFICES ASSUME NEW j \in Instances, task[j] \in {"none", "listening"}
               PROVE  peer'[j] = Nothing /\ toServer'[j] = <<>> /\ toClient'[j] = <<>>
    BY DEF Clean
  <2>1. peer[j] = Nothing /\ toServer[j] = <<>> /\ toClient[j] = <<>>
    BY DEF Clean
  <2> QED
    BY <1>1, <2>1, PipeAssumption
<1> QED
  BY <1>7, <1>8, <1>9, <1>10

\* A call begins: it is refused, or gets an instance that is empty.
LEMMA OpenKeepsAnswers ==
    ASSUME AnswerInv, NEW c \in Clients, Open(c), PermitInv'
    PROVE  AnswerInv'
<1> USE DEF AnswerInv, PermitInv
<1>1. /\ stage[c] = "idle" /\ calls[c] \in Nat /\ MaxCalls[c] \in Nat
      /\ calls[c] < MaxCalls[c]
      /\ calls' = [calls EXCEPT ![c] = @ + 1]
      /\ UNCHANGED <<server, toServer, toClient, applied, faults>>
  BY PipeAssumption DEF Open, PipeTypeOK
<1>2. <<c, calls[c] + 1>> \in Ids
  <2>1. calls[c] + 1 \in 1..MaxCalls[c]
    BY <1>1
  <2> QED
    BY <2>1, IdType
<1>3. \A i \in Instances : (Heads(i)' <=> Heads(i)) /\ HeadId(i)' = HeadId(i)
  BY <1>1 DEF Heads, HeadId
<1>4. TextsInOrder' /\ OneHeader' /\ \A id \in Ids : Pending(id)' <=> Pending(id)
  BY <1>1, <1>3 DEF TextsInOrder, OneHeader, Pending
<1>5. /\ stage' = [stage EXCEPT ![c] = "opened"] \/ stage' = stage
      /\ \A d \in Clients : d # c => stage'[d] = stage[d] /\ calls'[d] = calls[d]
      /\ calls'[c] = calls[c] + 1
  BY <1>1 DEF Open, PipeTypeOK
<1>6. \A id \in Ids : Unsent(id)' => Unsent(id)
  <2> SUFFICES ASSUME NEW id \in Ids, Unsent(id)' PROVE Unsent(id)
    OBVIOUS
  <2>1. id[1] \in Clients /\ id[2] \in Nat
    BY IdType, PipeAssumption
  <2>2. CASE id[1] = c
    BY <1>1, <1>5, <2>1, <2>2 DEF Unsent
  <2>3. CASE id[1] # c
    BY <1>5, <2>1, <2>3 DEF Unsent
  <2> QED
    BY <2>2, <2>3
<1>7. \A id \in Ids : Settled(id) => Settled(id)'
  BY <1>4, <1>6 DEF Settled
<1>8. AppliedOnce'
  BY <1>1, <1>4, <1>6, <1>7 DEF AppliedOnce
<1>9. OutcomesSettled'
  <2> SUFFICES ASSUME NEW id \in Ids, outcome'[id] \in Answers
               PROVE  IsAnswer(outcome[id], id)' /\ Settled(id)'
    BY DEF OutcomesSettled
  <2>1. outcome'[id] = outcome[id]
    BY <1>2, FailedIsNoAnswer DEF Open, PipeTypeOK
  <2> QED
    BY <1>1, <1>7, <2>1 DEF OutcomesSettled, IsAnswer
<1>10. \A j \in Instances : peer[j] # c
  BY <1>1, PipeAssumption DEF Held, HeldBy
<1>11. \/ \E i \in Instances : /\ task[i] = "listening"
                              /\ task' = [task EXCEPT ![i] = "taken"]
                              /\ peer' = [peer EXCEPT ![i] = c]
                              /\ stage' = [stage EXCEPT ![c] = "opened"]
       \/ UNCHANGED <<task, peer>>
  BY DEF Open
<1>12. /\ task \in [Instances -> {"none", "listening", "taken", "serving"}]
       /\ peer \in [Instances -> Clients \cup {Nothing}]
       /\ stage \in [Clients -> {"idle", "opened", "waiting"}]
  BY DEF PipeTypeOK
<1>13. \A j \in Instances :
          peer'[j] = peer[j] \/ (peer'[j] = c /\ task[j] = "listening")
  BY <1>11, <1>12
<1>14. \A j, k \in Instances : peer'[j] = c /\ peer'[k] = c => j = k
  BY <1>10, <1>11, <1>12
<1>15. Held'
  <2> SUFFICES ASSUME NEW j \in Instances, peer'[j] # Nothing
               PROVE  HeldBy(peer[j], j)'
    BY DEF Held
  <2>1. CASE peer'[j] = c
    <3>1. task[j] = "listening"
      BY <1>10, <1>13, <2>1
    <3>2. toServer'[j] = <<>> /\ toClient'[j] = <<>>
      BY <1>1, <3>1 DEF Clean
    <3>3. stage'[c] = "opened"
      BY <1>10, <1>11, <1>12, <2>1
    <3>4. \A n \in 1..Len(toServer'[j]) : FALSE
      BY <3>2, EmptySeq
    <3>5. \A n \in 1..Len(toClient'[j]) : FALSE
      BY <3>2, EmptySeq
    <3> QED
      BY <1>14, <2>1, <3>2, <3>3, <3>4, <3>5 DEF HeldBy
  <2>2. CASE peer'[j] # c
    <3>1. peer'[j] = peer[j] /\ peer[j] \in Clients \ {c}
      BY <1>13, <2>2 DEF PipeTypeOK
    <3>2. HeldBy(peer[j], j)
      BY <3>1 DEF Held
    <3>3. /\ Id(peer[j]) \in Ids /\ Id(peer[j])' = Id(peer[j])
          /\ stage'[peer[j]] = stage[peer[j]]
      BY <1>5, <3>1, <3>2, IdType DEF Underway, HeldBy, Id
    <3>4. \A k \in Instances : peer'[k] = peer'[j] => peer[k] = peer[j]
      BY <1>13, <3>1
    <3>5. \A n \in 1..Len(toClient[j]) :
             IsAnswer(toClient[j][n], Id(peer[j])) /\ Settled(Id(peer[j]))
      BY <3>2 DEF HeldBy
    <3> QED
      BY <1>1, <1>7, <3>1, <3>2, <3>3, <3>4, <3>5 DEF HeldBy, IsAnswer
  <2> QED
    BY <2>1, <2>2
<1>16. Clean'
  <2> SUFFICES ASSUME NEW j \in Instances, task'[j] \in {"none", "listening"}
               PROVE  peer'[j] = Nothing /\ toServer'[j] = <<>> /\ toClient'[j] = <<>>
    BY DEF Clean
  <2>1. task'[j] = task[j] /\ peer'[j] = peer[j]
    BY <1>11, <1>12
  <2> QED
    BY <1>1, <2>1 DEF Clean
<1> QED
  BY <1>4, <1>8, <1>9, <1>15, <1>16

\* The message goes into the instance the client holds.
LEMMA WriteKeepsAnswers ==
    ASSUME AnswerInv, NEW c \in Clients, Write(c), PermitInv'
    PROVE  AnswerInv'
<1> USE DEF AnswerInv, PermitInv
<1>1. PICK i \in Link(c) :
         toServer' = [toServer EXCEPT ![i] = @ \o Message(request[c])]
  BY DEF Write
<1>2. /\ stage[c] = "opened" /\ request[c] \in Requests /\ Id(c) \in Ids
      /\ i \in Instances /\ peer[i] = c
  BY IdType DEF Write, Underway, Link, Id
<1>3. /\ Message(request[c]) \in Seq(Groups)
      /\ Len(Message(request[c])) \in 1..Len(Message(request[c]))
      /\ Message(request[c]) = SubSeq(Message(request[c]), 1, Len(Message(request[c])))
  <2>1. /\ Message(request[c]) \in Seq(Groups)
        /\ Len(Message(request[c])) = request[c].size + 1
        /\ request[c].size \in Nat
    BY <1>2, MessageType, LengthType DEF Requests
  <2> QED
    BY <2>1, SubSeqFull
<1>4. /\ TextsInOrder' /\ OneHeader'
      /\ \A id \in Ids : Pending(id)' <=> Pending(id) \/ id = Id(c)
      /\ \A j \in Instances : peer[j] # c => toServer'[j] = toServer[j]
      /\ \A n \in 1..Len(toServer'[i]) : toServer'[i][n].of.id = Id(c)
  <2>1. toServer' = [toServer EXCEPT
            ![i] = @ \o SubSeq(Message(request[c]), 1, Len(Message(request[c])))]
    BY <1>1, <1>3
  <2> QED
    BY <1>2, <1>3, <2>1, Written
<1>5. /\ stage' = [stage EXCEPT ![c] = "waiting"]
      /\ UNCHANGED <<calls, outcome, task, peer, toClient, applied>>
  BY DEF Write
<1>6. \A id \in Ids : Unsent(id)' <=> Unsent(id) /\ id # Id(c)
  <2> SUFFICES ASSUME NEW id \in Ids PROVE Unsent(id)' <=> Unsent(id) /\ id # Id(c)
    OBVIOUS
  <2>1. id = <<id[1], id[2]>> /\ id[1] \in Clients /\ id[2] \in Nat
    BY IdType, PipeAssumption
  <2>2. CASE id[1] = c
    <3>1. calls[c] \in Nat /\ stage'[c] = "waiting"
      BY <1>5 DEF PipeTypeOK
    <3>2. id = Id(c) <=> id[2] = calls[c]
      BY <2>1, <2>2 DEF Id
    <3> QED
      BY <1>2, <1>5, <2>1, <2>2, <3>1, <3>2 DEF Unsent
  <2>3. CASE id[1] # c
    <3>1. stage'[id[1]] = stage[id[1]] /\ id # Id(c)
      BY <1>5, <2>1, <2>3 DEF PipeTypeOK, Id
    <3> QED
      BY <1>5, <3>1 DEF Unsent
  <2> QED
    BY <2>2, <2>3
<1>7. Unsent(Id(c))
  BY <1>2 DEF Unsent, Id
<1>8. \A id \in Ids : Settled(id)' <=> Settled(id)
  BY <1>4, <1>6, <1>7 DEF Settled
<1>9. AppliedOnce'
  BY <1>4, <1>5, <1>6, <1>8 DEF AppliedOnce
<1>10. OutcomesSettled'
  BY <1>5, <1>8 DEF OutcomesSettled, IsAnswer
<1>11. Held'
  <2> SUFFICES ASSUME NEW j \in Instances, peer'[j] # Nothing
               PROVE  HeldBy(peer[j], j)'
    BY DEF Held
  <2>1. peer' = peer /\ peer[j] \in Clients /\ HeldBy(peer[j], j)
    BY <1>5 DEF Held, PipeTypeOK
  <2>2. Id(peer[j]) \in Ids /\ Id(peer[j])' = Id(peer[j])
    BY <1>5, <2>1, IdType DEF Underway, HeldBy, Id
  <2>3. \A n \in 1..Len(toClient[j]) :
           IsAnswer(toClient[j][n], Id(peer[j])) /\ Settled(Id(peer[j]))
    BY <2>1 DEF HeldBy
  <2>4. CASE peer[j] = c
    <3>1. j = i
      BY <1>2, <2>1, <2>4 DEF HeldBy
    <3>2. stage'[c] = "waiting"
      BY <1>5 DEF PipeTypeOK
    <3> QED
      BY <1>4, <1>5, <1>8, <2>1, <2>2, <2>3, <2>4, <3>1, <3>2 DEF HeldBy, IsAnswer
  <2>5. CASE peer[j] # c
    <3>1. toServer'[j] = toServer[j] /\ stage'[peer[j]] = stage[peer[j]]
      BY <1>4, <1>5, <2>1, <2>5 DEF PipeTypeOK
    <3> QED
      BY <1>5, <1>8, <2>1, <2>2, <2>3, <3>1 DEF HeldBy, IsAnswer
  <2> QED
    BY <2>4, <2>5
<1>12. Clean'
  <2> SUFFICES ASSUME NEW j \in Instances, task[j] \in {"none", "listening"}
               PROVE  peer'[j] = Nothing /\ toServer'[j] = <<>> /\ toClient'[j] = <<>>
    BY <1>5 DEF Clean
  <2>1. peer[j] # c
    BY PipeAssumption DEF Clean
  <2> QED
    BY <1>4, <1>5, <2>1 DEF Clean
<1> QED
  BY <1>4, <1>9, <1>10, <1>11, <1>12

\* What a client does in a call.
LEMMA ClientKeepsAnswers ==
    ASSUME AnswerInv, NEW c \in Clients, ClientStep(c), PermitInv'
    PROVE  AnswerInv'
<1> USE DEF AnswerInv, PermitInv
<1>0. Failed \in Outcomes /\ Failed \notin Answers
  BY FailedIsNoAnswer DEF Outcomes
<1>1. CASE Read(c)
  <2>1. PICK i \in Link(c) :
           /\ toClient[i] # <<>>
           /\ Returns(c, IF Head(toClient[i]).large THEN Failed
                         ELSE Head(toClient[i]))
    BY <1>1 DEF Read
  <2>2. PICK result \in Outcomes :
           /\ Returns(c, result)
           /\ result = Failed \/ result = Head(toClient[i])
    BY <1>0, <2>1, HeadTailProperties DEF Link, PipeTypeOK, Outcomes
  <2>3. HeldBy(c, i)
    BY <2>1, PipeAssumption DEF Link, Held
  <2>4. 1 \in 1..Len(toClient[i]) /\ Head(toClient[i]) = toClient[i][1]
    <3>1. toClient[i] \in Seq(Answers)
      BY <2>1 DEF Link, PipeTypeOK
    <3> QED
      BY <2>1, <3>1, EmptySeq
  <2>5. result \in Answers => IsAnswer(result, Id(c)) /\ Settled(Id(c))
    BY <1>0, <2>2, <2>3, <2>4 DEF HeldBy
  <2>6. stage[c] # "idle" /\ UNCHANGED <<server, task, toServer, toClient, applied>>
    BY <1>1 DEF Read
  <2>7. /\ TextsInOrder' /\ OneHeader'
        /\ \A id \in Ids : Pending(id)' => Pending(id)
    BY <2>6 DEF TextsInOrder, OneHeader, Pending, Heads, HeadId
  <2> QED
    BY <2>2, <2>5, <2>6, <2>7, ReturnsKeepsAnswers
<1>2. CASE Broken(c)
  <2>1. /\ stage[c] # "idle" /\ Returns(c, Failed)
        /\ UNCHANGED <<server, task, toServer, toClient, applied>>
    BY <1>2 DEF Broken
  <2>2. /\ TextsInOrder' /\ OneHeader'
        /\ \A id \in Ids : Pending(id)' => Pending(id)
    BY <2>1 DEF TextsInOrder, OneHeader, Pending, Heads, HeadId
  <2> QED
    BY <1>0, <2>1, <2>2, ReturnsKeepsAnswers
<1>3. CASE GoesAway(c)
  <2>1. /\ stage[c] # "idle" /\ Returns(c, Failed)
        /\ UNCHANGED <<task, toClient, applied>>
    BY <1>3 DEF GoesAway
  <2>2. CASE UNCHANGED toServer
    <3>1. /\ TextsInOrder' /\ OneHeader'
          /\ \A id \in Ids : Pending(id)' => Pending(id)
      BY <2>2 DEF TextsInOrder, OneHeader, Pending, Heads, HeadId
    <3> QED
      BY <1>0, <2>1, <2>2, <3>1, ReturnsKeepsAnswers
  <2>3. CASE /\ stage[c] = "opened"
             /\ \E i \in Link(c), n \in 1..request[c].size :
                   toServer' = [toServer EXCEPT
                       ![i] = @ \o SubSeq(Message(request[c]), 1, n)]
    <3>1. PICK i \in Link(c), n \in 1..request[c].size :
             toServer' = [toServer EXCEPT
                 ![i] = @ \o SubSeq(Message(request[c]), 1, n)]
      BY <2>3
    <3>2. n \in 1..Len(Message(request[c]))
      <4>1. request[c] \in Requests
        BY <2>1 DEF Underway
      <4>2. request[c].size \in Nat /\ Len(Message(request[c])) = request[c].size + 1
        BY <4>1, MessageType, LengthType DEF Requests
      <4> QED
        BY <4>2
    <3>3. /\ TextsInOrder' /\ OneHeader'
          /\ \A id \in Ids : Pending(id)' <=> Pending(id) \/ id = Id(c)
          /\ \A j \in Instances : peer[j] # c => toServer'[j] = toServer[j]
      BY <2>3, <3>1, <3>2, Written
    <3> QED
      BY <1>0, <2>1, <2>3, <3>3, ReturnsKeepsAnswers
  <2> QED
    BY <1>3, <2>2, <2>3 DEF GoesAway
<1> QED
  BY <1>1, <1>2, <1>3, OpenKeepsAnswers, WriteKeepsAnswers DEF ClientStep

LEMMA AnswerInit ==
    PipeInit => AnswerInv
<1> SUFFICES ASSUME PipeInit PROVE AnswerInv
  OBVIOUS
<1>1. \A i \in Instances : toServer[i] = <<>> /\ toClient[i] = <<>> /\ peer[i] = Nothing
  BY DEF PipeInit
<1>2. \A i \in Instances : ~Heads(i)
  BY <1>1 DEF Heads
<1>3. TextsInOrder
  BY <1>1, EmptySeq DEF TextsInOrder
<1>4. OneHeader /\ Held /\ Clean
  BY <1>1, <1>2 DEF OneHeader, Held, Clean
<1>5. AppliedOnce
  BY <1>2 DEF AppliedOnce, Pending, PipeInit
<1>6. OutcomesSettled
  BY AnswerAssumption DEF OutcomesSettled, PipeInit
<1> QED
  BY <1>3, <1>4, <1>5, <1>6, PermitInit DEF AnswerInv

LEMMA AnswerStep ==
    AnswerInv /\ [PipeNext]_pipeVars => AnswerInv'
<1> SUFFICES ASSUME AnswerInv, [PipeNext]_pipeVars PROVE AnswerInv'
  OBVIOUS
<1>1. PermitInv'
  BY PermitStep DEF AnswerInv
<1>2. CASE UNCHANGED pipeVars
  <2>1. UNCHANGED <<client, task, peer, toServer, toClient, applied>>
    BY <1>2 DEF pipeVars, pipes
  <2>2. Clean'
    BY <2>1 DEF AnswerInv, Clean
  <2> QED
    BY <1>1, <2>1, <2>2, Undisturbed DEF AnswerInv
<1>3. CASE PipeNext
  BY <1>1, <1>3, ClientKeepsAnswers, MainKeepsAnswers, TaskKeepsAnswers,
     CrashKeepsAnswers DEF PipeNext
<1> QED
  BY <1>2, <1>3

\* A caller only ever gets the answer to its own request, and no request is
\* processed twice, whatever other clients left in an instance and whichever
\* text the server took for a length.
THEOREM AnswersAreOwn ==
    PipeSpec => []AnswersOwnRequest
<1>1. PipeSpec => []AnswerInv
  BY AnswerInit, AnswerStep, PTL DEF PipeSpec
<1>2. AnswerInv => AnswersOwnRequest
  <2> SUFFICES ASSUME AnswerInv, NEW id \in Ids
               PROVE  /\ applied[id] <= 1
                      /\ outcome[id] \in Answers =>
                             \/ outcome[id].id = id /\ applied[id] = 1
                             \/ outcome[id].id = Nothing /\ applied[id] = 0
    BY DEF AnswersOwnRequest
  <2>1. applied[id] <= 1
    BY DEF AnswerInv, AppliedOnce
  <2> QED
    BY <2>1 DEF AnswerInv, OutcomesSettled, IsAnswer
<1> QED
  BY <1>1, <1>2, PTL
=============================================================================
