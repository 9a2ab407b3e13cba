------------------------------ MODULE LlmCache ------------------------------
(***************************************************************************)
(* The response cache of tools/llm_cache_rs (cache.rs): entries evicted by *)
(* least frequency and, among equals, by age of the last access; a TTL;    *)
(* and an index of hierarchical keys.                                      *)
(*                                                                         *)
(* The daemon runs all its tasks on one thread (main.rs, current_thread),  *)
(* and no method of LlmCache awaits: every request of a client and every   *)
(* round of the monitor is one step.  Values, sizes and the statistics     *)
(* counters that nothing reads back are left out; so are the requests that *)
(* change nothing else (a miss, stats, ping, an entry too large to store). *)
(***************************************************************************)
EXTENDS Naturals, SequencesExt

CONSTANTS
    Keys,       \* exact keys
    Hkeys,      \* hierarchical keys
    Selections, \* what a prefix of lookup_hkey can select: sets of Hkeys
    Capacities, \* values of LLM_CACHE_CAPACITY, capped to 4096, not from below
    MaxFreq,    \* bound: the highest access count
    None        \* no hierarchical key, no entry

ASSUME CacheAssumption ==
    /\ IsFiniteSet(Keys)
    /\ Selections \subseteq SUBSET Hkeys
    /\ Capacities \subseteq Nat
    /\ MaxFreq \in Nat \ {0}
    /\ None \notin Hkeys

VARIABLES
    capacity,    \* the capacity the cache was made with
    entries,     \* entries[k]: the CacheEntry of a key or None
    hkey_index,  \* hkey_index[h]: the exact keys stored under h
    freq_list,   \* freq_list[f]: the keys accessed f times, oldest first; an
                 \* absent queue is an empty one
    min_freq,    \* where evict_one starts to look
    count,       \* the entries, counted
    recency,     \* the order of the entries' last_access, oldest first
    spinning     \* evict_one searches for ever, holding the write locks

indexes == <<entries, hkey_index, freq_list, recency>>
vars == <<capacity, indexes, min_freq, count, spinning>>

Freqs == 1..MaxFreq

\* hkey and access_count as in CacheEntry; expired stands for is_expired().
Entries == [hkey : Hkeys \cup {None}, access_count : Freqs, expired : BOOLEAN]
Live == {k \in Keys : entries[k] \in Entries}

ASSUME NoneAssumption == None \notin Entries

Init ==
    /\ capacity \in Capacities
    /\ entries = [k \in Keys |-> None]
    /\ hkey_index = [h \in Hkeys |-> {}]
    /\ freq_list = [f \in Freqs |-> <<>>]
    /\ min_freq = 1
    /\ count = 0
    /\ recency = <<>>
    /\ spinning = FALSE

-----------------------------------------------------------------------------
(* Index maintenance, shared by the operations.                            *)

\* The elements of a set of numbers in their order.
Increasing(K) ==
    CHOOSE order \in [1..Cardinality(K) -> K] :
        \A m, n \in 1..Cardinality(K) : m < n => order[m] < order[n]

\* What remains of a queue when keys are removed, in the same order.
Without(queue, S) ==
    LET order == Increasing({i \in DOMAIN queue : queue[i] \notin S})
    IN [n \in DOMAIN order |-> queue[order[n]]]

\* Mutation: only the queue of new entries is searched.
RemoveFromFirstFreq(list, S) == [list EXCEPT ![1] = Without(@, S)]

\* remove_from_freq: every queue is searched, whatever the access count.
RemoveFromFreq(list, S) == [f \in Freqs |-> Without(list[f], S)]

\* The removal of entries from the index, under the hkey of each entry.
Unindexed(S) == [h \in Hkeys |->
                    hkey_index[h] \ {k \in S : entries[k].hkey = h}]

\* min_freq after freq_list.keys().min(), 1 when there is no queue.
Refreshed(list) ==
    LET used == {f \in Freqs : list[f] # <<>>}
    IN IF used = {} THEN 1 ELSE Min(used)

\* entries.remove with both indexes cleaned; count is changed by the caller.
Removed(S) ==
    /\ entries' = [k \in Keys |-> IF k \in S THEN None ELSE entries[k]]
    /\ hkey_index' = Unindexed(S)
    /\ freq_list' = RemoveFromFreq(freq_list, S)
    /\ recency' = Without(recency, S)

-----------------------------------------------------------------------------
(* store.                                                                  *)

\* min_freq once an entry accessed once is there.
NotLowered(freq) == freq        \* mutation
Lowered(freq) == Min({1, freq})

\* The new entry, after S was removed from the entries and list is what
\* remains of freq_list.
Insert(k, h, S, list, freq) ==
    /\ entries' = [x \in Keys |->
                    CASE x = k -> [hkey |-> h, access_count |-> 1,
                                   expired |-> FALSE]
                      [] x # k /\ x \in S -> None
                      [] OTHER -> entries[x]]
    /\ freq_list' = [list EXCEPT ![1] = Append(@, k)]
    /\ min_freq' = Lowered(freq)
    /\ hkey_index' = [x \in Hkeys |-> IF x = h THEN Unindexed(S)[x] \cup {k}
                                               ELSE Unindexed(S)[x]]
    /\ recency' = Append(Without(recency, S), k)

\* The key is there already: its old references go first.
Replace(k, h) ==
    /\ k \in Live
    /\ Insert(k, h, {k}, RemoveFromFreq(freq_list, {k}), min_freq)
    /\ UNCHANGED count

Add(k, h) ==
    /\ k \notin Live
    /\ Cardinality(Live) < capacity
    /\ Insert(k, h, {}, freq_list, min_freq)
    /\ count' = count + 1

\* Where evict_one looks: the queues from min_freq up that are not empty.
Candidates == {f \in Freqs : f >= min_freq /\ freq_list[f] # <<>>}

\* Mutation: the newest of the least used entries.
VictimLast == Last(freq_list[Min(Candidates)])

\* evict_one: the head of the first such queue.
Victim == Head(freq_list[Min(Candidates)])

EvictAndAdd(k, h) ==
    /\ k \notin Live
    /\ Cardinality(Live) >= capacity
    /\ Candidates # {}
    /\ LET f == Min(Candidates)
           list == [freq_list EXCEPT ![f] = Tail(@)]
       IN Insert(k, h, {Victim} \cap Live, list, Refreshed(list))
    /\ count' = count - Cardinality({Victim} \cap Live) + 1

\* (min_freq..).find() has no end when nothing can be evicted.
SearchForever(k) ==
    /\ k \notin Live
    /\ Cardinality(Live) >= capacity
    /\ Candidates = {}
    /\ spinning' = TRUE
    /\ UNCHANGED <<indexes, min_freq, count>>

Store(k, h) ==
    \/ /\ Replace(k, h) \/ Add(k, h) \/ EvictAndAdd(k, h)
       /\ UNCHANGED spinning
    \/ SearchForever(k)

-----------------------------------------------------------------------------
(* The other operations.                                                   *)

\* lookup, hit: touch() and update_freq(); min_freq stays.
LookupHit(k) ==
    /\ k \in Live
    /\ ~entries[k].expired
    /\ entries[k].access_count < MaxFreq
    /\ LET f == entries[k].access_count IN
       /\ entries' = [entries EXCEPT ![k].access_count = f + 1]
       /\ freq_list' = [freq_list EXCEPT ![f] = Without(@, {k}),
                                         ![f + 1] = Append(@, k)]
    /\ recency' = Append(Without(recency, {k}), k)
    /\ UNCHANGED <<hkey_index, min_freq, count, spinning>>

\* lookup, expired entry: removed, a miss for the caller; min_freq stays.
LookupExpired(k) ==
    /\ k \in Live
    /\ entries[k].expired
    /\ Removed({k})
    /\ count' = count - 1
    /\ UNCHANGED <<min_freq, spinning>>

\* Expired entries found on the way, removed and min_freq refreshed.
Purge(S) ==
    /\ S # {}
    /\ Removed(S)
    /\ count' = count - Cardinality(S)
    /\ min_freq' = Refreshed(freq_list')
    /\ UNCHANGED spinning

Expired == {k \in Live : entries[k].expired}

\* lookup_hkey: the expired entries are those the index leads to.
LookupHkey(P) == Purge(Expired \cap UNION {hkey_index[h] : h \in P})

\* evict_expired, once a minute.
EvictExpired == Purge(Expired)

\* Mutation: the removed entries stay counted.
DeleteUncounted(k) ==
    /\ k \in Live
    /\ Removed({k})
    /\ UNCHANGED <<count, min_freq, spinning>>

Delete(k) ==
    /\ k \in Live
    /\ Removed({k})
    /\ count' = count - 1
    /\ UNCHANGED <<min_freq, spinning>>

Clear ==
    /\ entries' = [k \in Keys |-> None]
    /\ hkey_index' = [h \in Hkeys |-> {}]
    /\ freq_list' = [f \in Freqs |-> <<>>]
    /\ recency' = <<>>
    /\ count' = 0
    /\ min_freq' = 1
    /\ UNCHANGED spinning

\* The TTL of an entry runs out.
Expire(k) ==
    /\ k \in Live
    /\ ~entries[k].expired
    /\ entries' = [entries EXCEPT ![k].expired = TRUE]
    /\ UNCHANGED <<hkey_index, freq_list, min_freq, count, recency, spinning>>

Next ==
    /\ ~spinning
    /\ UNCHANGED capacity
    /\ \/ \E k \in Keys : \/ \E h \in Hkeys \cup {None} : Store(k, h)
                          \/ LookupHit(k) \/ LookupExpired(k)
                          \/ Delete(k) \/ Expire(k)
       \/ \E P \in Selections : LookupHkey(P)
       \/ EvictExpired
       \/ Clear

Spec == Init /\ [][Next]_vars

-----------------------------------------------------------------------------
(* Properties.                                                             *)

\* Every variable holds values of its kind, and the cache is within capacity.
TypeOK ==
    /\ entries \in [Keys -> Entries \cup {None}]
    /\ hkey_index \in [Hkeys -> SUBSET Keys]
    /\ capacity \in Capacities
    /\ freq_list \in [Freqs -> Seq(Keys)]
    /\ min_freq \in Freqs
    /\ count \in 0..capacity
    /\ recency \in Seq(Keys)
    /\ spinning \in BOOLEAN

\* The two indexes list every entry once, where its access count and its
\* hierarchical key say, and nothing else: whatever the order of stores,
\* touches, expiries and deletions, no reference is left behind.  The counter
\* that stats() reports, changed by five operations, is the number of entries.
IndexesExact ==
    /\ \A f \in Freqs :
          /\ IsInjective(freq_list[f])
          /\ ToSet(freq_list[f]) = {k \in Live : entries[k].access_count = f}
    /\ \A h \in Hkeys :
          hkey_index[h] = {k \in Live : entries[k].hkey = h}
    /\ count = Cardinality(Live)

\* A store() into a full cache of any positive capacity ends: from min_freq up
\* there is always something to evict.
StoreEnds == capacity > 0 => ~spinning

\* The entry a store() evicts is the least frequently used one and, of those,
\* the one whose last access is the longest ago, although min_freq may be
\* stale and the queues are kept by push_back and pop_front only.
LastAccess(k) == CHOOSE i \in DOMAIN recency : recency[i] = k
Evicted(k) == /\ k \in Live /\ k \notin Live'
              /\ \E j \in Keys : j \notin Live /\ j \in Live'
EvictsLeastUsed ==
    [][\A k \in Keys : Evicted(k) =>
          \A j \in Live \ {k} :
             \/ entries[k].access_count < entries[j].access_count
             \/ /\ entries[k].access_count = entries[j].access_count
                /\ LastAccess(k) < LastAccess(j)]_vars
=============================================================================
