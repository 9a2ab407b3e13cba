---------------------------- MODULE RateLimiter ----------------------------
(***************************************************************************)
(* The rate limiters: rate_limiter.py of the client, one instance of which *)
(* all BBSClients of a process share (client.py:31), and rate_limiter.py   *)
(* of the server.  Threads ask allow(topic) before they publish; a message *)
(* needs a token of the global bucket and one of its topic's bucket.       *)
(*                                                                         *)
(* Tokens are floats in the code.  Here they are whole units of which a    *)
(* message needs Cost, so that a bucket may hold a part of a token.  Time  *)
(* is a counter that Tick advances.  The statistics, which nothing reads   *)
(* back, are left out.                                                     *)
(***************************************************************************)
EXTENDS Integers, FiniteSets

CONSTANTS
    Threads,     \* threads that publish
    Topics,      \* topic prefixes
    Limited,     \* those the server's topic_limits names
    Global,      \* the name of the global bucket
    Cost,        \* units a message takes from a bucket
    PeakRate,    \* per bucket, the most units a tick may add
    PeakBurst,   \* per bucket, the most units it may hold
    MaxTime      \* bound on the clock

Buckets == Topics \cup {Global}

ASSUME LimiterAssumption ==
    /\ Limited \subseteq Topics
    /\ Global \notin Topics
    /\ Cost \in Nat \ {0}
    /\ PeakRate \in [Buckets -> Nat]
    /\ PeakBurst \in [Buckets -> Nat]
    /\ MaxTime \in Nat

VARIABLES
    kind,        \* which of the two limiters this is: "client" or "server"
    enabled,     \* _enabled
    now,         \* time.monotonic()
    tokens,      \* _tokens of each bucket
    last,        \* _last_refill of each bucket
    rate,        \* _rate of each bucket
    burst,       \* _burst of each bucket
    existing,    \* prefixes that are keys of the dictionary of buckets
    call,        \* per thread, where its call of allow() is
    used,        \* ghost: units taken from each bucket since the last reset
    mark         \* ghost: what used was when each tick began

vars == <<kind, enabled, now, tokens, last, rate, burst, existing, call,
          used, mark>>

\* A call is at "idle", "global" (about to ask the global bucket), "find" (the
\* topic's bucket) or "topic" (about to ask it).  stale: the bucket the thread
\* holds a reference to has been replaced by a reset.
Idle == [at |-> "idle"]
Calls ==
    {Idle}
      \cup [at : {"global", "topic"}, topic : Topics, stale : BOOLEAN]
      \cup [at : {"find"}, topic : Topics]

Lesser(m, n) == IF m <= n THEN m ELSE n

\* Mutation: the bucket has no bottom.
RefilledUncapped(b) == tokens[b] + (now - last[b]) * rate[b]

\* _refill()
Refilled(b) == Lesser(burst[b], tokens[b] + (now - last[b]) * rate[b])

Init ==
    /\ kind \in {"client", "server"}
    /\ enabled = TRUE
    /\ now = 0
    /\ tokens = PeakBurst
    /\ last = [b \in Buckets |-> 0]
    /\ rate = PeakRate
    /\ burst = PeakBurst
    /\ existing = IF kind = "server" THEN Limited ELSE {}
    /\ call = [p \in Threads |-> Idle]
    /\ used = [b \in Buckets |-> 0]
    /\ mark = [b \in Buckets |-> [t \in 0..MaxTime |-> 0]]

Settings == <<rate, burst>>
Bookkeeping == <<used, mark>>

----------------------------------------------------------------------------
At(p, step) == call[p] # Idle /\ call[p].at = step

\* Returns: the answer is the caller's business.
Returns(p) == call' = [call EXCEPT ![p] = Idle]

\* allow(topic) is called.  A limiter that is disabled answers at once.
Call(p, topic) ==
    /\ enabled
    /\ call[p] = Idle
    /\ call' = [call EXCEPT ![p] = [at |-> "global", topic |-> topic, stale |-> FALSE]]
    /\ UNCHANGED <<kind, enabled, now, tokens, last, existing, Settings, Bookkeeping>>

\* Mutation: the token is taken whether it is there or not.
ConsumeAlways(b, granted) ==
    /\ granted = TRUE
    /\ tokens' = [tokens EXCEPT ![b] = Refilled(b) - Cost]
    /\ last' = [last EXCEPT ![b] = now]
    /\ used' = [used EXCEPT ![b] = @ + Cost]
    /\ UNCHANGED mark

\* TokenBucket.consume(), under the bucket's lock.
Consume(b, granted) ==
    /\ granted = (Refilled(b) >= Cost)
    /\ tokens' = [tokens EXCEPT ![b] = IF granted THEN Refilled(b) - Cost ELSE Refilled(b)]
    /\ last' = [last EXCEPT ![b] = now]
    /\ used' = [used EXCEPT ![b] = IF granted THEN @ + Cost ELSE @]
    /\ UNCHANGED mark

\* The bucket that p refers to is asked.  One that a reset has replaced meanwhile
\* may hold any number of tokens.
Asked(p, b, granted) ==
    IF call[p].stale THEN UNCHANGED <<tokens, last, used, mark>> ELSE Consume(b, granted)

AskGlobal(p) ==
    /\ At(p, "global")
    /\ \E granted \in BOOLEAN :
         /\ Asked(p, Global, granted)
         /\ IF granted
              THEN call' = [call EXCEPT ![p] = [at |-> "find", topic |-> call[p].topic]]
              ELSE Returns(p)
    /\ UNCHANGED <<kind, enabled, now, existing, Settings>>

\* The client makes a bucket, a full one, for a prefix it has not met.
MakeBucket(p) ==
    /\ At(p, "find")
    /\ kind = "client"
    /\ LET b == call[p].topic IN
         /\ existing' = existing \cup {b}
         /\ IF b \in existing
              THEN UNCHANGED <<tokens, last>>
              ELSE /\ tokens' = [tokens EXCEPT ![b] = burst[b]]
                   /\ last' = [last EXCEPT ![b] = now]
         /\ call' = [call EXCEPT ![p] = [at |-> "topic", topic |-> b, stale |-> FALSE]]
    /\ UNCHANGED <<kind, enabled, now, Settings, Bookkeeping>>

\* The server only limits the prefixes it was given.
FindBucket(p) ==
    /\ At(p, "find")
    /\ kind = "server"
    /\ IF call[p].topic \in existing
         THEN call' = [call EXCEPT ![p] =
                         [at |-> "topic", topic |-> call[p].topic, stale |-> FALSE]]
         ELSE Returns(p)
    /\ UNCHANGED <<kind, enabled, now, tokens, last, existing, Settings, Bookkeeping>>

\* A message the topic's bucket denies has already taken a token of the global
\* one, which is not given back.
AskTopic(p) ==
    /\ At(p, "topic")
    /\ \E granted \in BOOLEAN : Asked(p, call[p].topic, granted)
    /\ Returns(p)
    /\ UNCHANGED <<kind, enabled, now, existing, Settings>>

----------------------------------------------------------------------------
Switch(on) ==
    /\ enabled' = on
    /\ UNCHANGED <<kind, now, tokens, last, existing, call, Settings, Bookkeeping>>

\* Threads hold references to the buckets a reset replaces.
Orphaned ==
    [p \in Threads |-> IF At(p, "global") \/ At(p, "topic")
                         THEN [call[p] EXCEPT !.stale = TRUE] ELSE call[p]]

\* The server's reset(): new buckets, full ones.
Reset ==
    /\ kind = "server"
    /\ tokens' = [b \in Buckets |-> burst[b]]
    /\ last' = [b \in Buckets |-> now]
    /\ call' = Orphaned
    /\ used' = [b \in Buckets |-> 0]
    /\ mark' = [b \in Buckets |-> [t \in 0..MaxTime |-> 0]]
    /\ UNCHANGED <<kind, enabled, now, existing, Settings>>

\* The setters of the global bucket.  Neither refills first: a new rate applies
\* to the time that has passed since the last message.
SetRate(r) ==
    /\ rate' = [rate EXCEPT ![Global] = r]
    /\ UNCHANGED <<kind, enabled, now, tokens, last, burst, existing, call,
                   Bookkeeping>>

SetBurst(n) ==
    /\ burst' = [burst EXCEPT ![Global] = n]
    /\ UNCHANGED <<kind, enabled, now, tokens, last, rate, existing, call,
                   Bookkeeping>>

\* stats and available refill the bucket they look at.
ReadStats ==
    /\ tokens' = [tokens EXCEPT ![Global] = Refilled(Global)]
    /\ last' = [last EXCEPT ![Global] = now]
    /\ UNCHANGED <<kind, enabled, now, existing, call, Settings, Bookkeeping>>

Tick ==
    /\ now < MaxTime
    /\ now' = now + 1
    /\ mark' = [b \in Buckets |-> [mark[b] EXCEPT ![now + 1] = used[b]]]
    /\ UNCHANGED <<kind, enabled, tokens, last, existing, call, used, Settings>>

Next ==
    \/ \E p \in Threads :
         \/ \E t \in Topics : Call(p, t)
         \/ AskGlobal(p) \/ MakeBucket(p) \/ FindBucket(p) \/ AskTopic(p)
    \/ \E on \in BOOLEAN : Switch(on)
    \/ Reset \/ ReadStats
    \/ \E r \in 0..PeakRate[Global] : SetRate(r)
    \/ \E n \in 0..PeakBurst[Global] : SetBurst(n)
    \/ Tick

Spec == Init /\ [][Next]_vars

----------------------------------------------------------------------------
\* Type invariant.
TypeOK ==
    /\ kind \in {"client", "server"}
    /\ enabled \in BOOLEAN
    /\ now \in 0..MaxTime
    /\ tokens \in [Buckets -> Nat]
    /\ last \in [Buckets -> 0..MaxTime]
    /\ \A b \in Buckets : last[b] <= now
    /\ rate \in [Buckets -> Nat]
    /\ burst \in [Buckets -> Nat]
    /\ existing \subseteq Topics
    /\ call \in [Threads -> Calls]
    /\ used \in [Buckets -> Nat]
    /\ mark \in [Buckets -> [0..MaxTime -> Nat]]

\* Whatever threads ask when, whatever the setters did, and however a bucket is
\* refilled: from the start of any tick until now no bucket has given more than
\* a full bucket and what the ticks since then have added (rate_limiter.py: the
\* token buckets "prevent an agent's burst from overloading the broker").
RateKept ==
    \A b \in Buckets : \A t \in 0..now :
      used[b] - mark[b][t] <= PeakBurst[b] + (now - t) * PeakRate[b]
=============================================================================
