------------------------- MODULE RateLimiterProofs -------------------------
(***************************************************************************)
(* Proofs that the limiters keep their rate, for any threads, topics,      *)
(* rates, capacities and lengths of the clock.                             *)
(***************************************************************************)
EXTENDS RateLimiter, TLAPS

(***************************************************************************)
(* Arithmetic.                                                             *)
(***************************************************************************)

\* A number of ticks at some rate gives a number of units.
LEMMA ProductNat == ASSUME NEW m \in Nat, NEW n \in Nat PROVE m * n \in Nat
  OBVIOUS

\* More units per tick are more units.
LEMMA ProductMonotone ==
  ASSUME NEW m \in Nat, NEW r \in Nat, NEW s \in Nat, r <= s
  PROVE  m * r <= m * s
<1>1. PICK d \in Nat : s = r + d
  <2>1. s - r \in Nat /\ s = r + (s - r)
    OBVIOUS
  <2> QED  BY <2>1
<1>2. m * s = m * r + m * d
  BY <1>1
<1>3. m * d \in Nat /\ m * r \in Nat
  BY ProductNat
<1> QED  BY <1>2, <1>3

\* One tick more.
LEMMA ProductNext ==
  ASSUME NEW m \in Nat, NEW n \in Nat, n <= m, NEW r \in Nat
  PROVE  ((m + 1) - n) * r = (m - n) * r + r
<1>1. (m + 1) - n = (m - n) + 1 /\ m - n \in Nat
  OBVIOUS
<1>2. ((m - n) + 1) * r = (m - n) * r + r
  BY <1>1
<1> QED  BY <1>1, <1>2

(***************************************************************************)
(* Helpers of the model.                                                   *)
(***************************************************************************)

\* _refill() fills a bucket with no more than it holds and than has come.
LEMMA RefilledType ==
  ASSUME TypeOK, NEW b \in Buckets
  PROVE  /\ Refilled(b) \in Nat
         /\ Refilled(b) <= burst[b]
         /\ Refilled(b) <= tokens[b] + (now - last[b]) * rate[b]
<1>1. now - last[b] \in Nat /\ rate[b] \in Nat /\ tokens[b] \in Nat /\ burst[b] \in Nat
  BY LimiterAssumption DEF TypeOK
<1>2. (now - last[b]) * rate[b] \in Nat
  BY <1>1, ProductNat
<1> QED  BY <1>1, <1>2 DEF Refilled, Lesser

\* What consume() does to a bucket keeps its types.
LEMMA ConsumeType ==
  ASSUME TypeOK, NEW b \in Buckets, NEW granted \in BOOLEAN, Consume(b, granted)
  PROVE  /\ tokens' \in [Buckets -> Nat]
         /\ last' \in [Buckets -> 0..MaxTime]
         /\ \A c \in Buckets : last'[c] <= now
         /\ used' \in [Buckets -> Nat]
         /\ mark' \in [Buckets -> [0..MaxTime -> Nat]]
<1>1. Refilled(b) \in Nat /\ Cost \in Nat
  BY RefilledType, LimiterAssumption
<1>2. /\ last' \in [Buckets -> 0..MaxTime]
      /\ \A c \in Buckets : last'[c] <= now
  BY DEF TypeOK, Consume
<1>3. CASE granted
  <2>1. Refilled(b) >= Cost
    BY <1>3, Zenon DEF Consume
  <2>2. tokens' = [tokens EXCEPT ![b] = Refilled(b) - Cost]
    BY <1>3 DEF Consume
  <2>3. used[b] + Cost \in Nat
    BY <1>1 DEF TypeOK
  <2>4. used' = [used EXCEPT ![b] = used[b] + Cost]
    BY <1>3 DEF Consume
  <2>5. Refilled(b) - Cost \in Nat
    BY <1>1, <2>1
  <2>6. tokens' \in [Buckets -> Nat] /\ used' \in [Buckets -> Nat]
    BY <2>2, <2>3, <2>4, <2>5 DEF TypeOK
  <2> QED  BY <1>2, <2>6 DEF TypeOK, Consume
<1>4. CASE ~granted
  <2>1. tokens' = [tokens EXCEPT ![b] = Refilled(b)]
    BY <1>4 DEF Consume
  <2>2. used' = [used EXCEPT ![b] = used[b]]
    BY <1>4 DEF Consume
  <2> QED  BY <1>1, <1>2, <2>1, <2>2 DEF TypeOK, Consume
<1> QED  BY <1>3, <1>4

\* So does asking it, or one that a reset has replaced.
LEMMA AskedType ==
  ASSUME TypeOK, NEW p \in Threads, NEW b \in Buckets, NEW granted \in BOOLEAN,
         Asked(p, b, granted)
  PROVE  /\ tokens' \in [Buckets -> Nat]
         /\ last' \in [Buckets -> 0..MaxTime]
         /\ \A c \in Buckets : last'[c] <= now
         /\ used' \in [Buckets -> Nat]
         /\ mark' \in [Buckets -> [0..MaxTime -> Nat]]
<1>1. CASE call[p].stale
  BY <1>1 DEF Asked, TypeOK
<1>2. CASE ~call[p].stale
  BY <1>2, ConsumeType DEF Asked
<1> QED  BY <1>1, <1>2

\* Where a call is determines what is known of it.
LEMMA CallShape ==
  ASSUME TypeOK, NEW p \in Threads
  PROVE  /\ At(p, "find") => call[p] \in [at : {"find"}, topic : Topics]
         /\ At(p, "global") \/ At(p, "topic") =>
              call[p] \in [at : {"global", "topic"}, topic : Topics, stale : BOOLEAN]
  BY DEF TypeOK, Calls, At, Idle

(***************************************************************************)
(* Type correctness.                                                       *)
(***************************************************************************)

\* The first states are well typed.
LEMMA InitType == Init => TypeOK
  BY LimiterAssumption DEF Init, TypeOK, Calls, Idle

\* Every step keeps the types.
LEMMA NextType == TypeOK /\ [Next]_vars => TypeOK'
<1> SUFFICES ASSUME TypeOK, [Next]_vars PROVE TypeOK'
  OBVIOUS
<1> USE LimiterAssumption DEF Settings, Bookkeeping
<1>1. ASSUME NEW p \in Threads, NEW t \in Topics, Call(p, t) PROVE TypeOK'
  <2>1. [at |-> "global", topic |-> t, stale |-> FALSE] \in Calls
    BY DEF Calls
  <2>2. call' \in [Threads -> Calls]
    BY <1>1, <2>1 DEF Call, TypeOK
  <2> QED  BY <1>1, <2>2 DEF Call, TypeOK
<1>2. ASSUME NEW p \in Threads, AskGlobal(p) PROVE TypeOK'
  <2>1. PICK granted \in BOOLEAN :
          /\ Asked(p, Global, granted)
          /\ IF granted
               THEN call' = [call EXCEPT ![p] = [at |-> "find", topic |-> call[p].topic]]
               ELSE Returns(p)
    BY <1>2 DEF AskGlobal
  <2>2. Global \in Buckets
    BY DEF Buckets
  <2>3. call[p].topic \in Topics
    BY <1>2, CallShape DEF AskGlobal
  <2>4. [at |-> "find", topic |-> call[p].topic] \in Calls /\ Idle \in Calls
    BY <2>3 DEF Calls
  <2>5. call' \in [Threads -> Calls]
    BY <2>1, <2>4 DEF TypeOK, Returns
  <2>6. UNCHANGED <<kind, enabled, now, existing, rate, burst>>
    BY <1>2 DEF AskGlobal
  <2>7. /\ tokens' \in [Buckets -> Nat]
        /\ last' \in [Buckets -> 0..MaxTime]
        /\ \A c \in Buckets : last'[c] <= now
        /\ used' \in [Buckets -> Nat]
        /\ mark' \in [Buckets -> [0..MaxTime -> Nat]]
    BY <2>1, <2>2, AskedType
  <2> QED  BY <2>5, <2>6, <2>7 DEF TypeOK
<1>3. ASSUME NEW p \in Threads, MakeBucket(p) PROVE TypeOK'
  <2>1. call[p].topic \in Topics /\ call[p].topic \in Buckets
    BY <1>3, CallShape DEF MakeBucket, Buckets
  <2>2. [at |-> "topic", topic |-> call[p].topic, stale |-> FALSE] \in Calls
    BY <2>1 DEF Calls
  <2>3. call' \in [Threads -> Calls] /\ existing' \subseteq Topics
    BY <1>3, <2>1, <2>2 DEF MakeBucket, TypeOK
  <2>4. /\ tokens' \in [Buckets -> Nat]
        /\ last' \in [Buckets -> 0..MaxTime]
        /\ \A b \in Buckets : last'[b] <= now
    <3>1. CASE call[p].topic \in existing
      BY <1>3, <3>1 DEF MakeBucket, TypeOK
    <3>2. CASE call[p].topic \notin existing
      <4>1. /\ tokens' = [tokens EXCEPT ![call[p].topic] = burst[call[p].topic]]
            /\ last' = [last EXCEPT ![call[p].topic] = now]
        BY <1>3, <3>2 DEF MakeBucket
      <4>2. burst[call[p].topic] \in Nat
        BY <2>1 DEF TypeOK
      <4>3. tokens' \in [Buckets -> Nat]
        BY <4>1, <4>2 DEF TypeOK
      <4>4. last' \in [Buckets -> 0..MaxTime]
        BY <4>1 DEF TypeOK
      <4>5. \A b \in Buckets : last'[b] <= now
        BY <4>1 DEF TypeOK
      <4> QED  BY <4>3, <4>4, <4>5
    <3> QED  BY <3>1, <3>2
  <2>5. UNCHANGED <<kind, enabled, now, rate, burst, used, mark>>
    BY <1>3 DEF MakeBucket
  <2> QED  BY <2>3, <2>4, <2>5 DEF TypeOK
<1>4. ASSUME NEW p \in Threads, FindBucket(p) PROVE TypeOK'
  <2>1. call[p].topic \in Topics
    BY <1>4, CallShape DEF FindBucket
  <2>2. [at |-> "topic", topic |-> call[p].topic, stale |-> FALSE] \in Calls /\ Idle \in Calls
    BY <2>1 DEF Calls
  <2>3. call' \in [Threads -> Calls]
    BY <1>4, <2>2 DEF FindBucket, Returns, TypeOK
  <2> QED  BY <1>4, <2>3 DEF FindBucket, TypeOK
<1>5. ASSUME NEW p \in Threads, AskTopic(p) PROVE TypeOK'
  <2>1. call[p].topic \in Buckets
    BY <1>5, CallShape DEF AskTopic, Buckets
  <2>2. PICK granted \in BOOLEAN : Asked(p, call[p].topic, granted)
    BY <1>5 DEF AskTopic
  <2>3. call' \in [Threads -> Calls]
    BY <1>5 DEF AskTopic, Returns, TypeOK, Calls
  <2>4. UNCHANGED <<kind, enabled, now, existing, rate, burst>>
    BY <1>5 DEF AskTopic
  <2>5. /\ tokens' \in [Buckets -> Nat]
        /\ last' \in [Buckets -> 0..MaxTime]
        /\ \A c \in Buckets : last'[c] <= now
        /\ used' \in [Buckets -> Nat]
        /\ mark' \in [Buckets -> [0..MaxTime -> Nat]]
    BY <2>1, <2>2, AskedType
  <2> QED  BY <2>3, <2>4, <2>5 DEF TypeOK
<1>6. ASSUME NEW on \in BOOLEAN, Switch(on) PROVE TypeOK'
  BY <1>6 DEF Switch, TypeOK
<1>7. ASSUME Reset PROVE TypeOK'
  <2>1. ASSUME NEW p \in Threads PROVE Orphaned[p] \in Calls
    <3>1. CASE At(p, "global") \/ At(p, "topic")
      BY <3>1, CallShape DEF Orphaned, Calls
    <3>2. CASE ~(At(p, "global") \/ At(p, "topic"))
      BY <3>2 DEF Orphaned, TypeOK
    <3> QED  BY <3>1, <3>2
  <2>2. call' \in [Threads -> Calls]
    BY <1>7, <2>1 DEF Reset, Orphaned
  <2>3. mark' \in [Buckets -> [0..MaxTime -> Nat]] /\ used' \in [Buckets -> Nat]
    BY <1>7 DEF Reset
  <2>4. tokens' \in [Buckets -> Nat] /\ last' \in [Buckets -> 0..MaxTime]
    BY <1>7 DEF Reset, TypeOK
  <2> QED  BY <1>7, <2>2, <2>3, <2>4 DEF Reset, TypeOK
<1>8. ASSUME ReadStats PROVE TypeOK'
  <2>1. Refilled(Global) \in Nat
    BY RefilledType DEF Buckets
  <2>2. tokens' \in [Buckets -> Nat]
    BY <1>8, <2>1 DEF ReadStats, TypeOK
  <2>3. last' = [last EXCEPT ![Global] = now]
    BY <1>8 DEF ReadStats
  <2>4. last' \in [Buckets -> 0..MaxTime]
    BY <2>3 DEF TypeOK
  <2>5. \A b \in Buckets : last'[b] <= now
    BY <2>3 DEF TypeOK
  <2>6. UNCHANGED <<kind, enabled, now, existing, call, rate, burst, used, mark>>
    BY <1>8 DEF ReadStats
  <2> QED  BY <2>2, <2>4, <2>5, <2>6 DEF TypeOK
<1>9. ASSUME NEW r \in 0..PeakRate[Global], SetRate(r) PROVE TypeOK'
  <2>1. r \in Nat
    BY DEF Buckets
  <2> QED  BY <1>9, <2>1 DEF SetRate, TypeOK
<1>10. ASSUME NEW n \in 0..PeakBurst[Global], SetBurst(n) PROVE TypeOK'
  <2>1. n \in Nat
    BY DEF Buckets
  <2> QED  BY <1>10, <2>1 DEF SetBurst, TypeOK
<1>11. ASSUME Tick PROVE TypeOK'
  <2>1. mark' \in [Buckets -> [0..MaxTime -> Nat]]
    BY <1>11 DEF Tick, TypeOK
  <2>2. now' \in 0..MaxTime /\ now <= now'
    BY <1>11 DEF Tick, TypeOK
  <2>3. \A b \in Buckets : last'[b] <= now'
    BY <1>11 DEF Tick, TypeOK
  <2> QED  BY <1>11, <2>1, <2>2, <2>3 DEF Tick, TypeOK
<1>12. CASE UNCHANGED vars
  BY <1>12 DEF vars, TypeOK
<1> QED
  BY <1>1, <1>2, <1>3, <1>4, <1>5, <1>6, <1>7, <1>8, <1>9, <1>10, <1>11, <1>12 DEF Next

\* The state of the limiters is well typed.
THEOREM LimiterTypeCorrect == Spec => []TypeOK
  BY InitType, NextType, PTL DEF Spec

(***************************************************************************)
(* The rate.  A bound on what has been taken is not inductive by itself:   *)
(* what is in a bucket may be taken next, and so may what the time since   *)
(* the last refill will bring.                                             *)
(***************************************************************************)

\* What could be taken from a bucket now, with the highest settings.
Level(b) == Lesser(PeakBurst[b], tokens[b] + (now - last[b]) * PeakRate[b])

SettingsBounded ==
    \A b \in Buckets : rate[b] <= PeakRate[b] /\ burst[b] <= PeakBurst[b]

\* Nothing was taken from a bucket that is not made yet.
UnmadeUnused == \A b \in Topics \ existing : used[b] = 0

AskedExist == \A p \in Threads : At(p, "topic") => call[p].topic \in existing

\* What was taken since a tick, and what could be taken now.
PotentialKept ==
    \A b \in Buckets : \A t \in 0..now :
      used[b] - mark[b][t] + Level(b) <= PeakBurst[b] + (now - t) * PeakRate[b]

RateInv ==
    /\ TypeOK
    /\ SettingsBounded
    /\ UnmadeUnused
    /\ AskedExist
    /\ PotentialKept

\* What could be taken is a number of units, at most a full bucket.
LEMMA LevelType ==
  ASSUME TypeOK, NEW b \in Buckets
  PROVE  /\ Level(b) \in Nat
         /\ Level(b) <= PeakBurst[b]
         /\ PeakBurst[b] \in Nat
         /\ PeakRate[b] \in Nat
<1>1. /\ now - last[b] \in Nat /\ tokens[b] \in Nat
      /\ PeakRate[b] \in Nat /\ PeakBurst[b] \in Nat
  BY LimiterAssumption DEF TypeOK
<1>2. (now - last[b]) * PeakRate[b] \in Nat
  BY <1>1, ProductNat
<1> QED  BY <1>1, <1>2 DEF Level, Lesser

\* What was taken up to a tick is on record.
LEMMA MarkType ==
  ASSUME TypeOK, NEW b \in Buckets, NEW t \in 0..now
  PROVE  /\ now \in Nat /\ t \in 0..MaxTime /\ now - t \in Nat
         /\ mark[b][t] \in Nat
         /\ used[b] \in Nat
<1>1. now \in Nat /\ now <= MaxTime /\ MaxTime \in Nat
  BY LimiterAssumption DEF TypeOK
<1>2. t \in 0..MaxTime /\ now - t \in Nat
  BY <1>1
<1>3. mark[b] \in [0..MaxTime -> Nat] /\ used[b] \in Nat
  BY DEF TypeOK
<1>4. mark[b][t] \in Nat
  BY <1>2, <1>3
<1> QED  BY <1>1, <1>2, <1>3, <1>4

\* A bucket holds no more than could be taken from it.
LEMMA RefilledBelowLevel ==
  ASSUME TypeOK, SettingsBounded, NEW b \in Buckets
  PROVE  Refilled(b) <= Level(b)
<1>1. now - last[b] \in Nat /\ rate[b] \in Nat /\ tokens[b] \in Nat /\ burst[b] \in Nat
  BY LimiterAssumption DEF TypeOK
<1>2. PeakRate[b] \in Nat /\ PeakBurst[b] \in Nat
  BY LimiterAssumption
<1>3. rate[b] <= PeakRate[b] /\ burst[b] <= PeakBurst[b]
  BY DEF SettingsBounded
<1>4. (now - last[b]) * rate[b] <= (now - last[b]) * PeakRate[b]
  BY <1>1, <1>2, <1>3, ProductMonotone
<1>5. /\ (now - last[b]) * rate[b] \in Nat
      /\ (now - last[b]) * PeakRate[b] \in Nat
  BY <1>1, <1>2, ProductNat
<1> QED  BY <1>1, <1>2, <1>3, <1>4, <1>5 DEF Refilled, Level, Lesser

\* A step within a tick that moves what could be taken into what was taken, or
\* loses it, keeps the bound.
LEMMA PotentialStep ==
  ASSUME TypeOK, TypeOK', PotentialKept, now' = now, mark' = mark,
         \A b \in Buckets : used'[b] + Level(b)' <= used[b] + Level(b)
  PROVE  PotentialKept'
<1> SUFFICES ASSUME NEW b \in Buckets, NEW t \in 0..now
             PROVE  used'[b] - mark[b][t] + Level(b)'
                      <= PeakBurst[b] + (now - t) * PeakRate[b]
  BY DEF PotentialKept
<1>1. used[b] - mark[b][t] + Level(b) <= PeakBurst[b] + (now - t) * PeakRate[b]
  BY DEF PotentialKept
<1>2. used'[b] + Level(b)' <= used[b] + Level(b)
  OBVIOUS
<1>3. used[b] \in Nat /\ used'[b] \in Nat /\ mark[b][t] \in Nat
  <2>1. used'[b] \in Nat
    BY DEF TypeOK
  <2> QED  BY <2>1, MarkType
<1>4. Level(b) \in Nat /\ PeakBurst[b] \in Nat /\ PeakRate[b] \in Nat
  BY LevelType
<1>5. Level(b)' \in Nat
  <2>1. now' - last'[b] \in Nat /\ tokens'[b] \in Nat
    BY DEF TypeOK
  <2>2. (now' - last'[b]) * PeakRate[b] \in Nat
    BY <1>4, <2>1, ProductNat
  <2> QED  BY <1>4, <2>1, <2>2 DEF Level, Lesser
<1>6. now - t \in Nat
  BY MarkType
<1>7. (now - t) * PeakRate[b] \in Nat
  BY <1>4, <1>6, ProductNat
<1> QED  BY <1>1, <1>2, <1>3, <1>4, <1>5, <1>7

(***************************************************************************)
(* The steps.                                                              *)
(***************************************************************************)

\* consume() takes no more than could be taken.
LEMMA ConsumeLowers ==
  ASSUME TypeOK, TypeOK', SettingsBounded, now' = now,
         NEW b \in Buckets, NEW granted \in BOOLEAN, Consume(b, granted)
  PROVE  \A c \in Buckets : used'[c] + Level(c)' <= used[c] + Level(c)
<1> SUFFICES ASSUME NEW c \in Buckets
             PROVE  used'[c] + Level(c)' <= used[c] + Level(c)
  OBVIOUS
<1>1. CASE c # b
  <2>1. used'[c] = used[c] /\ tokens'[c] = tokens[c] /\ last'[c] = last[c]
    BY <1>1 DEF Consume, TypeOK
  <2>2. Level(c)' = Level(c)
    BY <2>1 DEF Level
  <2>3. used[c] \in Nat /\ Level(c) \in Nat
    BY LevelType DEF TypeOK
  <2> QED  BY <2>1, <2>2, <2>3
<1>2. CASE c = b
  <2>1. Refilled(b) <= Level(b) /\ Refilled(b) \in Nat /\ Level(b) \in Nat /\ Cost \in Nat
    BY RefilledBelowLevel, RefilledType, LevelType, LimiterAssumption
  <2>2. last'[b] = now
    BY DEF Consume, TypeOK
  <2>3. Level(b)' <= tokens'[b] /\ Level(b)' \in Nat
    <3>1. tokens'[b] \in Nat /\ now' - last'[b] = 0
      BY <2>2 DEF TypeOK
    <3>2. PeakRate[b] \in Nat /\ PeakBurst[b] \in Nat
      BY LimiterAssumption
    <3>3. 0 * PeakRate[b] = 0
      BY <3>2
    <3> QED  BY <3>1, <3>2, <3>3 DEF Level, Lesser
  <2>4. used[b] \in Nat /\ tokens'[b] \in Nat
    BY DEF TypeOK
  <2>5. CASE granted
    <3>1. tokens'[b] = Refilled(b) - Cost /\ used'[b] = used[b] + Cost
      BY <2>5 DEF Consume, TypeOK
    <3> QED  BY <1>2, <2>1, <2>3, <2>4, <3>1
  <2>6. CASE ~granted
    <3>1. tokens'[b] = Refilled(b) /\ used'[b] = used[b]
      BY <2>6 DEF Consume, TypeOK
    <3> QED  BY <1>2, <2>1, <2>3, <2>4, <3>1
  <2> QED  BY <2>5, <2>6
<1> QED  BY <1>1, <1>2

\* Nothing about the buckets has changed.
LEMMA PotentialUnchanged ==
  ASSUME TypeOK, TypeOK', PotentialKept,
         UNCHANGED <<now, tokens, last, used, mark>>
  PROVE  PotentialKept'
<1>1. \A b \in Buckets : Level(b)' = Level(b)
  BY DEF Level
<1>2. \A b \in Buckets : used[b] \in Nat /\ Level(b) \in Nat
  BY LevelType DEF TypeOK
<1>3. \A b \in Buckets : used'[b] + Level(b)' <= used[b] + Level(b)
  BY <1>1, <1>2
<1> QED  BY <1>3, PotentialStep

\* Neither does a bucket that is asked give more.
LEMMA PotentialAsked ==
  ASSUME TypeOK, TypeOK', SettingsBounded, PotentialKept, now' = now,
         NEW p \in Threads, NEW b \in Buckets, NEW granted \in BOOLEAN,
         Asked(p, b, granted)
  PROVE  PotentialKept'
<1>1. CASE call[p].stale
  BY <1>1, PotentialUnchanged DEF Asked
<1>2. CASE ~call[p].stale
  <2>1. Consume(b, granted)
    BY <1>2 DEF Asked
  <2>2. \A c \in Buckets : used'[c] + Level(c)' <= used[c] + Level(c)
    BY <2>1, ConsumeLowers
  <2>3. mark' = mark
    BY <2>1 DEF Consume
  <2> QED  BY <2>2, <2>3, PotentialStep
<1> QED  BY <1>1, <1>2

\* The invariant holds at first.
LEMMA PotentialInit == Init => PotentialKept /\ SettingsBounded /\ UnmadeUnused /\ AskedExist
<1> SUFFICES ASSUME Init
             PROVE  PotentialKept /\ SettingsBounded /\ UnmadeUnused /\ AskedExist
  OBVIOUS
<1>1. TypeOK
  BY InitType
<1>2. PotentialKept
  <2> SUFFICES ASSUME NEW b \in Buckets, NEW t \in 0..now
               PROVE  used[b] - mark[b][t] + Level(b)
                        <= PeakBurst[b] + (now - t) * PeakRate[b]
    BY DEF PotentialKept
  <2>1. t = 0 /\ now = 0 /\ MaxTime \in Nat
    BY LimiterAssumption DEF Init
  <2>2. used[b] = 0 /\ mark[b][t] = 0
    BY <2>1 DEF Init
  <2>3. Level(b) \in Nat /\ Level(b) <= PeakBurst[b] /\ PeakBurst[b] \in Nat /\ PeakRate[b] \in Nat
    BY <1>1, LevelType
  <2>4. (now - t) * PeakRate[b] = 0
    BY <2>1, <2>3
  <2> QED  BY <2>2, <2>3, <2>4
<1>3. SettingsBounded
  BY LimiterAssumption DEF Init, SettingsBounded
<1>4. UnmadeUnused
  BY DEF Init, UnmadeUnused, Buckets
<1>5. AskedExist
  BY DEF Init, AskedExist, At, Idle
<1> QED  BY <1>2, <1>3, <1>4, <1>5

\* Every step keeps the invariant.
LEMMA NextRate == RateInv /\ TypeOK' /\ [Next]_vars => RateInv'
<1> SUFFICES ASSUME RateInv, TypeOK', [Next]_vars PROVE RateInv'
  OBVIOUS
<1>a. TypeOK /\ SettingsBounded /\ UnmadeUnused /\ AskedExist /\ PotentialKept
  BY DEF RateInv
<1> USE DEF Settings, Bookkeeping
<1> DEFINE Kept == PotentialKept' /\ SettingsBounded' /\ UnmadeUnused' /\ AskedExist'
<1>1. ASSUME NEW p \in Threads, NEW t \in Topics, Call(p, t) PROVE Kept
  <2>1. PotentialKept'
    BY <1>1, <1>a, PotentialUnchanged DEF Call
  <2>2. SettingsBounded' /\ UnmadeUnused'
    BY <1>1, <1>a DEF Call, SettingsBounded, UnmadeUnused
  <2>3. AskedExist'
    BY <1>1, <1>a DEF Call, AskedExist, At, Idle, TypeOK
  <2> QED  BY <2>1, <2>2, <2>3
<1>2. ASSUME NEW p \in Threads, AskGlobal(p) PROVE Kept
  <2>1. PICK granted \in BOOLEAN :
          /\ Asked(p, Global, granted)
          /\ IF granted
               THEN call' = [call EXCEPT ![p] = [at |-> "find", topic |-> call[p].topic]]
               ELSE Returns(p)
    BY <1>2 DEF AskGlobal
  <2>2. UNCHANGED <<kind, enabled, now, existing, rate, burst>> /\ Global \in Buckets
    BY <1>2 DEF AskGlobal, Buckets
  <2>3. PotentialKept'
    BY <1>a, <2>1, <2>2, PotentialAsked
  <2>4. SettingsBounded'
    BY <1>a, <2>2 DEF SettingsBounded
  <2>5. UnmadeUnused'
    BY <1>a, <2>1, <2>2, LimiterAssumption
       DEF UnmadeUnused, Asked, Consume, Buckets, TypeOK
  <2>6. AskedExist'
    <3>1. CASE granted
      <4> DEFINE finding == [at |-> "find", topic |-> call[p].topic]
      <4>1. call' = [call EXCEPT ![p] = finding]
        BY <2>1, <3>1
      <4>2. finding.at = "find"
        OBVIOUS
      <4> HIDE DEF finding
      <4> QED  BY <1>a, <2>2, <4>1, <4>2 DEF AskedExist, At, TypeOK
    <3>2. CASE ~granted
      BY <1>a, <2>1, <2>2, <3>2 DEF AskedExist, At, Idle, Returns, TypeOK
    <3> QED  BY <3>1, <3>2
  <2> QED  BY <2>3, <2>4, <2>5, <2>6
<1>3. ASSUME NEW p \in Threads, MakeBucket(p) PROVE Kept
  <2> DEFINE b == call[p].topic
  <2>1. b \in Topics /\ b \in Buckets
    BY <1>3, <1>a, CallShape DEF MakeBucket, Buckets
  <2>2. /\ UNCHANGED <<now, rate, burst, used, mark>>
        /\ existing' = existing \cup {b}
        /\ call' = [call EXCEPT ![p] = [at |-> "topic", topic |-> b, stale |-> FALSE]]
    BY <1>3 DEF MakeBucket
  <2>3. PotentialKept'
    <3>1. CASE b \in existing
      <4>1. UNCHANGED <<tokens, last>>
        BY <1>3, <3>1 DEF MakeBucket
      <4> QED  BY <1>a, <2>2, <4>1, PotentialUnchanged
    <3>2. CASE b \notin existing
      <4>1. /\ tokens' = [tokens EXCEPT ![b] = burst[b]]
            /\ last' = [last EXCEPT ![b] = now]
        BY <1>3, <3>2 DEF MakeBucket
      <4> SUFFICES ASSUME NEW c \in Buckets, NEW t \in 0..now
                   PROVE  used[c] - mark[c][t] + Level(c)'
                            <= PeakBurst[c] + (now - t) * PeakRate[c]
        BY <2>2 DEF PotentialKept
      <4>2. CASE c # b
        <5>1. Level(c)' = Level(c)
          BY <1>a, <2>2, <4>1, <4>2 DEF Level, TypeOK
        <5> QED  BY <1>a, <5>1 DEF PotentialKept
      <4>3. CASE c = b
        <5>1. used[c] = 0
          BY <1>a, <2>1, <3>2, <4>3 DEF UnmadeUnused
        <5>2. mark[c][t] \in Nat /\ now - t \in Nat
          BY <1>a, MarkType
        <5>3. PeakBurst[c] \in Nat /\ PeakRate[c] \in Nat
          BY LimiterAssumption
        <5>4. Level(c)' \in Nat /\ Level(c)' <= PeakBurst[c]
          <6>1. tokens'[c] \in Nat /\ last'[c] = now /\ now' = now /\ now \in Nat
            BY <1>a, <2>1, <2>2, <4>1, <4>3 DEF TypeOK
          <6>2. (now - now) * PeakRate[c] = 0
            BY <5>3, <6>1
          <6> QED  BY <5>3, <6>1, <6>2 DEF Level, Lesser
        <5>5. (now - t) * PeakRate[c] \in Nat
          BY <5>2, <5>3, ProductNat
        <5> QED  BY <5>1, <5>2, <5>3, <5>4, <5>5
      <4> QED  BY <4>2, <4>3
    <3> QED  BY <3>1, <3>2
  <2>4. SettingsBounded' /\ UnmadeUnused'
    BY <1>a, <2>2 DEF SettingsBounded, UnmadeUnused
  <2>5. AskedExist'
    BY <1>a, <2>2 DEF AskedExist, At, Idle, TypeOK
  <2> QED  BY <2>3, <2>4, <2>5
<1>4. ASSUME NEW p \in Threads, FindBucket(p) PROVE Kept
  <2>1. PotentialKept'
    BY <1>4, <1>a, PotentialUnchanged DEF FindBucket
  <2>2. SettingsBounded' /\ UnmadeUnused'
    BY <1>4, <1>a DEF FindBucket, SettingsBounded, UnmadeUnused
  <2>3. AskedExist'
    <3> DEFINE asking == [at |-> "topic", topic |-> call[p].topic, stale |-> FALSE]
    <3>1. existing' = existing
      BY <1>4 DEF FindBucket
    <3>2. CASE call[p].topic \in existing
      <4>1. call' = [call EXCEPT ![p] = asking]
        BY <1>4, <3>2 DEF FindBucket
      <4>2. asking.topic \in existing
        BY <3>2
      <4> QED  BY <1>a, <3>1, <4>1, <4>2 DEF AskedExist, At, Idle, TypeOK
    <3>3. CASE call[p].topic \notin existing
      <4>1. call' = [call EXCEPT ![p] = Idle]
        BY <1>4, <3>3 DEF FindBucket, Returns
      <4> QED  BY <1>a, <3>1, <4>1 DEF AskedExist, At, Idle, TypeOK
    <3> QED  BY <3>2, <3>3
  <2> QED  BY <2>1, <2>2, <2>3
<1>5. ASSUME NEW p \in Threads, AskTopic(p) PROVE Kept
  <2> DEFINE b == call[p].topic
  <2>1. b \in Topics /\ b \in Buckets /\ b \in existing
    BY <1>5, <1>a, CallShape DEF AskTopic, Buckets, AskedExist
  <2>2. PICK granted \in BOOLEAN : Asked(p, b, granted)
    BY <1>5 DEF AskTopic
  <2>3. UNCHANGED <<kind, enabled, now, existing, rate, burst>> /\ Returns(p)
    BY <1>5 DEF AskTopic
  <2>4. PotentialKept'
    BY <1>a, <2>1, <2>2, <2>3, PotentialAsked
  <2>5. SettingsBounded'
    BY <1>a, <2>3 DEF SettingsBounded
  <2>6. UnmadeUnused'
    BY <1>a, <2>1, <2>2, <2>3 DEF UnmadeUnused, Asked, Consume, Buckets, TypeOK
  <2>7. AskedExist'
    BY <1>a, <2>3 DEF AskedExist, At, Idle, Returns, TypeOK
  <2> QED  BY <2>4, <2>5, <2>6, <2>7
<1>6. ASSUME NEW on \in BOOLEAN, Switch(on) PROVE Kept
  <2>1. PotentialKept'
    BY <1>6, <1>a, PotentialUnchanged DEF Switch
  <2> QED
    BY <1>6, <1>a, <2>1 DEF Switch, SettingsBounded, UnmadeUnused, AskedExist, At, Idle
<1>7. ASSUME Reset PROVE Kept
  <2>1. PotentialKept'
    <3> SUFFICES ASSUME NEW b \in Buckets, NEW t \in 0..now
                 PROVE  used'[b] - mark'[b][t] + Level(b)'
                          <= PeakBurst[b] + (now - t) * PeakRate[b]
      BY <1>7 DEF PotentialKept, Reset
    <3>1. now \in 0..MaxTime /\ MaxTime \in Nat
      BY <1>a, LimiterAssumption DEF TypeOK
    <3>2. used'[b] = 0 /\ mark'[b][t] = 0
      BY <1>7, <3>1 DEF Reset
    <3>3. PeakBurst[b] \in Nat /\ PeakRate[b] \in Nat /\ now - t \in Nat
      BY <3>1, LimiterAssumption
    <3>4. Level(b)' \in Nat /\ Level(b)' <= PeakBurst[b]
      <4>1. tokens'[b] \in Nat /\ last'[b] = now /\ now' = now
        BY <1>7, <1>a DEF Reset, TypeOK
      <4>2. (now - now) * PeakRate[b] = 0
        BY <3>1, <3>3
      <4> QED  BY <3>3, <4>1, <4>2 DEF Level, Lesser
    <3>5. (now - t) * PeakRate[b] \in Nat
      BY <3>3, ProductNat
    <3> QED  BY <3>2, <3>3, <3>4, <3>5
  <2>2. SettingsBounded'
    BY <1>7, <1>a DEF Reset, SettingsBounded
  <2>3. UnmadeUnused'
    BY <1>7 DEF Reset, UnmadeUnused, Buckets
  <2>4. AskedExist'
    <3> SUFFICES ASSUME NEW p \in Threads, At(p, "topic")' PROVE call'[p].topic \in existing
      BY <1>7 DEF AskedExist, Reset
    <3>1. call'[p] = Orphaned[p]
      BY <1>7 DEF Reset
    <3>2. At(p, "topic") /\ call'[p].topic = call[p].topic
      <4>1. CASE At(p, "global") \/ At(p, "topic")
        <5>1. call'[p] = [call[p] EXCEPT !.stale = TRUE]
          BY <3>1, <4>1 DEF Orphaned
        <5>2. call[p] \in [at : {"global", "topic"}, topic : Topics, stale : BOOLEAN]
          BY <1>a, <4>1, CallShape
        <5>3. call'[p].at = call[p].at /\ call'[p].topic = call[p].topic
          BY <5>1, <5>2
        <5> QED  BY <4>1, <5>3 DEF At
      <4>2. CASE ~(At(p, "global") \/ At(p, "topic"))
        BY <3>1, <4>2 DEF Orphaned, At
      <4> QED  BY <4>1, <4>2
    <3> QED  BY <1>a, <3>2 DEF AskedExist
  <2> QED  BY <2>1, <2>2, <2>3, <2>4
<1>8. ASSUME ReadStats PROVE Kept
  <2>1. Global \in Buckets
    BY DEF Buckets
  <2>2. /\ UNCHANGED <<kind, enabled, now, existing, call, rate, burst, used, mark>>
        /\ tokens' = [tokens EXCEPT ![Global] = Refilled(Global)]
        /\ last' = [last EXCEPT ![Global] = now]
    BY <1>8 DEF ReadStats
  <2>3. ASSUME NEW b \in Buckets PROVE used'[b] + Level(b)' <= used[b] + Level(b)
    <3>1. used[b] \in Nat /\ Level(b) \in Nat
      BY <1>a, LevelType DEF TypeOK
    <3>2. CASE b # Global
      <4>1. Level(b)' = Level(b)
        BY <1>a, <2>2, <3>2 DEF Level, TypeOK
      <4> QED  BY <2>2, <3>1, <4>1
    <3>3. CASE b = Global
      <4>1. tokens'[b] = Refilled(b) /\ last'[b] = now /\ now' = now /\ now \in Nat
        BY <1>a, <2>2, <3>3 DEF TypeOK
      <4>2. Refilled(b) \in Nat /\ Refilled(b) <= Level(b)
        BY <1>a, RefilledType, RefilledBelowLevel
      <4>3. PeakBurst[b] \in Nat /\ PeakRate[b] \in Nat
        BY LimiterAssumption
      <4>4. (now - now) * PeakRate[b] = 0
        BY <4>1, <4>3
      <4>5. Level(b)' <= Refilled(b) /\ Level(b)' \in Nat
        BY <4>1, <4>2, <4>3, <4>4 DEF Level, Lesser
      <4> QED  BY <2>2, <3>1, <4>2, <4>5
    <3> QED  BY <3>2, <3>3
  <2>4. PotentialKept'
    BY <1>a, <2>2, <2>3, PotentialStep
  <2> QED
    BY <1>a, <2>2, <2>4 DEF SettingsBounded, UnmadeUnused, AskedExist, At, Idle
<1>9. ASSUME NEW r \in 0..PeakRate[Global], SetRate(r) PROVE Kept
  <2>1. PotentialKept'
    BY <1>9, <1>a, PotentialUnchanged DEF SetRate
  <2>2. SettingsBounded'
    BY <1>9, <1>a, LimiterAssumption DEF SetRate, SettingsBounded, TypeOK, Buckets
  <2> QED
    BY <1>9, <1>a, <2>1, <2>2 DEF SetRate, UnmadeUnused, AskedExist, At, Idle
<1>10. ASSUME NEW n \in 0..PeakBurst[Global], SetBurst(n) PROVE Kept
  <2>1. PotentialKept'
    BY <1>10, <1>a, PotentialUnchanged DEF SetBurst
  <2>2. SettingsBounded'
    BY <1>10, <1>a, LimiterAssumption DEF SetBurst, SettingsBounded, TypeOK, Buckets
  <2> QED
    BY <1>10, <1>a, <2>1, <2>2 DEF SetBurst, UnmadeUnused, AskedExist, At, Idle
<1>11. ASSUME Tick PROVE Kept
  <2>1. PotentialKept'
    <3>1. /\ now \in Nat /\ now' = now + 1 /\ now < MaxTime /\ MaxTime \in Nat
          /\ UNCHANGED <<tokens, last, used>>
          /\ mark' = [b \in Buckets |-> [mark[b] EXCEPT ![now + 1] = used[b]]]
      BY <1>11, <1>a, LimiterAssumption DEF Tick, TypeOK
    <3> SUFFICES ASSUME NEW b \in Buckets, NEW t \in 0..(now + 1)
                 PROVE  used[b] - mark'[b][t] + Level(b)'
                          <= PeakBurst[b] + ((now + 1) - t) * PeakRate[b]
      BY <3>1 DEF PotentialKept
    <3>2. PeakBurst[b] \in Nat /\ PeakRate[b] \in Nat /\ used[b] \in Nat
      BY <1>a, LimiterAssumption DEF TypeOK
    <3>3. last[b] \in Nat /\ last[b] <= now /\ tokens[b] \in Nat
      BY <1>a, <3>1 DEF TypeOK
    <3>4. ((now + 1) - last[b]) * PeakRate[b] = (now - last[b]) * PeakRate[b] + PeakRate[b]
      BY <3>1, <3>2, <3>3, ProductNext
    <3>5. /\ Level(b) \in Nat /\ Level(b)' \in Nat
          /\ Level(b)' <= PeakBurst[b]
          /\ Level(b)' <= Level(b) + PeakRate[b]
      <4>1. (now - last[b]) * PeakRate[b] \in Nat
        <5>1. now - last[b] \in Nat
          BY <3>1, <3>3
        <5> QED  BY <3>2, <5>1, ProductNat
      <4> QED  BY <3>1, <3>2, <3>3, <3>4, <4>1 DEF Level, Lesser
    <3>6. CASE t = now + 1
      <4>1. mark'[b][t] = used[b]
        <5>1. mark[b] \in [0..MaxTime -> Nat]
          BY <1>a DEF TypeOK
        <5>2. now + 1 \in 0..MaxTime
          BY <3>1
        <5> QED  BY <3>1, <3>6, <5>1, <5>2
      <4>2. ((now + 1) - t) * PeakRate[b] = 0
        BY <3>1, <3>2, <3>6
      <4> QED  BY <3>2, <3>5, <4>1, <4>2
    <3>7. CASE t # now + 1
      <4>1. t \in 0..now
        BY <3>1, <3>7
      <4>2. mark'[b][t] = mark[b][t] /\ mark[b][t] \in Nat
        <5>1. mark[b][t] \in Nat
          BY <1>a, <4>1, MarkType
        <5>2. mark[b] \in [0..MaxTime -> Nat]
          BY <1>a DEF TypeOK
        <5>3. mark'[b] = [mark[b] EXCEPT ![now + 1] = used[b]]
          BY <3>1
        <5>4. t \in 0..MaxTime
          BY <3>1, <4>1
        <5> QED  BY <3>7, <5>1, <5>2, <5>3, <5>4
      <4>3. used[b] - mark[b][t] + Level(b) <= PeakBurst[b] + (now - t) * PeakRate[b]
        BY <1>a, <4>1 DEF PotentialKept
      <4>4. ((now + 1) - t) * PeakRate[b] = (now - t) * PeakRate[b] + PeakRate[b]
        <5>1. t \in Nat /\ t <= now
          BY <3>1, <4>1
        <5> QED  BY <3>1, <3>2, <5>1, ProductNext
      <4>5. (now - t) * PeakRate[b] \in Nat
        <5>1. now - t \in Nat
          BY <3>1, <4>1
        <5> QED  BY <3>2, <5>1, ProductNat
      <4> QED  BY <3>2, <3>5, <4>2, <4>3, <4>4, <4>5
    <3> QED  BY <3>6, <3>7
  <2> QED
    BY <1>11, <1>a, <2>1 DEF Tick, SettingsBounded, UnmadeUnused, AskedExist, At, Idle
<1>12. ASSUME UNCHANGED vars PROVE Kept
  <2>1. PotentialKept'
    BY <1>12, <1>a, PotentialUnchanged DEF vars
  <2>2. UNCHANGED <<rate, burst, existing, used, call>>
    BY <1>12 DEF vars
  <2> QED
    BY <1>a, <2>1, <2>2 DEF SettingsBounded, UnmadeUnused, AskedExist, At, Idle
<1> HIDE DEF Kept
<1>13. Kept
  BY <1>1, <1>2, <1>3, <1>4, <1>5, <1>6, <1>7, <1>8, <1>9, <1>10, <1>11, <1>12 DEF Next
<1> QED  BY <1>13 DEF RateInv, Kept

\* The invariant bounds what was taken.
LEMMA RateInvGivesRate == RateInv => RateKept
<1> SUFFICES ASSUME RateInv, NEW b \in Buckets, NEW t \in 0..now
             PROVE  used[b] - mark[b][t] <= PeakBurst[b] + (now - t) * PeakRate[b]
  BY DEF RateKept
<1>1. TypeOK /\ used[b] - mark[b][t] + Level(b) <= PeakBurst[b] + (now - t) * PeakRate[b]
  BY DEF RateInv, PotentialKept
<1>2. Level(b) \in Nat /\ PeakBurst[b] \in Nat /\ PeakRate[b] \in Nat
  BY <1>1, LevelType
<1>3. used[b] \in Nat /\ mark[b][t] \in Nat /\ now - t \in Nat
  BY <1>1, MarkType
<1>4. (now - t) * PeakRate[b] \in Nat
  BY <1>2, <1>3, ProductNat
<1> QED  BY <1>1, <1>2, <1>3, <1>4

\* Over no stretch of time does a bucket give more than it may hold and the time
\* may add, whatever threads, setters and resets do meanwhile.
THEOREM RateIsKept == Spec => []RateKept
<1>1. Init => RateInv
  BY InitType, PotentialInit DEF RateInv
<1>2. RateInv /\ [Next]_vars => RateInv'
  BY NextType, NextRate DEF RateInv
<1>3. RateInv => RateKept
  BY RateInvGivesRate
<1> QED  BY <1>1, <1>2, <1>3, PTL DEF Spec
=============================================================================
