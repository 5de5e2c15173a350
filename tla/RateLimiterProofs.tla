------------------------- MODULE RateLimiterProofs -------------------------
(* Proofs of the properties of RateLimiter, for every number of keys and    *)
(* requests, every rate, burst and ttl, and every size of the map.          *)
EXTENDS RateLimiter, FiniteSetTheorems, TLAPS

----------------------------------------------------------------------------
(* The inductive invariant *)

\* A reservation that its Cancel may still undo.
Pending(r) == pc[r] = "cancel" /\ timeToAct[r] > now

Served(k) == {s \in Reqs : KeyOf[s] = k /\ pc[s] = "served"}

\* Requests of k admitted since a by a bucket that they reached in time.
OnTime(k, a) == {r \in Reqs : KeyOf[r] = k /\ r \notin late /\ Since(at[r], a)}

\* What one bucket admitted since a, on time or late.
By(e, a) == {r \in Reqs : held[r] = e /\ Since(at[r], a)}

N(k, a) == Cardinality(OnTime(k, a))
B(e, a) == Cardinality(By(e, a))
V(k, a) == Cardinality(Thrown(k, a))

(* An entry that nobody has made is full and nowhere.                       *)
Unmade(e) ==
    /\ tokens[e] = Full /\ thrown[e] = NoTime
    /\ \A k \in Keys : bucket[k] # e
    /\ \A r \in Reqs : held[r] # e

Fresh ==
    \A r \in Reqs :
        /\ pc[r] = "start" => Unmade(<<r, "allow">>)
        /\ pc[r] \in {"start", "take", "served", "refused"} => Unmade(<<r, "retry">>)

Past ==
    /\ \A r \in Reqs : (at[r] # NoTime <=> pc[r] = "served") /\ (at[r] # NoTime => at[r] <= now)
    /\ \A r \in late : pc[r] = "served"
    /\ \A e \in Entries : last[e] <= now /\ (thrown[e] # NoTime => thrown[e] <= now)
    /\ \A k \in Live : thrown[bucket[k]] = NoTime

(* Reservations on one bucket stand a period apart, and while one of them   *)
(* lies ahead the bucket owes at least the time until then.                 *)
Debts ==
    /\ \A r \in Reqs : Pending(r) =>
         /\ lastEvent[held[r]] >= timeToAct[r]
         /\ tokens[held[r]] <= now - timeToAct[r]
    /\ \A r, s \in Reqs : r # s /\ held[r] = held[s] /\ Pending(r) /\ Pending(s) =>
         \/ timeToAct[r] + Period <= timeToAct[s]
         \/ timeToAct[s] + Period <= timeToAct[r]

(* What a key had since a, with what its bucket holds, what a Cancel may    *)
(* give back to it, and what a new bucket would bring, is within the limit. *)
Allowance(k, a) == Full * (1 + V(k, a)) + (now - a)

Rate(k, a) ==
    /\ k \in Live =>
         /\ Period * N(k, a) + tokens[bucket[k]] <= Allowance(k, a)
         /\ Period * N(k, a) <= Allowance(k, a)
         /\ \/ N(k, a) = 0
            \/ Period * N(k, a) <= Full * V(k, a) + (last[bucket[k]] - a) + TTL
    /\ k \notin Live => Period * N(k, a) <= Full * V(k, a) + (now - a)
    /\ \A r \in Reqs : k \in Live /\ held[r] = bucket[k] /\ Pending(r) =>
         Period * N(k, a) + Period <= Full * (1 + V(k, a)) + (timeToAct[r] - a)

Rates == \A k \in Keys : \A a \in 0 .. now : Rate(k, a)

(* The same of each bucket by itself, in the map or not.                    *)
BucketRate(e, a) ==
    /\ Period * B(e, a) + tokens[e] <= Full + (now - a)
    /\ Period * B(e, a) <= Full + (now - a)
    /\ \A r \in Reqs : held[r] = e /\ Pending(r) =>
         Period * B(e, a) + Period <= Full + (timeToAct[r] - a)

BucketRates == \A e \in Entries : \A a \in 0 .. now : BucketRate(e, a)

(* Until a key has had a burst its buckets owe only for what they admitted, *)
(* and none of its requests has been refused.                               *)
Bursts ==
    \A k \in Keys : Cardinality(Served(k)) < Burst =>
        /\ \A e \in Entries : KeyOf[e[1]] = k =>
             tokens[e] >= Full - Period * Cardinality(Served(k))
        /\ \A r \in Reqs : KeyOf[r] = k => pc[r] \in {"start", "take", "served"}

IInv ==
    /\ TypeOK /\ Fresh /\ Past /\ Debts
    /\ Rates /\ BucketRates /\ Bursts /\ BucketsBounded
----------------------------------------------------------------------------
(* Facts about the constants *)

LEMMA Constants ==
    /\ Period \in Nat \ {0} /\ Burst \in Nat \ {0}
    /\ Full \in Nat /\ Full = Burst * Period /\ Full >= Period
    /\ TTL \in Nat
    /\ MaxTime \in Nat
    /\ IsFiniteSet(Entries)
<1>1. Period \in Nat \ {0} /\ Burst \in Nat \ {0}
  BY LimiterAssumption
<1>2. Burst * Period >= Period
  BY <1>1, Z3
<1>3. IsFiniteSet({"allow", "retry"})
  <2>1. IsFiniteSet({"allow"})
    BY FS_Singleton
  <2>2. {"allow", "retry"} = {"allow"} \cup {"retry"}
    OBVIOUS
  <2> QED BY <2>1, <2>2, FS_AddElement
<1>4. IsFiniteSet(Entries)
  BY <1>3, LimiterAssumption, FS_Product DEF Entries
<1> QED BY <1>1, <1>2, <1>4, LimiterAssumption DEF Full

LEMMA EntryParts ==
    /\ \A r \in Reqs : /\ <<r, "allow">> \in Entries /\ <<r, "allow">>[1] = r
                       /\ <<r, "retry">> \in Entries /\ <<r, "retry">>[1] = r
                       /\ <<r, "allow">> # NoEntry /\ <<r, "retry">> # NoEntry
                       /\ <<r, "allow">> # <<r, "retry">>
    /\ \A r, s \in Reqs : r # s => /\ <<r, "allow">> # <<s, "allow">>
                                   /\ <<r, "allow">> # <<s, "retry">>
                                   /\ <<r, "retry">> # <<s, "retry">>
    /\ \A e \in Entries : e[1] \in Reqs
<1>1. \A r \in Reqs : <<r, "allow">> \in Entries /\ <<r, "retry">> \in Entries
  BY DEF Entries
<1>2. \A e \in Entries : e[1] \in Reqs
  BY DEF Entries
<1> QED BY <1>1, <1>2, LimiterAssumption

LEMMA CapType ==
    \A n \in Int : Cap(n) \in Int /\ Cap(n) <= Full /\ Cap(n) <= n
                   /\ (n <= Full => Cap(n) = n)
BY Constants DEF Cap

LEMMA SubsetsFinite ==
    /\ \A S \in SUBSET Reqs : IsFiniteSet(S) /\ Cardinality(S) \in Nat
    /\ \A S \in SUBSET Entries : IsFiniteSet(S) /\ Cardinality(S) \in Nat
    /\ \A S \in SUBSET Keys : IsFiniteSet(S) /\ Cardinality(S) \in Nat
BY Constants, LimiterAssumption, FS_Subset, FS_CardinalityType

----------------------------------------------------------------------------
(* Type correctness *)

LEMMA InitInv == Init => IInv
<1> SUFFICES ASSUME Init PROVE IInv
  OBVIOUS
<1> USE Constants DEF Init
<1>1. Live = {}
  BY DEF Live
<1>2. \A k \in Keys : \A a \in 0 .. now : OnTime(k, a) = {} /\ Thrown(k, a) = {}
  BY DEF OnTime, Thrown, Since
<1>3. TypeOK
  BY <1>1, LimiterAssumption DEF TypeOK, Times
<1>4. Fresh
  BY EntryParts, LimiterAssumption DEF Fresh, Unmade
<1>5. Past
  BY <1>1, LimiterAssumption DEF Past
<1>6. Debts
  BY DEF Debts, Pending
<1>7. Rates
  <2>1. \A k \in Keys : \A a \in 0 .. now : N(k, a) = 0 /\ V(k, a) = 0
    BY <1>2, FS_EmptySet DEF N, V
  <2>2. \A k \in Keys : \A a \in 0 .. now :
          Period * N(k, a) = 0 /\ Full * V(k, a) = 0 /\ a = 0 /\ now = 0
    <3>1. now = 0 /\ \A a \in 0 .. now : a = 0
      OBVIOUS
    <3>2. Period * 0 = 0 /\ Full * 0 = 0
      OBVIOUS
    <3> QED BY <2>1, <3>1, <3>2
  <2>3. \A r \in Reqs : ~Pending(r)
    BY DEF Pending
  <2> QED BY <1>1, <2>1, <2>2, <2>3 DEF Rates, Rate
<1>8. Bursts
  <2>1. \A k \in Keys : Served(k) = {}
    BY DEF Served
  <2>2. \A k \in Keys : Period * Cardinality(Served(k)) = 0
    BY <2>1, FS_EmptySet
  <2> QED BY <2>2 DEF Bursts
<1>9. BucketsBounded
  <2>1. {r \in Reqs : held[r] = <<r, "retry">>} \in SUBSET Reqs
    OBVIOUS
  <2> QED BY <1>1, <2>1, SubsetsFinite, FS_EmptySet, LimiterAssumption DEF BucketsBounded
<1>10. BucketRates
  <2>1. \A e \in Entries : \A a \in 0 .. now : By(e, a) = {} /\ a = 0 /\ now = 0
    BY DEF By, Since
  <2>2. \A e \in Entries : \A a \in 0 .. now : Period * B(e, a) = 0
    BY <2>1, FS_EmptySet DEF B
  <2> QED BY <2>1, <2>2 DEF BucketRates, BucketRate, Pending
<1> QED BY <1>3, <1>4, <1>5, <1>6, <1>7, <1>8, <1>9, <1>10 DEF IInv

(* A request that has begun holds an entry of its key.                      *)
LEMMA Holding ==
    ASSUME TypeOK, NEW r \in Reqs, pc[r] # "start"
    PROVE  held[r] \in Entries /\ KeyOf[held[r][1]] = KeyOf[r]
BY DEF TypeOK

LEMMA LiveEntries ==
    ASSUME TypeOK, NEW k \in Live
    PROVE  /\ k \in Keys /\ bucket[k] \in Entries /\ bucket[k] # NoEntry
           /\ KeyOf[bucket[k][1]] = k
BY DEF TypeOK, Live

LEMMA TypeStep == TypeOK /\ [Next]_vars => TypeOK'
<1> SUFFICES ASSUME TypeOK, [Next]_vars PROVE TypeOK'
  OBVIOUS
<1> USE Constants DEF TypeOK
<1>1. CASE Tick
  <2>1. now' \in Times
    BY <1>1 DEF Tick, Times
  <2>2. tokens' \in [Entries -> Int] /\ \A e \in Entries : tokens'[e] <= Full
    BY <1>1, CapType DEF Tick
  <2> QED BY <1>1, <2>1, <2>2 DEF Tick, limiter, request, Live
<1>2. ASSUME NEW t \in 0 .. now, EvictIdle(t) PROVE TypeOK'
  BY <1>2 DEF EvictIdle, Without, lims, request, Live
<1>3. ASSUME NEW r \in Reqs, Find(r), UNCHANGED <<now, lims, timeToAct, at, late>>,
             GoTo(r, "take") \/ GoTo(r, "reserve")
      PROVE  TypeOK'
  BY <1>3, LimiterAssumption, ZenonT(40) DEF Find, GoTo, lims, Live
<1>4. ASSUME NEW r \in Reqs, NEW e \in Entries, NEW kept \in [Keys -> Entries \cup {NoEntry}],
             e[1] = r, \A k \in Keys : kept[k] \in {bucket[k], NoEntry},
             Insert(r, e, kept), UNCHANGED <<now, lims, timeToAct, at, late>>,
             GoTo(r, "take") \/ GoTo(r, "reserve"),
             thrown' \in [Entries -> Times \cup {NoTime}]
      PROVE  TypeOK'
  BY <1>4, LimiterAssumption, ZenonT(40) DEF Insert, GoTo, lims, Live
<1>5. ASSUME NEW r \in Reqs, AllowLookup(r) PROVE TypeOK'
  <2>1. UNCHANGED <<now, lims, timeToAct, at, late>> /\ GoTo(r, "take")
    BY <1>5 DEF AllowLookup
  <2>2. CASE Find(r)
    BY <2>1, <2>2, <1>3
  <2>3. CASE Insert(r, <<r, "allow">>, bucket) /\ UNCHANGED thrown
    BY <2>1, <2>3, <1>4, EntryParts
  <2>4. ASSUME NEW S \in SUBSET Live, MakeRoom(r, S) PROVE TypeOK'
    <3>1. Without(S \cup Expired(now)) \in [Keys -> Entries \cup {NoEntry}]
      BY DEF Without
    <3>2. \A k \in Keys : Without(S \cup Expired(now))[k] \in {bucket[k], NoEntry}
      BY DEF Without
    <3>3. thrown' \in [Entries -> Times \cup {NoTime}]
      BY <2>4 DEF MakeRoom
    <3> DEFINE kept == Without(S \cup Expired(now))
    <3>4. Insert(r, <<r, "allow">>, kept)
      BY <2>4 DEF MakeRoom
    <3>5. kept \in [Keys -> Entries \cup {NoEntry}]
          /\ \A k \in Keys : kept[k] \in {bucket[k], NoEntry}
      BY <3>1, <3>2
    <3> HIDE DEF kept
    <3> QED BY <2>1, <3>3, <3>4, <3>5, <1>4, EntryParts
  <2> QED BY <1>5, <2>2, <2>3, <2>4 DEF AllowLookup, InsertAllow
<1>6. ASSUME NEW r \in Reqs, Take(r) PROVE TypeOK'
  <2>1. held[r] \in Entries
    BY <1>6, Holding DEF Take
  <2>2. CASE Admit(r)
    <3>1. tokens' \in [Entries -> Int] /\ \A e \in Entries : tokens'[e] <= Full
      BY <2>1, <2>2 DEF Admit
    <3>2. late' \subseteq Reqs
      BY <2>2 DEF Admit
    <3> QED BY <1>6, <2>1, <2>2, <3>1, <3>2 DEF Take, Admit, GoTo, limiter, Live, Times
  <2>3. CASE Refuse(r)
    BY <1>6, <2>3 DEF Take, Refuse, GoTo, limiter, lims, Live
  <2> QED BY <1>6, <2>2, <2>3 DEF Take
<1>7. ASSUME NEW r \in Reqs, RetryLookup(r) PROVE TypeOK'
  <2>1. UNCHANGED <<now, lims, timeToAct, at, late>> /\ GoTo(r, "reserve")
    BY <1>7 DEF RetryLookup
  <2>2. CASE Find(r)
    BY <2>1, <2>2, <1>3
  <2>3. CASE InsertRetry(r)
    BY <2>1, <2>3, <1>4, EntryParts DEF InsertRetry
  <2> QED BY <1>7, <2>2, <2>3 DEF RetryLookup
<1>8. ASSUME NEW r \in Reqs, Reserve(r) PROVE TypeOK'
  <2>1. held[r] \in Entries /\ now \in Int
    BY <1>8, Holding DEF Reserve, Times
  <2>2. Due(held[r]) \in Int
    BY <2>1 DEF Due
  <2> QED BY <1>8, <2>1, <2>2 DEF Reserve, GoTo, limiter, Live
<1>9. ASSUME NEW r \in Reqs, Cancel(r) PROVE TypeOK'
  <2>1. held[r] \in Entries
    BY <1>9, Holding DEF Cancel
  <2>2. Refund(r) \in Int /\ PrevEvent(r) \in Int
    BY <2>1 DEF Refund, PrevEvent
  <2>3. tokens' \in [Entries -> Int] /\ \A e \in Entries : tokens'[e] <= Full
    <3>1. Cap(tokens[held[r]] + Refund(r)) \in Int /\ Cap(tokens[held[r]] + Refund(r)) <= Full
      BY <2>1, <2>2, CapType
    <3> QED BY <1>9, <2>1, <3>1 DEF Cancel, lims
  <2>4. lastEvent' \in [Entries -> Int]
    BY <1>9, <2>1, <2>2 DEF Cancel, lims
  <2> QED BY <1>9, <2>3, <2>4 DEF Cancel, GoTo, limiter, Live
<1>10. CASE UNCHANGED vars
  BY <1>10 DEF vars, Live
<1> QED BY <1>1, <1>2, <1>5, <1>6, <1>7, <1>8, <1>9, <1>10 DEF Next, Sweep

----------------------------------------------------------------------------
(* What a lookup does: r ends with the entry e of its key, and the buckets  *)
(* of the other keys stay, or go because they idled or to make room.        *)

SameThrown(k) == \A e \in Entries : KeyOf[e[1]] = k => thrown'[e] = thrown[e]

Stays(k) == bucket'[k] = bucket[k] /\ SameThrown(k)

Idled(k) ==
    /\ k \in Live /\ now - last[bucket[k]] > TTL
    /\ bucket'[k] = NoEntry /\ SameThrown(k)

GoneForRoom(k) ==
    /\ k \in Live /\ bucket'[k] = NoEntry
    /\ \A e \in Entries : KeyOf[e[1]] = k =>
         thrown'[e] = IF e = bucket[k] THEN now ELSE thrown[e]

Looked(r, e) ==
    /\ UNCHANGED <<now, tokens, lastEvent, timeToAct, at, late>>
    /\ \/ pc[r] = "start" /\ pc' = [pc EXCEPT ![r] = "take"]
       \/ pc[r] = "refused" /\ pc' = [pc EXCEPT ![r] = "reserve"]
    /\ held' = [held EXCEPT ![r] = e]
    /\ last' = [last EXCEPT ![e] = now]
    /\ bucket'[KeyOf[r]] = e /\ SameThrown(KeyOf[r])
    /\ \/ bucket[KeyOf[r]] = e /\ bucket' = bucket
       \/ /\ KeyOf[r] \notin Live /\ Unmade(e)
          /\ \/ pc[r] = "start" /\ e = <<r, "allow">>
             \/ pc[r] = "refused" /\ e = <<r, "retry">>
    /\ \A k \in Keys \ {KeyOf[r]} : Stays(k) \/ Idled(k) \/ GoneForRoom(k)

LEMMA LookupEffect ==
    ASSUME TypeOK, Fresh, NEW r \in Reqs, AllowLookup(r) \/ RetryLookup(r)
    PROVE  \E e \in Entries : KeyOf[e[1]] = KeyOf[r] /\ Looked(r, e)
<1> DEFINE k0 == KeyOf[r]
<1>0. k0 \in Keys
  BY LimiterAssumption
<1>1. /\ UNCHANGED <<now, tokens, lastEvent, timeToAct, at, late>>
      /\ \/ pc[r] = "start" /\ pc' = [pc EXCEPT ![r] = "take"]
         \/ pc[r] = "refused" /\ pc' = [pc EXCEPT ![r] = "reserve"]
  BY DEF AllowLookup, RetryLookup, GoTo, lims
<1>2. CASE Find(r)
  <2>1. k0 \in Live
    BY <1>0, <1>2 DEF Find, Live
  <2>2. Looked(r, bucket[k0])
    BY <1>1, <1>2, <2>1 DEF Looked, Find, Stays, SameThrown
  <2> QED BY <2>1, <2>2, LiveEntries
<1>3. CASE pc[r] = "start" /\ InsertAllow(r)
  <2> DEFINE e == <<r, "allow">>
  <2>1. e \in Entries /\ KeyOf[e[1]] = k0 /\ Unmade(e)
    BY <1>3, EntryParts DEF Fresh
  <2> HIDE DEF e
  <2>2. CASE Insert(r, e, bucket) /\ UNCHANGED thrown
    BY <1>0, <1>1, <1>3, <2>1, <2>2 DEF Looked, Insert, Stays, SameThrown, TypeOK, Live, e
  <2>3. ASSUME NEW S \in SUBSET Live, MakeRoom(r, S) PROVE Looked(r, e)
    <3> DEFINE kept == Without(S \cup Expired(now))
    <3>1. Insert(r, e, kept)
      BY <2>3 DEF MakeRoom, e
    <3>2. \A k \in Keys : kept[k] = IF k \in S \cup Expired(now) THEN NoEntry ELSE bucket[k]
      BY DEF Without
    <3>3. bucket'[k0] = e /\ \A k \in Keys \ {k0} : bucket'[k] = kept[k]
      BY <1>0, <3>1 DEF Insert, Without
    <3>4. k0 \notin Live /\ k0 \notin S
      BY <3>1 DEF Insert, Live
    <3>5. \A d \in Entries : thrown'[d] = IF \E k \in S : bucket[k] = d THEN now ELSE thrown[d]
      BY <2>3 DEF MakeRoom
    <3>6. \A j, k \in Live : bucket[j] = bucket[k] => j = k
      BY LiveEntries
    <3>7. \A k \in Keys \ S : SameThrown(k)
      BY <3>5, LiveEntries DEF SameThrown
    <3>8. \A k \in S : GoneForRoom(k)
      <4> SUFFICES ASSUME NEW k \in S PROVE GoneForRoom(k)
        OBVIOUS
      <4>1. k \in Live /\ k \in Keys /\ k # k0
        BY <3>4 DEF Live
      <4>2. bucket'[k] = NoEntry
        BY <3>2, <3>3, <4>1
      <4>3. \A d \in Entries : KeyOf[d[1]] = k =>
              ((\E j \in S : bucket[j] = d) <=> d = bucket[k])
        BY <4>1, LiveEntries
      <4> QED BY <3>5, <4>1, <4>2, <4>3 DEF GoneForRoom
    <3>9. \A k \in (Keys \ {k0}) \ S : Stays(k) \/ Idled(k)
      BY <3>2, <3>3, <3>7 DEF Stays, Idled, Expired
    <3>10. held' = [held EXCEPT ![r] = e] /\ last' = [last EXCEPT ![e] = now]
      BY <3>1 DEF Insert
    <3> HIDE DEF kept
    <3> QED BY <1>0, <1>1, <1>3, <2>1, <3>3, <3>4, <3>7, <3>8, <3>9, <3>10 DEF Looked, e
  <2> QED BY <1>3, <2>1, <2>2, <2>3 DEF InsertAllow, e
<1>4. CASE pc[r] = "refused" /\ InsertRetry(r)
  <2> DEFINE e == <<r, "retry">>
  <2>1. e \in Entries /\ KeyOf[e[1]] = k0 /\ Unmade(e)
    BY <1>4, EntryParts DEF Fresh
  <2> HIDE DEF e
  <2> QED BY <1>0, <1>1, <1>4, <2>1
          DEF Looked, InsertRetry, Insert, Stays, SameThrown, TypeOK, Live, e
<1> QED BY <1>2, <1>3, <1>4 DEF AllowLookup, RetryLookup

LEMMA SweepEffect ==
    ASSUME TypeOK, NEW t \in 0 .. now, EvictIdle(t)
    PROVE  /\ UNCHANGED <<now, last, thrown, lims, request>>
           /\ \A k \in Keys : Stays(k) \/ Idled(k)
<1>1. UNCHANGED <<now, last, thrown, lims, request>>
  BY DEF EvictIdle
<1>2. \A k \in Keys : bucket'[k] = IF k \in Expired(t) THEN NoEntry ELSE bucket[k]
  BY DEF EvictIdle, Without
<1>3. \A k \in Expired(t) : k \in Live /\ now - last[bucket[k]] > TTL
  BY Constants, LiveEntries DEF Expired, TypeOK, Times
<1> QED BY <1>1, <1>2, <1>3 DEF Stays, Idled, SameThrown

(* The four kinds of step: the clock, a lookup, a sweep, and the use of a   *)
(* bucket after the unlock.                                                 *)
LEMMA Steps ==
    ASSUME TypeOK, Fresh, [Next]_vars
    PROVE  \/ Tick
           \/ \E r \in Reqs, e \in Entries : KeyOf[e[1]] = KeyOf[r] /\ Looked(r, e)
           \/ /\ UNCHANGED <<now, last, thrown, lims, request>>
              /\ \A k \in Keys : Stays(k) \/ Idled(k)
           \/ \E r \in Reqs : Take(r) \/ Reserve(r) \/ Cancel(r)
           \/ UNCHANGED vars
BY LookupEffect, SweepEffect DEF Next, Sweep

LEMMA FreshStep == TypeOK /\ Fresh /\ [Next]_vars => Fresh'
<1> SUFFICES ASSUME TypeOK, Fresh, [Next]_vars PROVE Fresh'
  OBVIOUS
<1> USE Constants
<1>1. CASE Tick
  <2>1. \A e \in Entries : tokens[e] = Full => tokens'[e] = Full
    BY <1>1, CapType DEF Tick, Cap
  <2> QED BY <1>1, <2>1, EntryParts DEF Tick, limiter, request, Fresh, Unmade
<1>2. ASSUME NEW r \in Reqs, NEW e \in Entries, KeyOf[e[1]] = KeyOf[r], Looked(r, e)
      PROVE  Fresh'
  <2> SUFFICES ASSUME NEW s \in Reqs, NEW d \in {<<s, "allow">>, <<s, "retry">>},
                      Unmade(d), d # e
               PROVE  Unmade(d)'
    <3>0. pc' = [pc EXCEPT ![r] = pc'[r]] /\ pc'[r] \in {"take", "reserve"}
      BY <1>2 DEF Looked, TypeOK
    <3>1. ASSUME NEW s \in Reqs, pc'[s] = "start"
          PROVE  pc[s] = "start" /\ <<s, "allow">> # e
      <4>1. s # r /\ pc[s] = "start" /\ Unmade(<<s, "allow">>)
        BY <3>0, <3>1 DEF Fresh, TypeOK
      <4>2. <<s, "allow">> # <<r, "allow">> /\ <<s, "allow">> # <<r, "retry">>
        BY <4>1, EntryParts
      <4> QED BY <1>2, <4>1, <4>2, LimiterAssumption DEF Looked, Unmade
    <3>2. ASSUME NEW s \in Reqs, pc'[s] \in {"start", "take", "served", "refused"}
          PROVE  /\ pc[s] \in {"start", "take", "served", "refused"}
                 /\ <<s, "retry">> # e
      <4>1. /\ pc[s] \in {"start", "take", "served", "refused"}
            /\ s = r => pc[r] = "start"
            /\ Unmade(<<s, "retry">>)
        BY <1>2, <3>0, <3>2 DEF Fresh, TypeOK, Looked
      <4>2. <<s, "retry">> # <<r, "allow">> /\ (s # r => <<s, "retry">> # <<r, "retry">>)
        BY EntryParts
      <4> QED BY <1>2, <4>1, <4>2, LimiterAssumption DEF Looked, Unmade
    <3> QED BY <3>1, <3>2 DEF Fresh
  <2>1. d \in Entries /\ d # NoEntry
    BY EntryParts
  <2>2. \A k \in Keys : bucket'[k] # d
    BY <1>2, <2>1 DEF Looked, Unmade, Stays, Idled, GoneForRoom
  <2>3. thrown'[d] = thrown[d]
    <3>1. KeyOf[d[1]] \in Keys
      BY EntryParts, LimiterAssumption
    <3> QED BY <1>2, <2>1, <3>1 DEF Looked, Stays, Idled, GoneForRoom, SameThrown, Unmade, Live
  <2> QED BY <1>2, <2>2, <2>3 DEF Looked, Unmade, TypeOK
<1>3. CASE /\ UNCHANGED <<now, last, thrown, lims, request>>
           /\ \A k \in Keys : Stays(k) \/ Idled(k)
  <2>1. UNCHANGED <<tokens, pc, held, thrown>>
    BY <1>3 DEF lims, request
  <2>2. \A k \in Keys : bucket'[k] \in {bucket[k], NoEntry}
    BY <1>3 DEF Stays, Idled
  <2>3. ASSUME NEW e \in Entries, Unmade(e) PROVE Unmade(e)'
    BY <2>1, <2>2, <2>3, LimiterAssumption DEF Unmade
  <2> QED BY <2>1, <2>3, EntryParts DEF Fresh
<1>4. ASSUME NEW r \in Reqs, Take(r) \/ Reserve(r) \/ Cancel(r) PROVE Fresh'
  <2>1. held[r] \in Entries /\ UNCHANGED <<limiter, held>>
    BY <1>4, Holding DEF Take, Reserve, Cancel
  <2>2. \A e \in Entries : e # held[r] => tokens'[e] = tokens[e]
    BY <1>4, <2>1 DEF Take, Admit, Refuse, Reserve, Cancel, lims, TypeOK
  <2>3. ASSUME NEW s \in Reqs
        PROVE  /\ (pc'[s] = "start") => (pc[s] = "start")
               /\ pc'[s] \in {"start", "take", "served", "refused"} =>
                    pc[s] \in {"start", "take", "served", "refused"}
    BY <1>4 DEF Take, Admit, Refuse, Reserve, Cancel, GoTo, TypeOK
  <2> QED BY <2>1, <2>2, <2>3, EntryParts, ZenonT(40) DEF Fresh, Unmade, limiter
<1>5. CASE UNCHANGED vars
  BY <1>5 DEF vars, Fresh, Unmade
<1> QED BY <1>1, <1>2, <1>3, <1>4, <1>5, Steps

LEMMA PastStep == TypeOK /\ Fresh /\ Past /\ [Next]_vars => Past'
<1> SUFFICES ASSUME TypeOK, Fresh, Past, [Next]_vars PROVE Past'
  OBVIOUS
<1>0. now \in Nat /\ NoTime \notin Nat
  BY LimiterAssumption DEF TypeOK, Times
<1>1. CASE Tick
  BY <1>0, <1>1 DEF Tick, limiter, request, Past, Live, TypeOK, Times
<1>2. ASSUME NEW r \in Reqs, NEW e \in Entries, KeyOf[e[1]] = KeyOf[r], Looked(r, e)
      PROVE  Past'
  <2>1. \A s \in Reqs : pc'[s] = "served" <=> pc[s] = "served"
    BY <1>2 DEF Looked, TypeOK
  <2>2. \A d \in Entries : last'[d] <= now /\ (thrown'[d] # NoTime => thrown'[d] <= now)
    <3>1. \A d \in Entries : last'[d] \in {last[d], now} /\ now <= now
      BY <1>0, <1>2 DEF Looked, TypeOK
    <3>2. \A d \in Entries : thrown'[d] \in {thrown[d], now}
      <4> SUFFICES ASSUME NEW d \in Entries PROVE thrown'[d] \in {thrown[d], now}
        OBVIOUS
      <4>1. KeyOf[d[1]] \in Keys
        BY EntryParts, LimiterAssumption
      <4> QED BY <1>2, <4>1 DEF Looked, Stays, Idled, GoneForRoom, SameThrown
    <3> QED BY <3>1, <3>2 DEF Past
  <2>3. ASSUME NEW k \in Live' PROVE thrown'[bucket'[k]] = NoTime
    <3>1. k \in Keys /\ bucket'[k] # NoEntry
      BY DEF Live
    <3>2. CASE k = KeyOf[r]
      BY <1>2, <3>1, <3>2 DEF Looked, SameThrown, Unmade, Past, Live
    <3>3. CASE k # KeyOf[r]
      <4>1. Stays(k) /\ k \in Live
        BY <1>2, <3>1, <3>3 DEF Looked, Idled, GoneForRoom, Stays, Live
      <4> QED BY <4>1, LiveEntries DEF Stays, SameThrown, Past
    <3> QED BY <3>2, <3>3
  <2>4. at' = at /\ late' = late /\ now' = now
    BY <1>2 DEF Looked
  <2> QED BY <2>1, <2>2, <2>3, <2>4 DEF Past, TypeOK
<1>3. CASE /\ UNCHANGED <<now, last, thrown, lims, request>>
           /\ \A k \in Keys : Stays(k) \/ Idled(k)
  BY <1>3 DEF request, Stays, Idled, Past, Live
<1>4. ASSUME NEW r \in Reqs, Take(r) \/ Reserve(r) \/ Cancel(r) PROVE Past'
  <2>1. UNCHANGED <<now, limiter>>
    BY <1>4 DEF Take, Reserve, Cancel
  <2>2. CASE Take(r) /\ Admit(r)
    BY <1>0, <2>1, <2>2 DEF Take, Admit, GoTo, limiter, Past, Live, TypeOK
  <2>3. CASE (Take(r) /\ Refuse(r)) \/ Reserve(r) \/ Cancel(r)
    <3>1. at' = at /\ late' = late /\ \A s \in Reqs : pc'[s] = "served" <=> pc[s] = "served"
      BY <2>3 DEF Take, Refuse, Reserve, Cancel, GoTo, TypeOK
    <3> QED BY <2>1, <3>1 DEF limiter, Past, Live, TypeOK
  <2> QED BY <1>4, <2>2, <2>3 DEF Take
<1>5. CASE UNCHANGED vars
  BY <1>5 DEF vars, Past, Live
<1> QED BY <1>1, <1>2, <1>3, <1>4, <1>5, Steps
----------------------------------------------------------------------------
(* Reservations *)

LEMMA Numbers ==
    ASSUME TypeOK
    PROVE  /\ now \in Nat
           /\ \A e \in Entries : tokens[e] \in Int /\ lastEvent[e] \in Int /\ last[e] \in Nat
           /\ \A r \in Reqs : timeToAct[r] \in Int
BY Constants DEF TypeOK, Times

(* While a reservation lies ahead its bucket has no token to give.          *)
LEMMA NoneAhead ==
    ASSUME TypeOK, Debts, NEW r \in Reqs, Pending(r)
    PROVE  held[r] \in Entries /\ tokens[held[r]] < 0 /\ ~HasToken(held[r])
<1>1. held[r] \in Entries
  BY Holding DEF Pending
<1> QED BY <1>1, Numbers, Constants DEF Debts, Pending, HasToken

LEMMA RefundBound ==
    ASSUME TypeOK, Debts, NEW r \in Reqs, Pending(r), Refund(r) > 0
    PROVE  /\ Refund(r) \in Int /\ Refund(r) <= Period
           /\ \A s \in Reqs : s # r /\ Pending(s) /\ held[s] = held[r] =>
                timeToAct[s] + Period <= timeToAct[r]
<1>1. held[r] \in Entries
  BY Holding DEF Pending
<1>2. Refund(r) \in Int /\ Refund(r) <= Period
  BY <1>1, Numbers, Constants DEF Refund, Debts
<1>3. ASSUME NEW s \in Reqs, s # r, Pending(s), held[s] = held[r]
      PROVE  timeToAct[s] + Period <= timeToAct[r]
  <2>1. lastEvent[held[r]] >= timeToAct[s]
    BY <1>3 DEF Debts
  <2>2. ~(timeToAct[r] + Period <= timeToAct[s])
    BY <1>1, <2>1, Numbers, Constants DEF Refund
  <2> QED BY <1>3, <2>2 DEF Debts
<1> QED BY <1>2, <1>3

LEMMA DebtsStep == TypeOK /\ TypeOK' /\ Fresh /\ Debts /\ [Next]_vars => Debts'
<1> SUFFICES ASSUME TypeOK, TypeOK', Fresh, Debts, [Next]_vars PROVE Debts'
  OBVIOUS
<1>0. /\ now \in Nat /\ Period \in Nat \ {0}
      /\ \A e \in Entries : tokens[e] \in Int /\ lastEvent[e] \in Int
      /\ \A r \in Reqs : timeToAct[r] \in Int
  BY Numbers, Constants
<1>h. \A r \in Reqs : Pending(r) => held[r] \in Entries
  BY Holding DEF Pending
<1>1. CASE Tick
  <2>1. \A e \in Entries : tokens'[e] <= tokens[e] + 1 /\ tokens'[e] \in Int
    BY <1>0, <1>1, CapType DEF Tick
  <2>2. now' = now + 1 /\ UNCHANGED <<pc, held, timeToAct, lastEvent>>
    BY <1>1 DEF Tick, request
  <2>3. \A r \in Reqs : Pending(r)' => Pending(r)
    BY <1>0, <2>2 DEF Pending
  <2> QED BY <1>0, <1>h, <2>1, <2>2, <2>3 DEF Debts
<1>2. ASSUME NEW r \in Reqs, NEW e \in Entries, KeyOf[e[1]] = KeyOf[r], Looked(r, e)
      PROVE  Debts'
  <2>1. \A s \in Reqs : Pending(s)' => s # r /\ Pending(s) /\ held'[s] = held[s]
    BY <1>2 DEF Looked, Pending, TypeOK
  <2> QED BY <1>2, <2>1 DEF Looked, Debts
<1>3. CASE /\ UNCHANGED <<now, last, thrown, lims, request>>
           /\ \A k \in Keys : Stays(k) \/ Idled(k)
  BY <1>3 DEF lims, request, Debts, Pending
<1>4. ASSUME NEW r \in Reqs, Take(r) PROVE Debts'
  <2>1. held[r] \in Entries /\ UNCHANGED <<now, held, timeToAct>>
    BY <1>4, Holding DEF Take
  <2>2. \A s \in Reqs : Pending(s)' => s # r /\ Pending(s)
    BY <1>4, <2>1 DEF Take, Admit, Refuse, GoTo, Pending, TypeOK
  <2>3. CASE Admit(r)
    <3>1. \A s \in Reqs : Pending(s) => held[s] # held[r]
      BY <2>3, NoneAhead DEF Admit
    <3>2. \A d \in Entries : d # held[r] => tokens'[d] = tokens[d] /\ lastEvent'[d] = lastEvent[d]
      BY <2>1, <2>3 DEF Admit, TypeOK
    <3> QED BY <1>h, <2>1, <2>2, <3>1, <3>2 DEF Debts
  <2>4. CASE Refuse(r)
    BY <2>1, <2>2, <2>4 DEF Refuse, lims, Debts
  <2> QED BY <1>4, <2>3, <2>4 DEF Take
<1>5. ASSUME NEW r \in Reqs, Reserve(r) PROVE Debts'
  <2> DEFINE e == held[r]
             T == Due(e)
  <2>1. e \in Entries /\ UNCHANGED <<now, held>>
    BY <1>5, Holding DEF Reserve
  <2>2. /\ timeToAct' = [timeToAct EXCEPT ![r] = T]
        /\ tokens' = [tokens EXCEPT ![e] = @ - Period]
        /\ lastEvent' = [lastEvent EXCEPT ![e] = T]
        /\ pc' = [pc EXCEPT ![r] = "cancel"] /\ pc[r] = "reserve"
    BY <1>5 DEF Reserve, GoTo
  <2>3. \A s \in Reqs : s # r => /\ timeToAct'[s] = timeToAct[s]
                                 /\ Pending(s)' => Pending(s)
    BY <2>1, <2>2 DEF Pending, TypeOK
  <2>4. timeToAct'[r] = T /\ tokens'[e] = tokens[e] - Period /\ lastEvent'[e] = T
    BY <2>1, <2>2 DEF TypeOK
  <2>5. T > now => T = now + (Period - tokens[e])
    BY <1>0, <2>1 DEF Due
  <2>6. ASSUME NEW s \in Reqs, s # r, Pending(s), held[s] = e
        PROVE  timeToAct[s] + Period <= T /\ tokens'[e] <= now - timeToAct[s]
    <3>1. tokens[e] <= now - timeToAct[s] /\ tokens[e] < 0
      BY <2>6, NoneAhead DEF Debts
    <3>2. T = now + (Period - tokens[e])
      BY <1>0, <2>1, <3>1 DEF Due, HasToken
    <3> QED BY <1>0, <2>1, <2>4, <3>1, <3>2
  <2>7. \A d \in Entries : d # e => tokens'[d] = tokens[d] /\ lastEvent'[d] = lastEvent[d]
    BY <2>2 DEF TypeOK
  <2>8. T \in Int
    BY <1>0, <2>1 DEF Due
  <2> HIDE DEF T
  <2>9. ASSUME NEW s \in Reqs, Pending(s)'
        PROVE  lastEvent'[held'[s]] >= timeToAct'[s] /\ tokens'[held'[s]] <= now' - timeToAct'[s]
    <3>1. CASE s = r
      BY <1>0, <2>1, <2>4, <2>5, <2>8, <2>9, <3>1 DEF Pending
    <3>2. CASE s # r /\ held[s] = e
      BY <1>0, <2>1, <2>3, <2>4, <2>6, <2>8, <2>9, <3>2
    <3>3. CASE s # r /\ held[s] # e
      BY <1>h, <2>1, <2>3, <2>7, <2>9, <3>3 DEF Debts
    <3> QED BY <3>1, <3>2, <3>3
  <2>10. ASSUME NEW s \in Reqs, NEW q \in Reqs, s # q, held'[s] = held'[q],
                Pending(s)', Pending(q)'
         PROVE  \/ timeToAct'[s] + Period <= timeToAct'[q]
                \/ timeToAct'[q] + Period <= timeToAct'[s]
    <3>1. CASE s = r
      BY <2>1, <2>3, <2>4, <2>6, <2>10, <3>1
    <3>2. CASE q = r
      BY <2>1, <2>3, <2>4, <2>6, <2>10, <3>2
    <3>3. CASE s # r /\ q # r
      BY <2>1, <2>3, <2>10, <3>3 DEF Debts
    <3> QED BY <3>1, <3>2, <3>3
  <2> QED BY <2>9, <2>10 DEF Debts
<1>6. ASSUME NEW r \in Reqs, Cancel(r) PROVE Debts'
  <2> DEFINE e == held[r]
  <2>1. e \in Entries /\ UNCHANGED <<now, held, timeToAct>>
    BY <1>6, Holding DEF Cancel
  <2>2. \A s \in Reqs : Pending(s)' => s # r /\ Pending(s)
    BY <1>6, <2>1 DEF Cancel, GoTo, Pending, TypeOK
  <2>3. CASE timeToAct[r] > now /\ Refund(r) > 0
    <3>1. Pending(r)
      BY <1>6, <2>3 DEF Cancel, Pending
    <3>2. /\ tokens' = [tokens EXCEPT ![e] = Cap(@ + Refund(r))]
          /\ lastEvent' = [lastEvent EXCEPT ![e] =
               IF timeToAct[r] = @ /\ PrevEvent(r) > now THEN PrevEvent(r) ELSE @]
      BY <1>6, <2>3 DEF Cancel
    <3>3. \A d \in Entries : d # e => tokens'[d] = tokens[d] /\ lastEvent'[d] = lastEvent[d]
      BY <3>2 DEF TypeOK
    <3>4. /\ Refund(r) \in Int /\ Refund(r) <= Period
          /\ tokens[e] <= now - timeToAct[r] /\ lastEvent[e] >= timeToAct[r]
      BY <2>3, <3>1, RefundBound DEF Debts
    <3>5. tokens'[e] <= tokens[e] + Refund(r) /\ tokens'[e] \in Int
      <4>1. tokens[e] + Refund(r) \in Int /\ tokens'[e] = Cap(tokens[e] + Refund(r))
        BY <1>0, <2>1, <3>2, <3>4 DEF TypeOK
      <4> QED BY <4>1, CapType
    <3>6. lastEvent'[e] >= timeToAct[r] - Period
      BY <1>0, <2>1, <3>2, <3>4 DEF PrevEvent, TypeOK
    <3>7. ASSUME NEW s \in Reqs, s # r, Pending(s), held[s] = e
          PROVE  lastEvent'[e] >= timeToAct[s] /\ tokens'[e] <= now - timeToAct[s]
      <4>1. timeToAct[s] + Period <= timeToAct[r]
        BY <2>3, <3>1, <3>7, RefundBound
      <4>2. lastEvent'[e] \in Int
        BY <2>1 DEF TypeOK
      <4> QED BY <1>0, <2>1, <3>4, <3>5, <3>6, <4>1, <4>2
    <3> QED BY <1>h, <2>1, <2>2, <3>3, <3>7 DEF Debts
  <2>4. CASE ~(timeToAct[r] > now /\ Refund(r) > 0)
    BY <1>6, <2>1, <2>2, <2>4 DEF Cancel, lims, Debts
  <2> QED BY <2>3, <2>4
<1>7. CASE UNCHANGED vars
  BY <1>7 DEF vars, Debts, Pending
<1> QED BY <1>1, <1>2, <1>3, <1>4, <1>5, <1>6, <1>7, Steps
----------------------------------------------------------------------------
(* The rate *)

LEMMA CountTypes ==
    \A k \in Keys, a \in Nat :
        /\ N(k, a) \in Nat /\ N(k, a)' \in Nat
        /\ V(k, a) \in Nat /\ V(k, a)' \in Nat
        /\ Period * N(k, a) \in Nat /\ Period * N(k, a)' \in Nat
        /\ Full * V(k, a) \in Nat /\ Full * V(k, a)' \in Nat
        /\ Full * (1 + V(k, a)) = Full + Full * V(k, a)
        /\ Full * (1 + V(k, a)') = Full + Full * V(k, a)'
<1> SUFFICES ASSUME NEW k \in Keys, NEW a \in Nat
             PROVE  /\ N(k, a) \in Nat /\ N(k, a)' \in Nat
                    /\ V(k, a) \in Nat /\ V(k, a)' \in Nat
                    /\ Period * N(k, a) \in Nat /\ Period * N(k, a)' \in Nat
                    /\ Full * V(k, a) \in Nat /\ Full * V(k, a)' \in Nat
                    /\ Full * (1 + V(k, a)) = Full + Full * V(k, a)
                    /\ Full * (1 + V(k, a)') = Full + Full * V(k, a)'
  OBVIOUS
<1>1. /\ OnTime(k, a) \in SUBSET Reqs /\ OnTime(k, a)' \in SUBSET Reqs
      /\ Thrown(k, a) \in SUBSET Entries /\ Thrown(k, a)' \in SUBSET Entries
  BY DEF OnTime, Thrown
<1>2. /\ N(k, a) \in Nat /\ N(k, a)' \in Nat
      /\ V(k, a) \in Nat /\ V(k, a)' \in Nat
  BY <1>1, SubsetsFinite DEF N, V
<1>3. \A p, x \in Nat : p * x \in Nat /\ p * (1 + x) = p + p * x
  BY Z3
<1>4. Period \in Nat /\ Full \in Nat
  BY Constants
<1> HIDE DEF N, V
<1> QED BY <1>2, <1>3, <1>4

LEMMA SameN ==
    ASSUME NEW k \in Keys, NEW a \in Nat, at' = at, late' = late
    PROVE  N(k, a)' = N(k, a)
BY DEF N, OnTime, Since

LEMMA SameV ==
    ASSUME NEW k \in Keys, NEW a \in Nat, SameThrown(k)
    PROVE  V(k, a)' = V(k, a)
<1>1. Thrown(k, a)' = Thrown(k, a)
  BY DEF Thrown, Since, SameThrown
<1> QED BY <1>1 DEF V

(* A key whose bucket stays, and gains no more than the time that passes.   *)
LEMMA RateKept ==
    ASSUME TypeOK, TypeOK', NEW k \in Keys, NEW a \in 0 .. now, Rate(k, a),
           now <= now', N(k, a)' = N(k, a), V(k, a)' = V(k, a),
           bucket'[k] = bucket[k],
           k \in Live => /\ tokens'[bucket[k]] <= tokens[bucket[k]] + (now' - now)
                         /\ last[bucket[k]] <= last'[bucket[k]],
           \A r \in Reqs : k \in Live /\ Pending(r)' /\ held'[r] = bucket[k] =>
               Pending(r) /\ held[r] = bucket[k] /\ timeToAct'[r] = timeToAct[r]
    PROVE  Rate(k, a)'
<1> DEFINE p == Period * N(k, a)
           f == Full * V(k, a)
           b == bucket[k]
<1>1. /\ now \in Nat /\ now' \in Nat /\ a \in Nat /\ TTL \in Nat /\ Full \in Nat
      /\ Period \in Nat
  BY Constants DEF TypeOK, Times
<1>2. /\ p \in Nat /\ f \in Nat /\ Period * N(k, a)' = p /\ Full * V(k, a)' = f
      /\ Full * (1 + V(k, a)) = Full + f /\ Full * (1 + V(k, a)') = Full + f
  BY <1>1, CountTypes
<1>3. k \in Live' <=> k \in Live
  BY DEF Live
<1>4. ASSUME k \in Live
      PROVE  /\ b \in Entries /\ tokens[b] \in Int /\ tokens'[b] \in Int
             /\ last[b] \in Int /\ last'[b] \in Int
  BY <1>4, LiveEntries DEF TypeOK, Times
<1>5. \A r \in Reqs : timeToAct[r] \in Int
  BY DEF TypeOK
<1> HIDE DEF p, f
<1>6. ASSUME k \in Live
      PROVE  /\ p + tokens'[b] <= (Full + f) + (now' - a)
             /\ p <= (Full + f) + (now' - a)
             /\ N(k, a)' = 0 \/ p <= f + (last'[b] - a) + TTL
             /\ \A r \in Reqs : held'[r] = b /\ Pending(r)' =>
                  p + Period <= (Full + f) + (timeToAct'[r] - a)
  <2>1. /\ p + tokens[b] <= (Full + f) + (now - a)
        /\ p <= (Full + f) + (now - a)
        /\ N(k, a) = 0 \/ p <= f + (last[b] - a) + TTL
        /\ \A r \in Reqs : held[r] = b /\ Pending(r) =>
             p + Period <= (Full + f) + (timeToAct[r] - a)
    BY <1>2, <1>6 DEF Rate, Allowance, p, f
  <2> QED BY <1>1, <1>2, <1>4, <1>5, <1>6, <2>1
<1>7. ASSUME k \notin Live PROVE p <= f + (now' - a)
  <2>1. p <= f + (now - a)
    BY <1>7 DEF Rate, p, f
  <2> QED BY <1>1, <1>2, <2>1
<1> QED BY <1>2, <1>3, <1>6, <1>7 DEF Rate, Allowance

(* The bucket of a key goes: it idled, or its place was wanted.             *)
LEMMA RateGone ==
    ASSUME TypeOK, Past, NEW k \in Keys, NEW a \in 0 .. now, Rate(k, a),
           now' = now, at' = at, late' = late, Idled(k) \/ GoneForRoom(k)
    PROVE  Rate(k, a)'
<1> DEFINE p == Period * N(k, a)
           f == Full * V(k, a)
           b == bucket[k]
<1>1. /\ now \in Nat /\ a \in Nat /\ a <= now /\ TTL \in Nat /\ Full \in Nat
      /\ Period * 0 = 0
  BY Constants DEF TypeOK, Times
<1>2. k \in Live /\ k \notin Live' /\ b \in Entries /\ last[b] \in Int /\ KeyOf[b[1]] = k
  BY LiveEntries DEF Idled, GoneForRoom, Live, TypeOK, Times
<1>3. N(k, a)' = N(k, a) /\ Period * N(k, a)' = p /\ p \in Nat /\ f \in Nat
  BY <1>1, SameN, CountTypes
<1>4. /\ p <= (Full + f) + (now - a)
      /\ N(k, a) = 0 \/ p <= f + (last[b] - a) + TTL
  BY <1>1, <1>2, CountTypes DEF Rate, Allowance
<1>5. p <= Full * V(k, a)' + (now - a)
  <2>1. CASE Idled(k)
    <3>1. Full * V(k, a)' = f
      BY <1>1, <2>1, SameV DEF Idled
    <3>2. now - last[b] > TTL
      BY <2>1 DEF Idled
    <3>3. N(k, a) = 0 => p = 0
      BY <1>1
    <3> HIDE DEF p, f
    <3> QED BY <1>1, <1>2, <1>3, <1>4, <3>1, <3>2, <3>3
  <2>2. CASE GoneForRoom(k)
    <3>1. Thrown(k, a)' = Thrown(k, a) \cup {b}
      BY <1>1, <1>2, <2>2, LimiterAssumption DEF Thrown, Since, GoneForRoom
    <3>2. b \notin Thrown(k, a)
      BY <1>2 DEF Thrown, Since, Past
    <3>3. V(k, a)' = V(k, a) + 1
      <4>1. Thrown(k, a) \in SUBSET Entries
        BY DEF Thrown
      <4> QED BY <3>1, <3>2, <4>1, SubsetsFinite, FS_AddElement DEF V
    <3>4. Full * V(k, a)' = Full + f
      BY <1>1, <3>3, CountTypes
    <3> QED BY <1>4, <3>4
  <2> QED BY <2>1, <2>2
<1> QED BY <1>2, <1>3, <1>5 DEF Rate

(* A key that had no bucket gets one, full.                                 *)
LEMMA RateNew ==
    ASSUME TypeOK, TypeOK', NEW k \in Keys, NEW a \in 0 .. now, Rate(k, a),
           now' = now, at' = at, late' = late, SameThrown(k), k \notin Live,
           NEW e \in Entries, bucket'[k] = e, tokens'[e] = Full, last'[e] = now,
           \A r \in Reqs : held'[r] = e => ~Pending(r)'
    PROVE  Rate(k, a)'
<1> DEFINE p == Period * N(k, a)
           f == Full * V(k, a)
<1>1. now \in Nat /\ a \in Nat /\ TTL \in Nat /\ Full \in Nat
  BY Constants DEF TypeOK, Times
<1>2. /\ p \in Nat /\ f \in Nat /\ Period * N(k, a)' = p /\ Full * V(k, a)' = f
      /\ Full * (1 + V(k, a)') = Full + f
  BY <1>1, SameN, SameV, CountTypes
<1>3. p <= f + (now - a)
  BY DEF Rate
<1>4. k \in Live'
  BY LimiterAssumption DEF Live
<1> HIDE DEF p, f
<1>5. /\ p + Full <= (Full + f) + (now - a)
      /\ p <= (Full + f) + (now - a)
      /\ p <= f + (now - a) + TTL
  BY <1>1, <1>2, <1>3
<1> QED BY <1>2, <1>4, <1>5 DEF Rate, Allowance
(* The uses of a bucket: r takes or puts back tokens of held[r] only.       *)
LEMMA RateAdmit ==
    ASSUME TypeOK, TypeOK', Past, Debts, NEW r \in Reqs, Take(r), Admit(r),
           NEW k \in Keys, NEW a \in 0 .. now, Rate(k, a)
    PROVE  Rate(k, a)'
<1> DEFINE e == held[r]
<1>0. /\ now \in Nat /\ a \in Nat /\ a <= now /\ TTL \in Nat /\ Full \in Nat
      /\ Period \in Nat \ {0} /\ NoTime \notin Nat
  BY Constants, LimiterAssumption DEF TypeOK, Times
<1>1. /\ e \in Entries /\ KeyOf[e[1]] = KeyOf[r]
      /\ UNCHANGED <<now, bucket, last, thrown, held, timeToAct>>
  BY Holding DEF Take, limiter
<1>2. /\ tokens[e] \in Int /\ tokens[e] >= Period /\ tokens'[e] = tokens[e] - Period
      /\ \A d \in Entries : d # e => tokens'[d] = tokens[d]
  BY <1>1 DEF Admit, HasToken, TypeOK
<1>3. \A s \in Reqs : Pending(s)' => Pending(s) /\ held[s] # e
  <2>1. \A s \in Reqs : Pending(s)' => s # r /\ Pending(s)
    BY <1>1 DEF Take, Admit, GoTo, Pending, TypeOK
  <2>2. \A s \in Reqs : Pending(s) => held[s] # e
    BY NoneAhead DEF Admit
  <2> QED BY <2>1, <2>2
<1>4. V(k, a)' = V(k, a)
  BY <1>0, <1>1, SameV DEF SameThrown
<1>5. at[r] = NoTime /\ r \notin late
  BY DEF Past, Take
<1>6. CASE k = KeyOf[r] /\ ~TooLate(r)
  <2> DEFINE p == Period * N(k, a)
             f == Full * V(k, a)
  <2>1. /\ bucket[k] = e /\ k \in Live /\ k \in Live'
        /\ last[e] \in Int /\ now - last[e] <= TTL - Full
    BY <1>0, <1>1, <1>6, LimiterAssumption DEF TooLate, Live, TypeOK, Times
  <2>2. OnTime(k, a)' = OnTime(k, a) \cup {r} /\ r \notin OnTime(k, a)
    BY <1>0, <1>5, <1>6 DEF Admit, OnTime, Since, TypeOK
  <2>3. N(k, a)' = N(k, a) + 1
    <3>1. OnTime(k, a) \in SUBSET Reqs
      BY DEF OnTime
    <3> QED BY <2>2, <3>1, SubsetsFinite, FS_AddElement DEF N
  <2>4. /\ p \in Nat /\ f \in Nat /\ Period * N(k, a)' = p + Period
        /\ Full * V(k, a)' = f /\ Full * (1 + V(k, a)) = Full + f
        /\ Full * (1 + V(k, a)') = Full + f
    <3>1. N(k, a) \in Nat /\ p \in Nat /\ f \in Nat
      BY <1>0, CountTypes
    <3>2. \A x \in Nat : Period * (x + 1) = Period * x + Period
      BY <1>0, Z3
    <3> QED BY <1>0, <1>4, <2>3, <3>1, <3>2, CountTypes
  <2>5. p + tokens[e] <= (Full + f) + (now - a)
    BY <2>1, <2>4 DEF Rate, Allowance
  <2> HIDE DEF p, f
  <2>6. /\ (p + Period) + tokens'[e] <= (Full + f) + (now - a)
        /\ p + Period <= (Full + f) + (now - a)
        /\ p + Period <= f + (last[e] - a) + TTL
    BY <1>0, <1>2, <2>1, <2>4, <2>5
  <2> QED BY <1>1, <1>3, <2>1, <2>4, <2>6 DEF Rate, Allowance
<1>7. CASE ~(k = KeyOf[r] /\ ~TooLate(r))
  <2>1. N(k, a)' = N(k, a)
    <3>1. OnTime(k, a)' = OnTime(k, a)
      BY <1>0, <1>5, <1>7 DEF Admit, OnTime, Since, TypeOK
    <3> QED BY <3>1 DEF N
  <2>2. k \in Live => /\ tokens'[bucket[k]] <= tokens[bucket[k]] + (now' - now)
                      /\ last[bucket[k]] <= last'[bucket[k]]
    BY <1>0, <1>1, <1>2, LiveEntries DEF TypeOK, Times
  <2> QED BY <1>0, <1>1, <1>3, <1>4, <2>1, <2>2, RateKept
<1> QED BY <1>6, <1>7

LEMMA RateReserve ==
    ASSUME TypeOK, TypeOK', NEW r \in Reqs, Reserve(r),
           NEW k \in Keys, NEW a \in 0 .. now, Rate(k, a)
    PROVE  Rate(k, a)'
<1> DEFINE e == held[r]
           b == bucket[k]
           p == Period * N(k, a)
           f == Full * V(k, a)
<1>0. now \in Nat /\ a \in Nat /\ Full \in Nat /\ Period \in Nat \ {0}
  BY Constants DEF TypeOK, Times
<1>1. /\ e \in Entries /\ UNCHANGED <<now, bucket, last, thrown, held, at, late>>
      /\ tokens[e] \in Int /\ tokens'[e] = tokens[e] - Period
      /\ timeToAct'[r] = Due(e)
      /\ \A d \in Entries : d # e => tokens'[d] = tokens[d]
      /\ \A s \in Reqs : s # r => timeToAct'[s] = timeToAct[s] /\ pc'[s] = pc[s]
  BY Holding DEF Reserve, limiter, GoTo, TypeOK
<1>2. N(k, a)' = N(k, a) /\ V(k, a)' = V(k, a)
  BY <1>0, <1>1, SameN, SameV DEF SameThrown
<1>3. k \in Live => /\ tokens'[b] <= tokens[b] + (now' - now)
                    /\ last[b] <= last'[b]
  BY <1>0, <1>1, LiveEntries DEF TypeOK, Times
<1>4. \A s \in Reqs : s # r /\ Pending(s)' => Pending(s)
  BY <1>1 DEF Pending
<1>5. CASE ~(k \in Live /\ b = e /\ Pending(r)')
  BY <1>0, <1>1, <1>2, <1>3, <1>4, <1>5, RateKept
<1>6. CASE k \in Live /\ b = e /\ Pending(r)'
  <2>1. timeToAct'[r] = now + (Period - tokens[e])
    BY <1>0, <1>1, <1>6 DEF Due, Pending
  <2>2. /\ p \in Nat /\ f \in Nat /\ Period * N(k, a)' = p
        /\ Full * V(k, a)' = f /\ Full * (1 + V(k, a)) = Full + f
        /\ Full * (1 + V(k, a)') = Full + f
    BY <1>0, <1>2, CountTypes
  <2>3. /\ p + tokens[e] <= (Full + f) + (now - a)
        /\ p <= (Full + f) + (now - a)
        /\ N(k, a) = 0 \/ p <= f + (last[b] - a) + TTL
        /\ \A s \in Reqs : held[s] = b /\ Pending(s) =>
             p + Period <= (Full + f) + (timeToAct[s] - a)
    BY <1>6, <2>2 DEF Rate, Allowance
  <2> HIDE DEF p, f
  <2>4. /\ p + tokens'[e] <= (Full + f) + (now - a)
        /\ p + Period <= (Full + f) + (timeToAct'[r] - a)
    BY <1>0, <1>1, <2>1, <2>2, <2>3
  <2>5. k \in Live'
    BY <1>1, <1>6 DEF Live
  <2>6. \A s \in Reqs : held'[s] = b /\ Pending(s)' =>
          p + Period <= (Full + f) + (timeToAct'[s] - a)
    BY <1>1, <1>4, <2>3, <2>4
  <2> QED BY <1>1, <1>2, <1>6, <2>2, <2>3, <2>4, <2>5, <2>6 DEF Rate, Allowance
<1> QED BY <1>5, <1>6

LEMMA RateCancel ==
    ASSUME TypeOK, TypeOK', Debts, NEW r \in Reqs, Cancel(r),
           NEW k \in Keys, NEW a \in 0 .. now, Rate(k, a)
    PROVE  Rate(k, a)'
<1> DEFINE e == held[r]
           b == bucket[k]
           p == Period * N(k, a)
           f == Full * V(k, a)
<1>0. now \in Nat /\ a \in Nat /\ Full \in Nat /\ Period \in Nat \ {0}
  BY Constants DEF TypeOK, Times
<1>1. /\ e \in Entries /\ UNCHANGED <<now, bucket, last, thrown, held, at, late, timeToAct>>
      /\ \A s \in Reqs : Pending(s)' => Pending(s)
  BY Holding DEF Cancel, limiter, GoTo, Pending, TypeOK
<1>2. N(k, a)' = N(k, a) /\ V(k, a)' = V(k, a)
  BY <1>0, <1>1, SameN, SameV DEF SameThrown
<1>3. CASE ~(k \in Live /\ b = e /\ timeToAct[r] > now /\ Refund(r) > 0)
  <2>1. k \in Live => tokens'[b] = tokens[b] /\ b \in Entries
    BY <1>1, <1>3, LiveEntries DEF Cancel, lims, TypeOK
  <2>2. k \in Live => /\ tokens'[b] <= tokens[b] + (now' - now)
                      /\ last[b] <= last'[b]
    BY <1>0, <1>1, <2>1 DEF TypeOK, Times
  <2> QED BY <1>0, <1>1, <1>2, <2>2, RateKept
<1>4. CASE k \in Live /\ b = e /\ timeToAct[r] > now /\ Refund(r) > 0
  <2>1. Pending(r)
    BY <1>4 DEF Pending, Cancel
  <2>2. /\ Refund(r) \in Int /\ Refund(r) <= Period
        /\ tokens[e] <= now - timeToAct[r]
    BY <1>4, <2>1, RefundBound DEF Debts
  <2>3. tokens[e] \in Int /\ timeToAct[r] \in Int /\ tokens'[e] \in Int
    BY <1>1 DEF TypeOK
  <2>4. tokens'[e] <= tokens[e] + Refund(r)
    <3>1. tokens'[e] = Cap(tokens[e] + Refund(r))
      BY <1>1, <1>4 DEF Cancel, TypeOK
    <3> QED BY <2>2, <2>3, <3>1, CapType
  <2>5. /\ p \in Nat /\ f \in Nat /\ Period * N(k, a)' = p
        /\ Full * V(k, a)' = f /\ Full * (1 + V(k, a)) = Full + f
        /\ Full * (1 + V(k, a)') = Full + f
    BY <1>0, <1>2, CountTypes
  <2>6. /\ p <= (Full + f) + (now - a)
        /\ N(k, a) = 0 \/ p <= f + (last[b] - a) + TTL
        /\ \A s \in Reqs : held[s] = b /\ Pending(s) =>
             p + Period <= (Full + f) + (timeToAct[s] - a)
    BY <1>4, <2>5 DEF Rate, Allowance
  <2>7. p + Period <= (Full + f) + (timeToAct[r] - a)
    BY <1>4, <2>1, <2>6
  <2> HIDE DEF p, f
  <2>8. p + tokens'[e] <= (Full + f) + (now - a)
    BY <1>0, <2>2, <2>3, <2>4, <2>5, <2>7
  <2>9. k \in Live'
    BY <1>1, <1>4 DEF Live
  <2> QED BY <1>1, <1>2, <1>4, <2>5, <2>6, <2>8, <2>9 DEF Rate, Allowance
<1> QED BY <1>3, <1>4

LEMMA RatesStep ==
    TypeOK /\ TypeOK' /\ Fresh /\ Past /\ Debts /\ Rates /\ [Next]_vars => Rates'
<1> SUFFICES ASSUME TypeOK, TypeOK', Fresh, Past, Debts, Rates, [Next]_vars PROVE Rates'
  OBVIOUS
<1>0. now \in Nat /\ TTL \in Nat /\ Full \in Nat /\ Period \in Nat \ {0} /\ Full >= Period
  BY Constants DEF TypeOK, Times
<1>1. CASE Tick
  <2>1. /\ now' = now + 1 /\ UNCHANGED <<bucket, last, thrown, pc, held, timeToAct, at, late>>
        /\ \A d \in Entries : tokens'[d] \in Int /\ tokens'[d] <= tokens[d] + 1 /\ tokens'[d] <= Full
    BY <1>1, Numbers, CapType DEF Tick, limiter, request
  <2>2. ASSUME NEW k \in Keys, NEW a \in 0 .. now PROVE Rate(k, a)'
    <3>1. k \in Live => /\ tokens'[bucket[k]] <= tokens[bucket[k]] + (now' - now)
                        /\ last[bucket[k]] <= last'[bucket[k]]
      BY <1>0, <2>1, LiveEntries, Numbers
    <3>2. N(k, a)' = N(k, a) /\ V(k, a)' = V(k, a)
      BY <1>0, <2>1, SameN, SameV DEF SameThrown
    <3>3. \A s \in Reqs : Pending(s)' => Pending(s)
      BY <1>0, <2>1, Numbers DEF Pending
    <3> QED BY <1>0, <2>1, <3>1, <3>2, <3>3, RateKept DEF Rates
  <2>3. ASSUME NEW k \in Keys, NEW a \in Nat, a = now + 1 PROVE Rate(k, a)'
    <3>1. OnTime(k, a)' = {} /\ Thrown(k, a)' = {}
      BY <1>0, <2>1, <2>3, LimiterAssumption DEF OnTime, Thrown, Since, Past, TypeOK, Times
    <3>2. N(k, a)' = 0 /\ V(k, a)' = 0
      BY <3>1, FS_EmptySet DEF N, V
    <3>3. Period * N(k, a)' = 0 /\ Full * V(k, a)' = 0
          /\ Full * (1 + V(k, a)') = Full
      BY <1>0, <3>2
    <3>4. k \in Live' => tokens'[bucket'[k]] <= Full
      BY <2>1, LiveEntries DEF Live
    <3>5. \A s \in Reqs : Pending(s)' => timeToAct'[s] \in Int /\ timeToAct'[s] > a
      BY <2>1, <2>3, Numbers DEF Pending
    <3>6. k \in Live' => tokens'[bucket'[k]] \in Int
      BY <2>1, LiveEntries DEF Live
    <3>7. /\ now' - a = 0 /\ a \in Nat
          /\ \A s \in Reqs : Pending(s)' => 0 + Period <= Full + (timeToAct'[s] - a)
      BY <1>0, <2>1, <2>3, <3>5
    <3>8. k \in Live' => 0 + tokens'[bucket'[k]] <= Full + 0
      BY <1>0, <3>4, <3>6
    <3>9. N(k, a)' = 0 /\ 0 <= Full + 0 /\ 0 <= 0 + 0
      BY <1>0, <3>2
    <3> QED BY <3>3, <3>7, <3>8, <3>9 DEF Rate, Allowance
  <2>4. \A a \in 0 .. now' : a \in 0 .. now \/ (a \in Nat /\ a = now + 1)
    BY <1>0, <2>1
  <2> QED BY <2>2, <2>3, <2>4 DEF Rates
<1>2. ASSUME NEW r \in Reqs, NEW e \in Entries, KeyOf[e[1]] = KeyOf[r], Looked(r, e)
      PROVE  Rates'
  <2>1. /\ UNCHANGED <<now, tokens, lastEvent, timeToAct, at, late>>
        /\ \A d \in Entries : last'[d] \in {last[d], now} /\ last'[e] = now
        /\ \A s \in Reqs : Pending(s)' => s # r /\ Pending(s) /\ held'[s] = held[s]
    BY <1>2 DEF Looked, Pending, TypeOK
  <2>2. ASSUME NEW k \in Keys, NEW a \in 0 .. now PROVE Rate(k, a)'
    <3>0. a \in Nat /\ Rate(k, a) /\ N(k, a)' = N(k, a)
      BY <1>0, <2>1, SameN DEF Rates
    <3>1. CASE Stays(k)
      <4>1. k \in Live => /\ tokens'[bucket[k]] <= tokens[bucket[k]] + (now' - now)
                          /\ last[bucket[k]] <= last'[bucket[k]]
        BY <1>0, <2>1, LiveEntries, Numbers DEF Past
      <4> QED BY <1>0, <2>1, <3>0, <3>1, <4>1, SameV, RateKept DEF Stays
    <3>2. CASE Idled(k) \/ GoneForRoom(k)
      BY <2>1, <3>0, <3>2, RateGone
    <3>3. CASE k = KeyOf[r] /\ ~Stays(k)
      <4>1. k \notin Live /\ Unmade(e) /\ SameThrown(k) /\ bucket'[k] = e
        BY <1>2, <3>3 DEF Looked, Stays
      <4>2. \A s \in Reqs : held'[s] = e => ~Pending(s)'
        BY <2>1, <4>1 DEF Unmade
      <4>3. /\ now' = now /\ at' = at /\ late' = late
            /\ tokens'[e] = Full /\ last'[e] = now
        BY <2>1, <4>1 DEF Unmade
      <4> QED BY <3>0, <4>1, <4>2, <4>3, RateNew
    <3>4. Stays(k) \/ Idled(k) \/ GoneForRoom(k) \/ k = KeyOf[r]
      BY <1>2 DEF Looked
    <3> QED BY <3>1, <3>2, <3>3, <3>4
  <2> QED BY <2>1, <2>2 DEF Rates
<1>3. CASE /\ UNCHANGED <<now, last, thrown, lims, request>>
           /\ \A k \in Keys : Stays(k) \/ Idled(k)
  <2>1. ASSUME NEW k \in Keys, NEW a \in 0 .. now PROVE Rate(k, a)'
    <3>0. /\ a \in Nat /\ Rate(k, a) /\ N(k, a)' = N(k, a)
          /\ \A s \in Reqs : Pending(s)' => Pending(s)
      BY <1>0, <1>3, SameN DEF Rates, request, Pending
    <3>1. CASE Stays(k)
      <4>1. k \in Live => /\ tokens'[bucket[k]] <= tokens[bucket[k]] + (now' - now)
                          /\ last[bucket[k]] <= last'[bucket[k]]
        BY <1>0, <1>3, LiveEntries, Numbers DEF lims
      <4> QED BY <1>0, <1>3, <3>0, <3>1, <4>1, SameV, RateKept DEF Stays, request
    <3>2. CASE Idled(k)
      BY <1>3, <3>0, <3>2, RateGone DEF request
    <3> QED BY <1>3, <3>1, <3>2
  <2> QED BY <1>3, <2>1 DEF Rates
<1>4. ASSUME NEW r \in Reqs, Take(r) \/ Reserve(r) \/ Cancel(r) PROVE Rates'
  <2>1. now' = now
    BY <1>4 DEF Take, Reserve, Cancel
  <2>2. ASSUME NEW k \in Keys, NEW a \in 0 .. now PROVE Rate(k, a)'
    <3>0. Rate(k, a)
      BY DEF Rates
    <3>1. CASE Take(r) /\ Admit(r)
      BY <3>0, <3>1, RateAdmit
    <3>2. CASE Take(r) /\ Refuse(r)
      BY <3>0, <3>2, SameN, SameV DEF Take, Refuse, GoTo, limiter, lims, Rate, Allowance,
         Live, Pending, SameThrown, TypeOK
    <3>3. CASE Reserve(r)
      BY <3>0, <3>3, RateReserve
    <3>4. CASE Cancel(r)
      BY <3>0, <3>4, RateCancel
    <3> QED BY <1>4, <3>1, <3>2, <3>3, <3>4 DEF Take
  <2> QED BY <2>1, <2>2 DEF Rates
<1>5. CASE UNCHANGED vars
  BY <1>5 DEF vars, Rates, Rate, Allowance, N, V, OnTime, Thrown, Since, Live, Pending
<1> QED BY <1>1, <1>2, <1>3, <1>4, <1>5, Steps
----------------------------------------------------------------------------
(* The rate of one bucket *)

LEMMA ByTypes ==
    \A e \in Entries, a \in Nat :
        /\ B(e, a) \in Nat /\ B(e, a)' \in Nat
        /\ Period * B(e, a) \in Nat /\ Period * B(e, a)' \in Nat
        /\ Period * (B(e, a) + 1) = Period * B(e, a) + Period
<1> SUFFICES ASSUME NEW e \in Entries, NEW a \in Nat
             PROVE  /\ B(e, a) \in Nat /\ B(e, a)' \in Nat
                    /\ Period * B(e, a) \in Nat /\ Period * B(e, a)' \in Nat
                    /\ Period * (B(e, a) + 1) = Period * B(e, a) + Period
  OBVIOUS
<1>1. By(e, a) \in SUBSET Reqs /\ By(e, a)' \in SUBSET Reqs
  BY DEF By
<1>2. B(e, a) \in Nat /\ B(e, a)' \in Nat
  BY <1>1, SubsetsFinite DEF B
<1>3. \A p, x \in Nat : p * x \in Nat /\ p * (x + 1) = p * x + p
  BY Z3
<1>4. Period \in Nat
  BY Constants
<1> HIDE DEF B
<1> QED BY <1>2, <1>3, <1>4

(* A bucket that admits nobody, and gains no more than the time that passes.*)
LEMMA BucketRateKept ==
    ASSUME TypeOK, TypeOK', NEW e \in Entries, NEW a \in 0 .. now, BucketRate(e, a),
           now <= now', By(e, a)' = By(e, a),
           tokens'[e] <= tokens[e] + (now' - now),
           \A r \in Reqs : held'[r] = e /\ Pending(r)' =>
               held[r] = e /\ Pending(r) /\ timeToAct'[r] = timeToAct[r]
    PROVE  BucketRate(e, a)'
<1> DEFINE p == Period * B(e, a)
<1>1. /\ now \in Nat /\ now' \in Nat /\ a \in Nat /\ Full \in Nat /\ Period \in Nat
      /\ tokens[e] \in Int /\ tokens'[e] \in Int
  BY Constants DEF TypeOK, Times
<1>2. p \in Nat /\ Period * B(e, a)' = p
  BY <1>1, ByTypes DEF B
<1>3. /\ p + tokens[e] <= Full + (now - a)
      /\ p <= Full + (now - a)
      /\ \A r \in Reqs : held[r] = e /\ Pending(r) =>
           p + Period <= Full + (timeToAct[r] - a)
  BY DEF BucketRate
<1> HIDE DEF p
<1>4. p + tokens'[e] <= Full + (now' - a) /\ p <= Full + (now' - a)
  BY <1>1, <1>2, <1>3
<1> QED BY <1>2, <1>3, <1>4 DEF BucketRate

(* The uses of a bucket by r.                                               *)
LEMMA BucketRateUsed ==
    ASSUME TypeOK, TypeOK', Past, Debts, NEW r \in Reqs,
           Take(r) \/ Reserve(r) \/ Cancel(r),
           NEW e \in Entries, e = held[r], NEW a \in 0 .. now, BucketRate(e, a)
    PROVE  BucketRate(e, a)'
<1> DEFINE p == Period * B(e, a)
<1>0. /\ now \in Nat /\ a \in Nat /\ a <= now /\ Full \in Nat /\ Period \in Nat \ {0}
      /\ NoTime \notin Nat
  BY Constants, LimiterAssumption DEF TypeOK, Times
<1>1. /\ UNCHANGED <<now, held>>
      /\ tokens[e] \in Int /\ tokens'[e] \in Int
      /\ \A s \in Reqs : timeToAct[s] \in Int /\ timeToAct'[s] \in Int
  BY DEF Take, Reserve, Cancel, TypeOK
<1>2. /\ p \in Nat /\ p + tokens[e] <= Full + (now - a) /\ p <= Full + (now - a)
      /\ \A s \in Reqs : held[s] = e /\ Pending(s) =>
           p + Period <= Full + (timeToAct[s] - a)
  BY <1>0, <1>1, ByTypes DEF BucketRate
<1>3. CASE Take(r) /\ Admit(r)
  <2>1. By(e, a)' = By(e, a) \cup {r} /\ r \notin By(e, a)
    BY <1>0, <1>1, <1>3 DEF Take, Admit, By, Since, Past, TypeOK
  <2>2. B(e, a)' = B(e, a) + 1
    <3>1. By(e, a) \in SUBSET Reqs
      BY DEF By
    <3> QED BY <2>1, <3>1, SubsetsFinite, FS_AddElement DEF B
  <2>3. Period * B(e, a)' = p + Period
    BY <1>0, <1>1, <2>2, ByTypes
  <2>4. tokens[e] >= Period /\ tokens'[e] = tokens[e] - Period
    BY <1>1, <1>3 DEF Admit, HasToken, TypeOK
  <2>5. \A s \in Reqs : held'[s] = e => ~Pending(s)'
    <3>1. \A s \in Reqs : Pending(s)' => Pending(s)
      BY <1>1, <1>3 DEF Take, Admit, GoTo, Pending, TypeOK
    <3>2. \A s \in Reqs : Pending(s) => held[s] # e
      BY <1>3, NoneAhead DEF Admit
    <3> QED BY <1>1, <3>1, <3>2
  <2> HIDE DEF p
  <2>6. /\ (p + Period) + tokens'[e] <= Full + (now - a)
        /\ p + Period <= Full + (now - a)
    BY <1>0, <1>1, <1>2, <2>4
  <2> QED BY <1>1, <2>3, <2>5, <2>6 DEF BucketRate
<1>4. CASE Take(r) /\ Refuse(r)
  <2>1. UNCHANGED <<tokens, at, timeToAct>> /\ \A s \in Reqs : Pending(s)' => Pending(s)
    BY <1>1, <1>4 DEF Take, Refuse, lims, GoTo, Pending, TypeOK
  <2>2. By(e, a)' = By(e, a)
    BY <1>1, <2>1 DEF By, Since
  <2> QED BY <1>0, <1>1, <2>1, <2>2, BucketRateKept
<1>5. CASE Reserve(r)
  <2>1. at' = at /\ By(e, a)' = By(e, a)
    BY <1>1, <1>5 DEF Reserve, By, Since
  <2>2. Period * B(e, a)' = p
    BY <2>1 DEF B
  <2>3. tokens'[e] = tokens[e] - Period /\ timeToAct'[r] = Due(e)
    BY <1>1, <1>5 DEF Reserve, TypeOK
  <2>4. \A s \in Reqs : s # r /\ Pending(s)' => Pending(s) /\ timeToAct'[s] = timeToAct[s]
    BY <1>1, <1>5 DEF Reserve, GoTo, Pending, TypeOK
  <2>5. Pending(r)' => timeToAct'[r] = now + (Period - tokens[e])
    BY <1>0, <1>1, <2>3 DEF Due, Pending
  <2> HIDE DEF p
  <2>6. /\ p + tokens'[e] <= Full + (now - a)
        /\ Pending(r)' => p + Period <= Full + (timeToAct'[r] - a)
    BY <1>0, <1>1, <1>2, <2>3, <2>5
  <2>7. \A s \in Reqs : held'[s] = e /\ Pending(s)' =>
          p + Period <= Full + (timeToAct'[s] - a)
    BY <1>1, <1>2, <2>4, <2>6
  <2> QED BY <1>1, <1>2, <2>2, <2>6, <2>7 DEF BucketRate
<1>6. CASE Cancel(r)
  <2>1. /\ UNCHANGED <<at, timeToAct>> /\ By(e, a)' = By(e, a)
        /\ \A s \in Reqs : Pending(s)' => Pending(s)
    BY <1>1, <1>6 DEF Cancel, GoTo, Pending, TypeOK, By, Since
  <2>2. CASE timeToAct[r] > now /\ Refund(r) > 0
    <3>1. Pending(r)
      BY <1>6, <2>2 DEF Cancel, Pending
    <3>2. /\ Refund(r) \in Int /\ Refund(r) <= Period
          /\ tokens[e] <= now - timeToAct[r]
      BY <2>2, <3>1, RefundBound DEF Debts
    <3>3. tokens'[e] <= tokens[e] + Refund(r)
      <4>1. tokens'[e] = Cap(tokens[e] + Refund(r))
        BY <1>1, <1>6, <2>2 DEF Cancel, TypeOK
      <4> QED BY <1>1, <3>2, <4>1, CapType
    <3>4. p + Period <= Full + (timeToAct[r] - a)
      BY <1>2, <3>1
    <3>5. Period * B(e, a)' = p
      BY <2>1 DEF B
    <3> HIDE DEF p
    <3>6. p + tokens'[e] <= Full + (now - a)
      BY <1>0, <1>1, <1>2, <3>2, <3>3, <3>4
    <3> QED BY <1>1, <1>2, <2>1, <3>5, <3>6 DEF BucketRate
  <2>3. CASE ~(timeToAct[r] > now /\ Refund(r) > 0)
    <3>1. tokens' = tokens
      BY <1>6, <2>3 DEF Cancel, lims
    <3> QED BY <1>0, <1>1, <2>1, <3>1, BucketRateKept
  <2> QED BY <2>2, <2>3
<1> QED BY <1>3, <1>4, <1>5, <1>6 DEF Take

LEMMA BucketRatesStep ==
    TypeOK /\ TypeOK' /\ Fresh /\ Past /\ Debts /\ BucketRates /\ [Next]_vars => BucketRates'
<1> SUFFICES ASSUME TypeOK, TypeOK', Fresh, Past, Debts, BucketRates, [Next]_vars
             PROVE  BucketRates'
  OBVIOUS
<1>0. /\ now \in Nat /\ Full \in Nat /\ Period \in Nat \ {0} /\ Full >= Period
      /\ NoTime \notin Nat
      /\ \A e \in Entries : tokens[e] \in Int
  BY Numbers, Constants, LimiterAssumption
<1>1. CASE Tick
  <2>1. /\ now' = now + 1 /\ UNCHANGED <<pc, held, timeToAct, at>>
        /\ \A d \in Entries : tokens'[d] \in Int /\ tokens'[d] <= tokens[d] + 1 /\ tokens'[d] <= Full
    BY <1>1, Numbers, CapType DEF Tick, request
  <2>2. ASSUME NEW e \in Entries, NEW a \in 0 .. now PROVE BucketRate(e, a)'
    <3>1. By(e, a)' = By(e, a)
      BY <2>1 DEF By, Since
    <3>2. \A s \in Reqs : Pending(s)' => Pending(s)
      BY <1>0, <2>1, Numbers DEF Pending
    <3>3. now <= now' /\ tokens'[e] <= tokens[e] + (now' - now)
      BY <1>0, <2>1
    <3> QED BY <2>1, <3>1, <3>2, <3>3, BucketRateKept DEF BucketRates
  <2>3. ASSUME NEW e \in Entries, NEW a \in Nat, a = now + 1 PROVE BucketRate(e, a)'
    <3>1. By(e, a)' = {}
      BY <1>0, <2>1, <2>3 DEF By, Since, Past, TypeOK, Times
    <3>2. Period * B(e, a)' = 0
      BY <1>0, <3>1, FS_EmptySet DEF B
    <3>3. \A s \in Reqs : Pending(s)' => timeToAct'[s] \in Int /\ timeToAct'[s] > a
      BY <2>1, <2>3, Numbers DEF Pending
    <3>4. /\ now' - a = 0
          /\ \A s \in Reqs : Pending(s)' => 0 + Period <= Full + (timeToAct'[s] - a)
          /\ 0 + tokens'[e] <= Full + 0
          /\ 0 <= Full + 0
      BY <1>0, <2>1, <2>3, <3>3
    <3> QED BY <3>2, <3>4 DEF BucketRate
  <2>4. \A a \in 0 .. now' : a \in 0 .. now \/ (a \in Nat /\ a = now + 1)
    BY <1>0, <2>1
  <2> QED BY <2>2, <2>3, <2>4 DEF BucketRates
<1>2. ASSUME now' = now, tokens' = tokens, timeToAct' = timeToAct,
             NEW e \in Entries, NEW a \in 0 .. now, By(e, a)' = By(e, a),
             \A s \in Reqs : Pending(s)' => Pending(s) /\ held'[s] = held[s]
      PROVE  BucketRate(e, a)'
  BY <1>0, <1>2, BucketRateKept DEF BucketRates
<1>3. ASSUME NEW r \in Reqs, NEW e \in Entries, Looked(r, e) PROVE BucketRates'
  <2>1. /\ UNCHANGED <<now, tokens, timeToAct, at>>
        /\ \A s \in Reqs : Pending(s)' => Pending(s) /\ held'[s] = held[s]
        /\ \A s \in Reqs : s # r => held'[s] = held[s]
        /\ at[r] = NoTime
    BY <1>3 DEF Looked, Pending, Past, TypeOK
  <2>2. \A d \in Entries, a \in 0 .. now : By(d, a)' = By(d, a)
    BY <2>1 DEF By, Since
  <2> QED BY <1>2, <2>1, <2>2 DEF BucketRates
<1>4. CASE UNCHANGED <<now, tokens, request>>
  BY <1>2, <1>4 DEF BucketRates, request, By, Since, Pending
<1>5. ASSUME NEW r \in Reqs, Take(r) \/ Reserve(r) \/ Cancel(r) PROVE BucketRates'
  <2>1. /\ held[r] \in Entries /\ UNCHANGED <<now, held>>
        /\ \A d \in Entries : d # held[r] => tokens'[d] = tokens[d]
        /\ \A s \in Reqs : s # r => at'[s] = at[s] /\ timeToAct'[s] = timeToAct[s] /\ pc'[s] = pc[s]
    BY <1>5, Holding DEF Take, Admit, Refuse, Reserve, Cancel, GoTo, lims, TypeOK
  <2>2. ASSUME NEW e \in Entries, NEW a \in 0 .. now PROVE BucketRate(e, a)'
    <3>1. CASE e = held[r]
      BY <1>5, <3>1, BucketRateUsed DEF BucketRates
    <3>2. CASE e # held[r]
      <4>1. By(e, a)' = By(e, a)
        BY <2>1, <3>2 DEF By, Since
      <4>2. \A s \in Reqs : held'[s] = e /\ Pending(s)' =>
              held[s] = e /\ Pending(s) /\ timeToAct'[s] = timeToAct[s]
        BY <2>1, <3>2 DEF Pending
      <4>3. now <= now' /\ tokens'[e] <= tokens[e] + (now' - now)
        BY <1>0, <2>1, <3>2
      <4> QED BY <4>1, <4>2, <4>3, BucketRateKept DEF BucketRates
    <3> QED BY <3>1, <3>2
  <2> QED BY <2>1, <2>2 DEF BucketRates
<1> QED BY <1>1, <1>3, <1>4, <1>5, Steps DEF lims, vars, request

(* Requests served by few buckets are few: those that Q sends to the        *)
(* entries of D number at most the entries times what each one admitted.    *)
LEMMA FewBuckets ==
    ASSUME NEW Q \in SUBSET Reqs, NEW D \in SUBSET Entries, NEW a \in Nat, NEW m \in Nat,
           \A r \in Q : held[r] \in D /\ Since(at[r], a),
           \A e \in D : B(e, a) <= m
    PROVE  Cardinality(Q) <= Cardinality(D) * m
<1>1. \A e \in D : \E f \in [By(e, a) -> 1 .. m] :
        \A r, s \in By(e, a) : f[r] = f[s] => r = s
  <2> SUFFICES ASSUME NEW e \in D
               PROVE  \E f \in [By(e, a) -> 1 .. m] :
                        \A r, s \in By(e, a) : f[r] = f[s] => r = s
    OBVIOUS
  <2>1. IsFiniteSet(By(e, a)) /\ B(e, a) \in Nat /\ B(e, a) <= m
    <3>1. By(e, a) \in SUBSET Reqs
      BY DEF By
    <3> QED BY <3>1, SubsetsFinite DEF B
  <2>2. ExistsBijection(1 .. B(e, a), By(e, a))
    BY <2>1, FS_CardinalityType DEF B
  <2>3. PICK g \in Bijection(1 .. B(e, a), By(e, a)) : TRUE
    BY <2>2 DEF ExistsBijection
  <2>4. /\ g \in [1 .. B(e, a) -> By(e, a)]
        /\ \A r \in By(e, a) : \E i \in 1 .. B(e, a) : g[i] = r
    BY <2>3 DEF Bijection, Surjection, Injection
  <2> DEFINE f == [r \in By(e, a) |-> CHOOSE i \in 1 .. B(e, a) : g[i] = r]
  <2>5. \A r \in By(e, a) : f[r] \in 1 .. B(e, a) /\ g[f[r]] = r
    BY <2>4
  <2>6. 1 .. B(e, a) \subseteq 1 .. m
    BY <2>1
  <2>7. f \in [By(e, a) -> 1 .. m]
    BY <2>5, <2>6
  <2> HIDE DEF f
  <2>8. \A r, s \in By(e, a) : f[r] = f[s] => r = s
    BY <2>5
  <2> QED BY <2>7, <2>8
<1> DEFINE F(e) == CHOOSE f \in [By(e, a) -> 1 .. m] :
                     \A r, s \in By(e, a) : f[r] = f[s] => r = s
<1>2. \A e \in D : /\ F(e) \in [By(e, a) -> 1 .. m]
                   /\ \A r, s \in By(e, a) : F(e)[r] = F(e)[s] => r = s
  BY <1>1
<1> HIDE DEF F
<1>3. \A r \in Q : r \in By(held[r], a)
  BY DEF By
<1> DEFINE h == [r \in Q |-> <<held[r], F(held[r])[r]>>]
<1>4. h \in Injection(Q, D \X (1 .. m))
  <2>1. h \in [Q -> D \X (1 .. m)]
    BY <1>2, <1>3
  <2>2. ASSUME NEW r \in Q, NEW s \in Q, h[r] = h[s] PROVE r = s
    <3>1. held[r] = held[s] /\ F(held[r])[r] = F(held[s])[s]
      BY <2>2
    <3> QED BY <1>2, <1>3, <3>1
  <2> QED BY <2>1, <2>2 DEF Injection, IsInjective
<1>5. IsFiniteSet(D)
  BY SubsetsFinite
<1>6. IsFiniteSet(1 .. m) /\ Cardinality(1 .. m) = m
  BY FS_Interval
<1>7. IsFiniteSet(D \X (1 .. m)) /\ Cardinality(D \X (1 .. m)) = Cardinality(D) * m
  BY <1>5, <1>6, FS_Product
<1> HIDE DEF h
<1> QED BY <1>4, <1>7, FS_Injection

----------------------------------------------------------------------------
(* Bursts *)

LEMMA ServedTypes ==
    \A k \in Keys :
        /\ IsFiniteSet(Served(k)) /\ Cardinality(Served(k)) \in Nat
        /\ Cardinality(Served(k))' \in Nat
BY SubsetsFinite DEF Served

(* While a key has not had a burst, its buckets have a token.               *)
LEMMA BurstArithmetic ==
    \A n \in Nat : /\ Period * n \in Nat
                   /\ n < Burst => Full - Period * n >= Period
                   /\ Period * (n + 1) = Period * n + Period
<1>1. Period \in Nat \ {0} /\ Burst \in Nat \ {0} /\ Full = Burst * Period
  BY Constants
<1>2. \A p, n \in Nat : p * n \in Nat /\ p * (n + 1) = p * n + p
  BY Z3
<1>3. \A p, n, m \in Nat : m * p - p * n = p * (m - n)
  BY Z3
<1>4. \A p \in Nat \ {0}, x \in Nat : x >= 1 => p * x >= p
  BY Z3
<1>5. ASSUME NEW n \in Nat, n < Burst PROVE Full - Period * n >= Period
  <2>1. Burst - n \in Nat /\ Burst - n >= 1
    BY <1>1, <1>5
  <2>2. Period * (Burst - n) >= Period
    BY <1>1, <1>4, <2>1
  <2>3. Full - Period * n = Period * (Burst - n)
    BY <1>1, <1>3
  <2> QED BY <2>2, <2>3
<1> QED BY <1>1, <1>2, <1>5

LEMMA BurstsStep == TypeOK /\ TypeOK' /\ Fresh /\ Bursts /\ [Next]_vars => Bursts'
<1> SUFFICES ASSUME TypeOK, TypeOK', Fresh, Bursts, [Next]_vars PROVE Bursts'
  OBVIOUS
<1> DEFINE n(k) == Cardinality(Served(k))
           Owes(k) == \A e \in Entries : KeyOf[e[1]] = k => tokens[e] >= Full - Period * n(k)
           Unrefused(k) == \A r \in Reqs : KeyOf[r] = k => pc[r] \in {"start", "take", "served"}
<1>0. \A k \in Keys : n(k) < Burst => Owes(k) /\ Unrefused(k)
  BY DEF Bursts
<1>00. \A k \in Keys : n(k) \in Nat /\ Period * n(k) \in Nat /\ Full \in Nat
  BY ServedTypes, BurstArithmetic, Constants
<1>1. SUFFICES ASSUME NEW k \in Keys, n(k)' < Burst PROVE Owes(k)' /\ Unrefused(k)'
  BY DEF Bursts
<1>2. ASSUME Served(k)' = Served(k),
             \A e \in Entries : KeyOf[e[1]] = k => tokens'[e] >= tokens[e] \/ tokens'[e] = Full,
             \A r \in Reqs : KeyOf[r] = k =>
               pc'[r] = pc[r] \/ (pc[r] # "refused" /\ pc'[r] = "take")
      PROVE  Owes(k)' /\ Unrefused(k)'
  <2>1. n(k)' = n(k)
    BY <1>2
  <2>2. Owes(k) /\ Unrefused(k)
    BY <1>0, <1>1, <2>1
  <2> HIDE DEF n
  <2>3. Owes(k)'
    BY <1>00, <1>2, <2>1, <2>2, Numbers DEF TypeOK
  <2>4. Unrefused(k)'
    BY <1>2, <2>2
  <2> QED BY <2>3, <2>4
<1>3. CASE Tick
  <2>1. Served(k)' = Served(k) /\ pc' = pc
    BY <1>3 DEF Tick, request, Served
  <2>2. \A e \in Entries : tokens'[e] >= tokens[e] \/ tokens'[e] = Full
    BY <1>3, Numbers, Constants DEF Tick, Cap
  <2> QED BY <1>2, <2>1, <2>2
<1>4. ASSUME NEW r \in Reqs, NEW e \in Entries, KeyOf[e[1]] = KeyOf[r], Looked(r, e)
      PROVE  Owes(k)' /\ Unrefused(k)'
  <2>1. tokens' = tokens /\ Served(k)' = Served(k)
    BY <1>4 DEF Looked, Served, TypeOK
  <2>2. \A s \in Reqs : s # r => pc'[s] = pc[s]
    BY <1>4 DEF Looked, TypeOK
  <2>3. KeyOf[r] = k => pc[r] # "refused" /\ pc'[r] = "take"
    <3>1. KeyOf[r] = k => pc[r] # "refused"
      BY <1>0, <1>1, <2>1
    <3> QED BY <1>4, <3>1 DEF Looked, TypeOK
  <2>4. \A d \in Entries : tokens'[d] >= tokens[d]
    BY <2>1, Numbers
  <2> QED BY <1>2, <2>1, <2>2, <2>3, <2>4
<1>5. CASE UNCHANGED <<now, last, thrown, lims, request>>
  BY <1>2, <1>5, Numbers DEF lims, request, Served
<1>6. ASSUME NEW r \in Reqs, Take(r) \/ Reserve(r) \/ Cancel(r)
      PROVE  Owes(k)' /\ Unrefused(k)'
  <2>0. held[r] \in Entries /\ KeyOf[held[r][1]] = KeyOf[r]
    BY <1>6, Holding DEF Take, Reserve, Cancel
  <2>1. /\ \A s \in Reqs : s # r => pc'[s] = pc[s]
        /\ \A e \in Entries : e # held[r] => tokens'[e] = tokens[e]
    BY <1>6, <2>0 DEF Take, Admit, Refuse, Reserve, Cancel, GoTo, lims, TypeOK
  <2>2. CASE KeyOf[r] # k
    <3>1. Served(k)' = Served(k)
      BY <2>1, <2>2 DEF Served
    <3>2. \A e \in Entries : KeyOf[e[1]] = k => tokens'[e] >= tokens[e]
      BY <2>0, <2>1, <2>2, Numbers
    <3> QED BY <1>2, <2>1, <2>2, <3>1, <3>2
  <2>3. CASE KeyOf[r] = k /\ pc[r] \in {"reserve", "cancel"}
    <3>1. Served(k)' = Served(k)
      BY <1>6, <2>3 DEF Take, Reserve, Cancel, GoTo, Served, TypeOK
    <3>2. Unrefused(k)
      BY <1>0, <1>1, <3>1
    <3> QED BY <2>3, <3>2
  <2>4. CASE KeyOf[r] = k /\ Take(r) /\ Refuse(r)
    <3>1. Served(k)' = Served(k)
      BY <2>4 DEF Take, Refuse, GoTo, Served, TypeOK
    <3>2. n(k) < Burst /\ tokens[held[r]] >= Full - Period * n(k)
      BY <1>0, <1>1, <2>0, <2>4, <3>1
    <3>3. Full - Period * n(k) >= Period
      BY <1>00, <3>2, BurstArithmetic
    <3> HIDE DEF n
    <3>4. HasToken(held[r])
      BY <1>00, <2>0, <3>2, <3>3, Numbers, Constants DEF HasToken
    <3> QED BY <2>4, <3>4 DEF Refuse
  <2>5. CASE KeyOf[r] = k /\ Take(r) /\ Admit(r)
    <3>1. Served(k)' = Served(k) \cup {r} /\ r \notin Served(k)
      BY <2>5 DEF Take, Admit, GoTo, Served, TypeOK
    <3>2. n(k)' = n(k) + 1
      BY <3>1, ServedTypes, FS_AddElement
    <3>3. Owes(k) /\ Unrefused(k) /\ Period * n(k)' = Period * n(k) + Period
      <4>1. n(k) < Burst
        <5> HIDE DEF n
        <5> QED BY <1>00, <1>1, <3>2, Constants
      <4>2. Owes(k) /\ Unrefused(k)
        BY <1>0, <4>1
      <4>3. Period * (n(k) + 1) = Period * n(k) + Period
        BY <1>00, BurstArithmetic
      <4> QED BY <3>2, <4>2, <4>3
    <3> HIDE DEF n
    <3>4. tokens'[held[r]] = tokens[held[r]] - Period
      BY <2>0, <2>5 DEF Admit, TypeOK
    <3>5. \A e \in Entries : KeyOf[e[1]] = k => tokens'[e] >= tokens[e] - Period
      BY <2>0, <2>1, <3>4, Numbers, Constants
    <3>6. Owes(k)'
      <4> SUFFICES ASSUME NEW e \in Entries, KeyOf[e[1]] = k
                   PROVE  tokens'[e] >= Full - Period * n(k)'
        OBVIOUS
      <4>1. tokens'[e] \in Int /\ tokens[e] \in Int
        BY Numbers DEF TypeOK
      <4>2. tokens[e] >= Full - Period * n(k)
        BY <3>3
      <4>3. tokens'[e] >= tokens[e] - Period
        BY <3>5
      <4> QED BY <1>00, <3>3, <4>1, <4>2, <4>3, Constants
    <3>7. Unrefused(k)'
      BY <2>1, <2>5, <3>3 DEF Admit, GoTo, TypeOK
    <3> QED BY <3>6, <3>7
  <2> QED BY <1>6, <2>2, <2>3, <2>4, <2>5 DEF Take, Reserve, Cancel
<1>7. CASE UNCHANGED vars
  BY <1>5, <1>7 DEF vars, lims, request
<1> QED
  <2> HIDE DEF Owes, Unrefused
  <2> QED BY <1>3, <1>4, <1>5, <1>6, <1>7, Steps
----------------------------------------------------------------------------
(* The size of the map *)

Reinserted == {r \in Reqs : held[r] = <<r, "retry">>}

LEMMA BoundedStep == TypeOK /\ TypeOK' /\ Fresh /\ BucketsBounded /\ [Next]_vars => BucketsBounded'
<1> SUFFICES ASSUME TypeOK, TypeOK', Fresh, BucketsBounded, [Next]_vars PROVE BucketsBounded'
  OBVIOUS
<1>0. /\ IsFiniteSet(Live) /\ Cardinality(Live) \in Nat /\ Cardinality(Live)' \in Nat
      /\ IsFiniteSet(Reinserted) /\ Cardinality(Reinserted) \in Nat
      /\ IsFiniteSet(Reinserted') /\ Cardinality(Reinserted)' \in Nat
      /\ MaxBuckets \in Nat \ {0} /\ Batch \in 1 .. MaxBuckets
  BY SubsetsFinite, LimiterAssumption DEF Live, Reinserted
<1>1. Cardinality(Live) <= MaxBuckets + Cardinality(Reinserted)
  BY DEF BucketsBounded, Reinserted
<1>2. ASSUME Cardinality(Live)' <= MaxBuckets + Cardinality(Reinserted)'
      PROVE  BucketsBounded'
  BY <1>2 DEF BucketsBounded, Reinserted
<1>3. ASSUME Live' \subseteq Live, Reinserted \subseteq Reinserted'
      PROVE  BucketsBounded'
  <2>1. Cardinality(Live)' <= Cardinality(Live)
        /\ Cardinality(Reinserted) <= Cardinality(Reinserted)'
    BY <1>0, <1>3, FS_Subset
  <2> QED BY <1>0, <1>1, <1>2, <2>1
<1>4. ASSUME NEW r \in Reqs, pc[r] \in {"start", "refused"}, r \in Reinserted PROVE FALSE
  BY <1>4 DEF Fresh, Unmade, Reinserted
<1>5. ASSUME NEW r \in Reqs, pc[r] \in {"start", "refused"}, NEW e, held' = [held EXCEPT ![r] = e]
      PROVE  Reinserted \subseteq Reinserted'
  BY <1>4, <1>5 DEF Reinserted, TypeOK
<1>6. ASSUME NEW r \in Reqs, KeyOf[r] \notin Live, NEW kept, NEW e,
             \A k \in Keys : kept[k] \in {bucket[k], NoEntry},
             bucket' = [kept EXCEPT ![KeyOf[r]] = e]
      PROVE  Live' \subseteq {k \in Keys : kept[k] # NoEntry} \cup {KeyOf[r]}
  BY <1>6 DEF Live, TypeOK
<1>7. ASSUME NEW r \in Reqs, AllowLookup(r) PROVE BucketsBounded'
  <2>0. pc[r] = "start" /\ KeyOf[r] \in Keys
    BY <1>7, LimiterAssumption DEF AllowLookup
  <2>1. CASE Find(r)
    BY <1>3, <1>5, <2>0, <2>1 DEF Find, Live
  <2>2. ASSUME NEW kept, NEW M \in SUBSET Live, Insert(r, <<r, "allow">>, kept),
               kept = [k \in Keys |-> IF k \in M THEN bucket[k] ELSE NoEntry],
               Cardinality(M) < MaxBuckets + Cardinality(Reinserted)
        PROVE  BucketsBounded'
    <3>1. Live' \subseteq M \cup {KeyOf[r]}
      BY <2>0, <2>2 DEF Insert, Live
    <3>2. IsFiniteSet(M) /\ KeyOf[r] \notin M /\ Cardinality(M) \in Nat
      BY <1>0, <2>0, <2>2, FS_Subset, FS_CardinalityType DEF Insert, Live
    <3>3. IsFiniteSet(M \cup {KeyOf[r]}) /\ Cardinality(M \cup {KeyOf[r]}) = Cardinality(M) + 1
      BY <3>2, FS_AddElement
    <3>4. Cardinality(Live)' <= Cardinality(M) + 1
      BY <3>1, <3>3, FS_Subset
    <3>5. Cardinality(Reinserted) <= Cardinality(Reinserted)'
      BY <1>0, <1>5, <2>0, <2>2, FS_Subset DEF Insert
    <3> QED BY <1>0, <1>2, <2>2, <3>2, <3>4, <3>5
  <2>3. CASE ~(Cardinality(Live) >= MaxBuckets) /\ Insert(r, <<r, "allow">>, bucket)
    <3>1. bucket = [k \in Keys |-> IF k \in Live THEN bucket[k] ELSE NoEntry]
      BY DEF TypeOK, Live
    <3>2. Cardinality(Live) < MaxBuckets + Cardinality(Reinserted)
      BY <1>0, <2>3
    <3> QED BY <2>2, <2>3, <3>1, <3>2
  <2>4. ASSUME NEW S \in SUBSET Live, MakeRoom(r, S) PROVE BucketsBounded'
    <3> DEFINE rest == Live \ Expired(now)
               M == rest \ S
    <3>1. Without(S \cup Expired(now)) = [k \in Keys |-> IF k \in M THEN bucket[k] ELSE NoEntry]
      BY DEF Without, Live
    <3>2. Insert(r, <<r, "allow">>, Without(S \cup Expired(now))) /\ Evictable(S)
      BY <2>4 DEF MakeRoom
    <3>3. IsFiniteSet(rest) /\ Cardinality(rest) <= Cardinality(Live) /\ Cardinality(rest) \in Nat
      BY <1>0, FS_Subset, FS_CardinalityType
    <3>4. CASE S = {} /\ Cardinality(rest) < MaxBuckets
      <4>1. M = rest /\ M \in SUBSET Live
        BY <3>4
      <4> HIDE DEF rest, M
      <4> QED BY <1>0, <2>2, <3>1, <3>2, <3>3, <3>4, <4>1
    <3>5. CASE S \subseteq rest /\ Cardinality(S) = Batch
      <4>1. /\ Cardinality(M) = Cardinality(rest) - Cardinality(rest \cap S)
            /\ rest \cap S = S
        <5>1. rest \cap S = S
          BY <3>5
        <5>2. ASSUME NEW A, IsFiniteSet(A), NEW C PROVE Cardinality(A \ C) = Cardinality(A) - Cardinality(A \cap C)
          BY <5>2, FS_Difference
        <5>3. Cardinality(rest \ S) = Cardinality(rest) - Cardinality(rest \cap S)
          <6> HIDE DEF rest
          <6> QED BY <3>3, <5>2
        <5> QED BY <5>1, <5>3
      <4>2. IsFiniteSet(M) /\ Cardinality(M) \in Nat
        BY <3>3, FS_Subset, FS_CardinalityType
      <4> HIDE DEF M
      <4>3. Cardinality(M) < MaxBuckets + Cardinality(Reinserted)
        <5> HIDE DEF rest
        <5>1. Cardinality(M) = Cardinality(rest) - Batch
          BY <3>5, <4>1
        <5> QED BY <1>0, <1>1, <3>3, <4>2, <5>1
      <4>4. M \in SUBSET Live
        BY DEF M
      <4> HIDE DEF rest
      <4> QED BY <2>2, <3>1, <3>2, <4>3, <4>4
    <3> QED BY <3>2, <3>4, <3>5 DEF Evictable
  <2> QED BY <1>7, <2>1, <2>3, <2>4 DEF AllowLookup, InsertAllow
<1>8. ASSUME NEW r \in Reqs, RetryLookup(r) PROVE BucketsBounded'
  <2>0. pc[r] = "refused" /\ KeyOf[r] \in Keys
    BY <1>8, LimiterAssumption DEF RetryLookup
  <2>1. CASE Find(r)
    BY <1>3, <1>5, <2>0, <2>1 DEF Find, Live
  <2>2. CASE InsertRetry(r)
    <3>1. KeyOf[r] \notin Live /\ Live' \subseteq Live \cup {KeyOf[r]}
      BY <2>0, <2>2 DEF InsertRetry, Insert, Live, TypeOK
    <3>2. r \notin Reinserted /\ Reinserted \cup {r} \subseteq Reinserted'
      BY <1>4, <1>5, <2>0, <2>2 DEF InsertRetry, Insert, Reinserted, TypeOK
    <3>3. Cardinality(Live)' <= Cardinality(Live) + 1
      <4>1. KeyOf[r] \notin Live /\ IsFiniteSet(Live \cup {KeyOf[r]})
            /\ Cardinality(Live \cup {KeyOf[r]}) = Cardinality(Live) + 1
        BY <1>0, <3>1, FS_AddElement
      <4>2. Cardinality(Live') <= Cardinality(Live \cup {KeyOf[r]})
        BY <3>1, <4>1, FS_Subset
      <4> QED BY <4>1, <4>2
    <3>4. Cardinality(Reinserted) + 1 <= Cardinality(Reinserted)'
      <4>1. Cardinality(Reinserted \cup {r}) = Cardinality(Reinserted) + 1
        BY <1>0, <3>2, FS_AddElement
      <4>2. Cardinality(Reinserted \cup {r}) <= Cardinality(Reinserted')
        BY <1>0, <3>2, FS_Subset
      <4> QED BY <4>1, <4>2
    <3> QED BY <1>0, <1>1, <1>2, <3>3, <3>4
  <2> QED BY <1>8, <2>1, <2>2 DEF RetryLookup
<1>9. ASSUME NEW t \in 0 .. now, EvictIdle(t) PROVE BucketsBounded'
  BY <1>3, <1>9 DEF EvictIdle, Without, Live, Reinserted, request
<1>10. CASE Tick \/ UNCHANGED vars
  BY <1>3, <1>10 DEF Tick, limiter, request, vars, Live, Reinserted
<1>11. ASSUME NEW r \in Reqs, Take(r) \/ Reserve(r) \/ Cancel(r) PROVE BucketsBounded'
  BY <1>3, <1>11 DEF Take, Reserve, Cancel, limiter, Live, Reinserted
<1> QED BY <1>7, <1>8, <1>9, <1>10, <1>11 DEF Next, Sweep

----------------------------------------------------------------------------
(* The theorems *)

(* The inductive invariant holds in every reachable state.                  *)
THEOREM Invariant == Spec => []IInv
<1>1. IInv /\ [Next]_vars => IInv'
  BY TypeStep, FreshStep, PastStep, DebtsStep, RatesStep, BucketRatesStep, BurstsStep, BoundedStep DEF IInv
<1> QED BY InitInv, <1>1, PTL DEF Spec

(* Types: whatever the calls and the sweeper do, no bucket holds more than  *)
(* a burst and every request uses a bucket of its own key.                  *)
THEOREM TypeCorrect == Spec => []TypeOK
<1>1. IInv => TypeOK
  BY DEF IInv
<1> QED BY Invariant, <1>1, PTL

(* The limit, for every key, every stretch of time up to now and every      *)
(* request let in, across sweeps, evictions, late uses of a bucket and the  *)
(* reservations of RetryAfter.                                              *)
THEOREM WindowRateCorrect == Spec => []WindowRate
<1>1. IInv => WindowRate
  <2> SUFFICES ASSUME IInv, NEW k \in Keys, NEW a \in 0 .. now
               PROVE  Period * Cardinality(Admitted(k, a))
                        <= (Full + (now - a)) + Full * V(k, a)
                             + (Full + (now - a)) * Cardinality(Strays(k, a))
    BY DEF WindowRate, V
  <2> DEFINE c == Full + (now - a)
             m == c \div Period
             Q == Admitted(k, a) \cap late
             D == Strays(k, a)
  <2>0. /\ now \in Nat /\ a \in Nat /\ a <= now /\ Full \in Nat /\ Period \in Nat \ {0}
        /\ c \in Nat
    BY Constants DEF IInv, TypeOK, Times
  <2>1. Period * N(k, a) <= c + Full * V(k, a)
    <3>1. /\ Period * N(k, a) \in Nat /\ Full * V(k, a) \in Nat
          /\ Full * (1 + V(k, a)) = Full + Full * V(k, a)
      BY <2>0, CountTypes
    <3>2. Rate(k, a)
      BY DEF IInv, Rates
    <3> QED BY <2>0, <3>1, <3>2 DEF Rate, Allowance
  <2>2. Admitted(k, a) = OnTime(k, a) \cup Q /\ Q \in SUBSET Reqs /\ OnTime(k, a) \in SUBSET Reqs
    BY DEF Admitted, OnTime
  <2>3. /\ Cardinality(Admitted(k, a)) <= N(k, a) + Cardinality(Q)
        /\ Cardinality(Admitted(k, a)) \in Nat /\ N(k, a) \in Nat /\ Cardinality(Q) \in Nat
    <3>1. /\ IsFiniteSet(OnTime(k, a)) /\ IsFiniteSet(Q)
          /\ N(k, a) \in Nat /\ Cardinality(Q) \in Nat
      BY <2>2, SubsetsFinite DEF N
    <3>2. Cardinality(OnTime(k, a) \cup Q) = N(k, a) + Cardinality(Q) - Cardinality(OnTime(k, a) \cap Q)
      BY <3>1, FS_Union DEF N
    <3>3. Cardinality(OnTime(k, a) \cap Q) = 0
      <4>1. OnTime(k, a) \cap Q = {}
        BY DEF OnTime
      <4> HIDE DEF Q
      <4> QED BY <4>1, FS_EmptySet, Zenon
    <3>4. Cardinality(Admitted(k, a)) = Cardinality(OnTime(k, a) \cup Q)
      BY <2>2
    <3> HIDE DEF Q, N
    <3>5. Cardinality(Admitted(k, a)) = N(k, a) + Cardinality(Q)
      BY <3>1, <3>2, <3>3, <3>4
    <3> QED BY <3>1, <3>5
  <2>4. D \in SUBSET Entries /\ \A r \in Q : held[r] \in D /\ Since(at[r], a)
    <3>1. \A r \in Q : held[r] \in Entries
      BY <2>0, LimiterAssumption DEF IInv, TypeOK, Past, Admitted, Since
    <3> QED BY <3>1 DEF Strays, Admitted
  <2>5. m \in Nat /\ Period * m <= c /\ \A x \in Nat : Period * x <= c => x <= m
    <3>1. \A y \in Nat, p \in Nat \ {0} :
            /\ y \div p \in Nat /\ p * (y \div p) <= y
            /\ \A x \in Nat : p * x <= y => x <= y \div p
      BY Z3
    <3> HIDE DEF c
    <3> QED BY <2>0, <3>1
  <2>6. \A e \in D : B(e, a) <= m
    <3> SUFFICES ASSUME NEW e \in D PROVE B(e, a) <= m
      OBVIOUS
    <3>1. Period * B(e, a) <= c /\ B(e, a) \in Nat
      BY <2>0, <2>4, ByTypes DEF IInv, BucketRates, BucketRate
    <3> QED BY <2>5, <3>1
  <2> HIDE DEF Q, D, m
  <2>7. Cardinality(Q) <= Cardinality(D) * m
    BY <2>0, <2>2, <2>4, <2>5, <2>6, FewBuckets
  <2>8. Cardinality(D) \in Nat
    BY <2>4, SubsetsFinite
  <2>9. \A p, q, d, mm, cc, n, x, v \in Nat :
          q <= d * mm /\ p * mm <= cc /\ n <= x + q /\ p * x <= cc + v => p * n <= cc + v + cc * d
    <3> SUFFICES ASSUME NEW p \in Nat, NEW q \in Nat, NEW d \in Nat, NEW mm \in Nat, NEW cc \in Nat,
                        NEW n \in Nat, NEW x \in Nat, NEW v \in Nat,
                        q <= d * mm, p * mm <= cc, n <= x + q, p * x <= cc + v
                 PROVE  p * n <= cc + v + cc * d
      OBVIOUS
    <3>1. \A i, j, l \in Nat : i <= j => l * i <= l * j
      BY Z3
    <3>2. \A i, j, l \in Nat : /\ l * (i + j) = l * i + l * j
                              /\ l * (i * j) = i * (l * j)
                              /\ i * j = j * i /\ i * j \in Nat
      BY Z3
    <3>3. p * n <= p * x + p * q
      BY <3>1, <3>2
    <3>4. p * q <= d * (p * mm)
      BY <3>1, <3>2
    <3>5. d * (p * mm) <= cc * d
      BY <3>1, <3>2
    <3>6. /\ p * n \in Nat /\ p * x \in Nat /\ p * q \in Nat
          /\ d * (p * mm) \in Nat /\ cc * d \in Nat
      BY <3>2
    <3> QED BY <3>3, <3>4, <3>5, <3>6
  <2>10. Full * V(k, a) \in Nat
    BY <2>0, CountTypes
  <2> HIDE DEF c
  <2>11. Period * Cardinality(Admitted(k, a)) <= c + Full * V(k, a) + c * Cardinality(D)
    BY <2>0, <2>1, <2>3, <2>5, <2>7, <2>8, <2>9, <2>10
  <2> QED BY <2>11 DEF c, D
<1> QED BY Invariant, <1>1, PTL

(* A key is refused only after a whole burst of its own requests.           *)
THEOREM OwnBurstFirstCorrect == Spec => []OwnBurstFirst
<1>1. IInv => OwnBurstFirst
  <2> SUFFICES ASSUME IInv, NEW r \in Reqs,
                      pc[r] \in {"refused", "reserve", "cancel", "limited"}
               PROVE  Cardinality(Served(KeyOf[r])) >= Burst
    BY DEF OwnBurstFirst, Served
  <2>1. KeyOf[r] \in Keys
    BY LimiterAssumption
  <2>2. ~(Cardinality(Served(KeyOf[r])) < Burst)
    BY <2>1 DEF IInv, Bursts
  <2> QED BY <2>1, <2>2, ServedTypes, Constants
<1> QED BY Invariant, <1>1, PTL

(* The map is bounded but for what RetryAfter put back.                     *)
THEOREM BucketsBoundedCorrect == Spec => []BucketsBounded
<1>1. IInv => BucketsBounded
  BY DEF IInv
<1> QED BY Invariant, <1>1, PTL
=============================================================================
