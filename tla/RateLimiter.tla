---------------------------- MODULE RateLimiter ----------------------------
(* The token buckets of ratelimit/ratelimit.go and the requests that the    *)
(* middleware (httputil/ratelimit.go, maybeLimit) takes to them.            *)
(*                                                                          *)
(* Allow and RetryAfter look their bucket up under the limiter's mutex and  *)
(* use it after the unlock, when the bucket may have left the map: a step   *)
(* is one critical section, of the limiter or of a bucket.                  *)
(*                                                                          *)
(* Tokens are counted in clock ticks, Period of them to a token, so that a  *)
(* bucket gains one unit a tick.  Two readings of the clock within a tick   *)
(* are taken to differ: a reservation whose time is the present tick is in  *)
(* the past for its Cancel.                                                 *)
EXTENDS Integers, FiniteSets

CONSTANTS
    Keys,           \* client addresses or users
    Reqs, KeyOf,    \* requests, and whose bucket each is counted in
    MaxBuckets,     \* maxBuckets
    Batch,          \* maxBuckets / 10, at least 1
    Burst, Period,  \* tokens of a full bucket; ticks to regain one (1 / rps)
    TTL,            \* ttl
    MaxTime,        \* bound on the clock
    NoEntry, NoTime

Full    == Burst * Period
Entries == Reqs \X {"allow", "retry"}   \* the buckets each call may make
Times   == 0 .. MaxTime

\* config.go accepts positive rates and bursts only.  Nothing ties them to the
\* ttl, "several burst-refill windows" for its author (ratelimit.go:20).
ASSUME LimiterAssumption ==
    /\ IsFiniteSet(Keys) /\ IsFiniteSet(Reqs)
    /\ KeyOf \in [Reqs -> Keys]
    /\ MaxBuckets \in Nat \ {0} /\ Batch \in 1 .. MaxBuckets
    /\ Burst \in Nat \ {0} /\ Period \in Nat \ {0}
    /\ Full \in Nat
    /\ TTL \in Nat
    /\ MaxTime \in Nat
    /\ NoEntry \notin Entries
    /\ NoTime \notin Nat

VARIABLES
    now,
    bucket,     \* l.buckets: per key its entry
    last,       \* per entry: when a call last looked it up
    tokens,     \* per entry: its x/time/rate level as of now, below 0 if reserved ahead
    lastEvent,  \* per entry: the latest time anybody was let in or put off to
    pc, held,   \* per request: its place, and the entry it holds (e)
    timeToAct,  \* per request: when RetryAfter's reservation comes due
    at,         \* history: when it was admitted
    late,       \* history: requests admitted by a bucket they came to too late
    thrown      \* history: per entry, when it was evicted to make room

limiter == <<bucket, last, thrown>>
lims    == <<tokens, lastEvent>>
request == <<pc, held, timeToAct, at, late>>
vars    == <<now, bucket, last, tokens, lastEvent, pc, held, timeToAct, at,
             late, thrown>>

GoTo(r, p) == pc' = [pc EXCEPT ![r] = p]
Live       == {k \in Keys : bucket[k] # NoEntry}

\* An entry not made yet is as rate.NewLimiter makes it: full.
Init ==
    /\ now = 0
    /\ bucket = [k \in Keys |-> NoEntry]
    /\ last = [e \in Entries |-> 0]
    /\ tokens = [e \in Entries |-> Full]
    /\ lastEvent = [e \in Entries |-> 0]
    /\ pc = [r \in Reqs |-> "start"]
    /\ held = [r \in Reqs |-> NoEntry]
    /\ timeToAct = [r \in Reqs |-> 0]
    /\ at = [r \in Reqs |-> NoTime]
    /\ late = {}
    /\ thrown = [e \in Entries |-> NoTime]

----------------------------------------------------------------------------
(* x/time/rate *)

\* Mutant: tokens pile up past the burst.
CapForgotten(n) == n

Cap(n) == IF n > Full THEN Full ELSE n

(* The clock; Limiter.advance, in every bucket at once. *)
Tick ==
    /\ now < MaxTime
    /\ now' = now + 1
    /\ tokens' = [e \in Entries |-> Cap(tokens[e] + 1)]
    /\ UNCHANGED <<limiter, lastEvent, request>>

\* Mutant: the last token of a bucket is never given out.
HasTwoTokens(e) == tokens[e] > Period

HasToken(e) == tokens[e] >= Period

(* reserveN: when a request taken now may act, the tokens missing waited for. *)
Due(e) == IF HasToken(e) THEN now ELSE now + (Period - tokens[e])

(* Reservation.CancelAt gives back what later reservations do not stand on. *)
Refund(r) == Period - (lastEvent[held[r]] - timeToAct[r])
PrevEvent(r) == timeToAct[r] - Period

----------------------------------------------------------------------------
(* The map of buckets *)

Without(S) == [k \in Keys |-> IF k \in S THEN NoEntry ELSE bucket[k]]

\* Mutant: the comparison with the ttl is the wrong way round.
ExpiredInverted(t) == {k \in Live : t - last[bucket[k]] < TTL}

Expired(t) == {k \in Live : t - last[bucket[k]] > TTL}

(* evictOldestLocked: what has expired; if the map is still full, a batch   *)
(* of whatever the iteration meets, thrown away with its debts.             *)
Evictable(S) ==
    LET rest == Live \ Expired(now) IN
    IF Cardinality(rest) < MaxBuckets THEN S = {}
    ELSE S \subseteq rest /\ Cardinality(S) = Batch

Find(r) ==
    /\ bucket[KeyOf[r]] # NoEntry
    /\ held' = [held EXCEPT ![r] = bucket[KeyOf[r]]]
    /\ last' = [last EXCEPT ![bucket[KeyOf[r]]] = now]
    /\ UNCHANGED <<bucket, thrown>>

Insert(r, e, kept) ==
    /\ bucket[KeyOf[r]] = NoEntry
    /\ bucket' = [kept EXCEPT ![KeyOf[r]] = e]
    /\ held' = [held EXCEPT ![r] = e]
    /\ last' = [last EXCEPT ![e] = now]

MakeRoom(r, S) ==
    /\ Evictable(S)
    /\ Insert(r, <<r, "allow">>, Without(S \cup Expired(now)))
    /\ thrown' = [e \in Entries |->
                    IF \E k \in S : bucket[k] = e THEN now ELSE thrown[e]]

\* Mutant: the map is made room in only once it is over its size.
InsertAllowLate(r) ==
    IF Cardinality(Live) > MaxBuckets
    THEN \E S \in SUBSET Live : MakeRoom(r, S)
    ELSE Insert(r, <<r, "allow">>, bucket) /\ UNCHANGED thrown

InsertAllow(r) ==
    IF Cardinality(Live) >= MaxBuckets
    THEN \E S \in SUBSET Live : MakeRoom(r, S)
    ELSE Insert(r, <<r, "allow">>, bucket) /\ UNCHANGED thrown

(* Allow, under the mutex. *)
AllowLookup(r) ==
    /\ pc[r] = "start"
    /\ Find(r) \/ InsertAllow(r)
    /\ GoTo(r, "take")
    /\ UNCHANGED <<now, lims, timeToAct, at, late>>

\* Between the unlock and its use the bucket was swept or thrown out to make
\* room, or has idled for so long that it may be swept before it is full again.
TooLate(r) ==
    \/ bucket[KeyOf[r]] # held[r]
    \/ now - last[held[r]] > TTL - Full

(* Allow after the unlock: lim.Allow. *)
Admit(r) ==
    /\ HasToken(held[r])
    /\ tokens' = [tokens EXCEPT ![held[r]] = @ - Period]
    /\ lastEvent' = [lastEvent EXCEPT ![held[r]] = now]
    /\ at' = [at EXCEPT ![r] = now]
    /\ late' = IF TooLate(r) THEN late \cup {r} ELSE late
    /\ GoTo(r, "served")

Refuse(r) ==
    /\ ~HasToken(held[r])
    /\ GoTo(r, "refused")
    /\ UNCHANGED <<lims, at, late>>

Take(r) ==
    /\ pc[r] = "take"
    /\ Admit(r) \/ Refuse(r)
    /\ UNCHANGED <<now, limiter, held, timeToAct>>

(* RetryAfter, under the mutex: no size check here. *)
InsertRetry(r) == Insert(r, <<r, "retry">>, bucket) /\ UNCHANGED thrown

RetryLookup(r) ==
    /\ pc[r] = "refused"
    /\ Find(r) \/ InsertRetry(r)
    /\ GoTo(r, "reserve")
    /\ UNCHANGED <<now, lims, timeToAct, at, late>>

(* RetryAfter after the unlock: Reserve, ... *)
Reserve(r) ==
    /\ pc[r] = "reserve"
    /\ timeToAct' = [timeToAct EXCEPT ![r] = Due(held[r])]
    /\ tokens' = [tokens EXCEPT ![held[r]] = @ - Period]
    /\ lastEvent' = [lastEvent EXCEPT ![held[r]] = Due(held[r])]
    /\ GoTo(r, "cancel")
    /\ UNCHANGED <<now, limiter, held, at, late>>

(* ... then Cancel: nothing comes back once the time has passed, or when    *)
(* others have reserved behind it; and the 429 is written.                  *)
Cancel(r) ==
    /\ pc[r] = "cancel"
    /\ IF timeToAct[r] > now /\ Refund(r) > 0
       THEN /\ tokens' = [tokens EXCEPT ![held[r]] = Cap(@ + Refund(r))]
            /\ lastEvent' = [lastEvent EXCEPT ![held[r]] =
                 IF timeToAct[r] = @ /\ PrevEvent(r) > now THEN PrevEvent(r) ELSE @]
       ELSE UNCHANGED lims
    /\ GoTo(r, "limited")
    /\ UNCHANGED <<now, limiter, held, timeToAct, at, late>>

(* sweeper, evictIdle: t is the ticker's time, which may be older than the  *)
(* moment the mutex is got.                                                 *)
EvictIdle(t) ==
    /\ Expired(t) # {}
    /\ bucket' = Without(Expired(t))
    /\ UNCHANGED <<now, last, thrown, lims, request>>

Sweep == \E t \in 0 .. now : EvictIdle(t)

Next ==
    \/ Tick \/ Sweep
    \/ \E r \in Reqs :
         AllowLookup(r) \/ Take(r) \/ RetryLookup(r) \/ Reserve(r) \/ Cancel(r)

Spec == Init /\ [][Next]_vars

----------------------------------------------------------------------------
(* Every variable has its type; no bucket holds more than a burst, and a    *)
(* request holds a bucket of its own key.                                   *)
TypeOK ==
    /\ now \in Times
    /\ bucket \in [Keys -> Entries \cup {NoEntry}]
    /\ last \in [Entries -> Times]
    /\ tokens \in [Entries -> Int] /\ \A e \in Entries : tokens[e] <= Full
    /\ lastEvent \in [Entries -> Int]
    /\ pc \in [Reqs -> {"start", "take", "served", "refused", "reserve",
                        "cancel", "limited"}]
    /\ held \in [Reqs -> Entries \cup {NoEntry}]
    /\ timeToAct \in [Reqs -> Int]
    /\ at \in [Reqs -> Times \cup {NoTime}]
    /\ late \subseteq Reqs
    /\ thrown \in [Entries -> Times \cup {NoTime}]
    /\ \A r \in Reqs : pc[r] # "start" =>
         held[r] # NoEntry /\ KeyOf[held[r][1]] = KeyOf[r]
    /\ \A k \in Live : KeyOf[bucket[k][1]] = k

Since(t, a) == t # NoTime /\ t >= a

Admitted(k, a) == {r \in Reqs : KeyOf[r] = k /\ Since(at[r], a)}

\* Buckets of k thrown away since a, to make room, and not because they idled.
Thrown(k, a) == {e \in Entries : KeyOf[e[1]] = k /\ Since(thrown[e], a)}

\* Buckets of k that let somebody in since a who came to them too late.
Strays(k, a) == {held[r] : r \in Admitted(k, a) \cap late}

(* A limit is a limit: in any stretch of time up to now a key is let in for *)
(* a burst and what the rate gives, for one burst more each time its bucket *)
(* was thrown away in that stretch to make room, and for what one bucket    *)
(* gives, however many requests hold it, for each bucket used too late      *)
(* after the unlock (ratelimit.go:78): when it had left the map, or might   *)
(* be swept from it before it is full.  The sweep of idle buckets gives     *)
(* nobody anything else (ratelimit.go:19-22), and neither do the            *)
(* reservations that RetryAfter makes and cancels.                          *)
WindowRate ==
    \A k \in Keys : \A a \in 0 .. now :
        LET oneBucket == Full + (now - a) IN
        Period * Cardinality(Admitted(k, a))
            <= oneBucket + Full * Cardinality(Thrown(k, a))
                         + oneBucket * Cardinality(Strays(k, a))

(* Nobody pays for another, or for a RetryAfter, before having had a whole  *)
(* burst: a key one of whose requests is refused has had Burst admitted.    *)
OwnBurstFirst ==
    \A r \in Reqs : pc[r] \in {"refused", "reserve", "cancel", "limited"} =>
        Cardinality({s \in Reqs : KeyOf[s] = KeyOf[r] /\ pc[s] = "served"}) >= Burst

(* "maxBuckets bounds the total number of in-memory buckets"                *)
(* (ratelimit.go:61) but for those that RetryAfter put back after somebody  *)
(* else's Allow had evicted them: it inserts without the size check.        *)
BucketsBounded ==
    Cardinality(Live)
        <= MaxBuckets + Cardinality({r \in Reqs : held[r] = <<r, "retry">>})
=============================================================================
