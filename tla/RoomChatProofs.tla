--------------------------- MODULE RoomChatProofs ---------------------------
(* Proofs of the properties of RoomChat, for every number of users, posts   *)
(* and readers, every page size, and every length of the clock.             *)
EXTENDS RoomChat, FiniteSetTheorems, TLAPS

IInv == TypeOK /\ ChatInv

(* Cutting to a second is monotonic enough: whatever lies between the cut   *)
(* of a time and that time is cut to the same.                              *)
LEMMA Quotient ==
    ASSUME NEW s \in Nat \ {0}, NEW t \in Nat
    PROVE  /\ t % s \in 0 .. (s - 1)
           /\ t \div s \in Nat
           /\ t = (s * (t \div s)) + (t % s)
BY Z3

LEMMA NextMultiple ==
    ASSUME NEW s \in Nat \ {0}, NEW q \in Nat, NEW r \in Nat, q < r
    PROVE  s * q + s <= s * r
BY Z3

LEMMA CutType ==
    ASSUME NEW t \in Times
    PROVE  CutToSecond(t) \in Times /\ CutToSecond(t) <= t
<1>0. Second \in Nat \ {0} /\ MaxTime \in Nat /\ t \in Nat
  BY ChatAssumption DEF Times
<1>1. /\ t % Second \in 0 .. (Second - 1)
      /\ t \div Second \in Nat
      /\ t = (Second * (t \div Second)) + (t % Second)
  BY <1>0, Quotient
<1>2. Second * (t \div Second) \in Nat
  BY <1>0, <1>1, Z3
<1>3. CutToSecond(t) \in Nat /\ CutToSecond(t) <= t
  BY <1>0, <1>1, <1>2, Z3 DEF CutToSecond
<1> QED BY <1>0, <1>3 DEF Times

LEMMA CutSame ==
    ASSUME NEW t \in Nat, NEW x \in Nat, CutToSecond(t) <= x, x <= t
    PROVE  CutToSecond(x) = CutToSecond(t)
<1>0. Second \in Nat \ {0}
  BY ChatAssumption
<1>1. t \div Second \in Nat /\ x \div Second \in Nat
  BY <1>0, Quotient
<1>2. /\ CutToSecond(t) = Second * (t \div Second)
      /\ CutToSecond(x) = Second * (x \div Second)
  BY <1>0, Quotient, Z3 DEF CutToSecond
<1>3. /\ x < Second * (t \div Second) + Second
      /\ x < Second * (x \div Second) + Second
      /\ Second * (x \div Second) <= x
  BY <1>0, Quotient, Z3
<1>4. ~(t \div Second < x \div Second) /\ ~(x \div Second < t \div Second)
  BY <1>0, <1>1, <1>2, <1>3, NextMultiple, Z3
<1> QED BY <1>1, <1>2, <1>4, Z3

(* A page is empty only if there is nothing to list, and full if it leaves  *)
(* something out.                                                           *)
LEMMA PageOf ==
    ASSUME NEW S, NEW P \in Pages(S)
    PROVE  /\ P \subseteq S
           /\ P = {} => S = {}
           /\ \A m \in P, k \in S \ P : at[k] <= at[m]
           /\ P # S => Cardinality(P) = PageSize
<1>1. Cardinality({}) = 0
  BY FS_EmptySet
<1> QED BY <1>1, ChatAssumption DEF Pages, FullPage

----------------------------------------------------------------------------
(* Type correctness *)

LEMMA InitInv == Init => IInv
<1> SUFFICES ASSUME Init PROVE IInv
  OBVIOUS
<1>1. TypeOK
  <2>1. clock \in Times
    BY ChatAssumption DEF Init, Times
  <2> QED BY <2>1 DEF Init, TypeOK, Times0
<1>2. PostPlaces /\ ViewPlaces /\ CursorPrinted /\ Sent /\ WalkKnown
  BY DEF Init, PostPlaces, Begun, ViewPlaces, CursorPrinted, Sent, WalkKnown
<1>3. ShownIsStored /\ CreatorOwns /\ PollAccounts /\ Repeats
  BY DEF Init, ShownIsStored, CreatorOwns, PollAccounts, Repeats
<1>4. LiveComplete /\ WalkAccounts
  BY DEF Init, LiveComplete, Live, WalkAccounts
<1> QED BY <1>1, <1>2, <1>3, <1>4 DEF IInv, ChatInv

LEMMA CursorType ==
    ASSUME TypeOK, NEW v \in Views, NEW P \in SUBSET stored, CursorFrom(v, P)
    PROVE  cursor' \in [Views -> Times0]
BY DEF TypeOK, CursorFrom, Newest, Times0

LEMMA TypeStep == TypeOK /\ PostPlaces /\ [Next]_vars => TypeOK'
<1> SUFFICES ASSUME TypeOK, PostPlaces, [Next]_vars PROVE TypeOK'
  OBVIOUS
<1> USE DEF TypeOK
<1>1. CASE Tick
  BY <1>1, ChatAssumption DEF Tick, room, post, view, walk, Times
<1>2. CASE AddOwner
  BY <1>2 DEF AddOwner, post, view, walk
<1>3. ASSUME NEW u \in Users, Change(u) PROVE TypeOK'
  <2>1. CASE CreateRoom(u)
    BY <2>1, ChatAssumption DEF CreateRoom, post, view, walk
  <2>2. CASE JoinRoom(u)
    BY <2>2 DEF JoinRoom, post, view, walk
  <2>3. CASE LeaveRoom(u)
    BY <2>3 DEF LeaveRoom, post, view, walk
  <2> QED BY <1>3, <2>1, <2>2, <2>3 DEF Change
<1>4. ASSUME NEW p \in Posts, PostStep(p) PROVE TypeOK'
  <2>1. CASE CheckPost(p)
    BY <2>1 DEF CheckPost, room, view, walk
  <2>2. CASE Stamp(p)
    BY <2>2 DEF Stamp, room, view, walk, Times0
  <2>3. CASE Insert(p)
    BY <2>3 DEF Insert, room, walk, PostPlaces
  <2>4. CASE Broadcast(p)
    BY <2>4 DEF Broadcast, BroadcastFrom, Live, room, view, walk
  <2>5. CASE Answer(p)
    BY <2>5 DEF Answer, room, view, walk
  <2>6. ASSUME NEW v \in Views, Send(p, v) PROVE TypeOK'
    <3>1. CASE Enqueue(p, v)
      BY <2>6, <3>1 DEF Send, Enqueue, room, walk
    <3>2. CASE ~Enqueue(p, v)
      <4>1. /\ place' = [place EXCEPT ![v] = "cut"] /\ UNCHANGED queue
            /\ UNCHANGED pc \/ pc' = [pc EXCEPT ![p] = "panicked"]
            /\ \/ to' = [q \in Posts |-> to[q] \ {v}]
               \/ to' = [q \in Posts |-> IF q = p THEN {} ELSE to[q] \ {v}]
        BY <2>6, <3>2 DEF Send, GoTo
      <4>2. to' \in [Posts -> SUBSET Views]
        BY <4>1
      <4> QED BY <2>6, <4>1, <4>2 DEF Send, room, walk
    <3> QED BY <3>1, <3>2
  <2> QED BY <1>4, <2>1, <2>2, <2>3, <2>4, <2>5, <2>6 DEF PostStep
<1>5. ASSUME NEW v \in Views, ViewStep(v) PROVE TypeOK'
  <2>1. CASE Open(v) \/ Dial(v) \/ JoinHub(v) \/ FallBack(v) \/ Poll(v)
    BY <2>1 DEF Open, Dial, JoinHub, FallBack, Poll, GoTo, Begun, room, post, walk
  <2>2. CASE OpenPage(v)
    <3>1. PICK P \in Pages(stored) :
             /\ shown' = [shown EXCEPT ![v] = P]
             /\ opened' = [opened EXCEPT ![v] = P]
             /\ CursorFrom(v, P)
      BY <2>2 DEF OpenPage
    <3>2. P \subseteq stored
      BY DEF Pages
    <3>3. cursor' \in [Views -> Times0]
      BY <3>1, <3>2, CursorType
    <3> QED BY <2>2, <3>1, <3>2, <3>3 DEF OpenPage, GoTo, room, post, walk
  <2>3. CASE PollPage(v)
    <3>1. PICK P \in Pages(stored) : LET fresh == {m \in P : After(v, m)} IN
             /\ shown' = [shown EXCEPT ![v] = @ \cup fresh]
             /\ twice' = [twice EXCEPT ![v] = @ \cup (fresh \cap shown[v])]
             /\ CursorFrom(v, fresh)
      BY <2>3 DEF PollPage
    <3>2. P \subseteq stored
      BY DEF Pages
    <3>3. cursor' \in [Views -> Times0]
      BY <3>1, <3>2, CursorType
    <3> QED BY <2>3, <3>1, <3>2, <3>3 DEF PollPage, GoTo, room, post, walk
  <2>4. CASE Close(v)
    BY <2>4 DEF Close, GoTo, room, walk, Times0
  <2>5. CASE ShowLive(v)
    BY <2>5 DEF ShowLive, room, post, walk
  <2> QED BY <1>5, <2>1, <2>2, <2>3, <2>4, <2>5 DEF ViewStep
<1>6. ASSUME NEW w \in Walks, Ask(w) \/ PageBack(w) PROVE TypeOK'
  <2>1. CASE Ask(w)
    BY <2>1 DEF Ask, room, post, view
  <2>2. CASE PageBack(w)
    <3>1. PICK P \in Pages(Older(w)) :
             /\ seen' = [seen EXCEPT ![w] = @ \cup P]
             /\ begun' = [begun EXCEPT ![w] = IF before[w] = NoTime THEN stored ELSE @]
             /\ \/ P = {} /\ UNCHANGED <<before, edges>>
                \/ \E m \in P : LET t == CutToSecond(at[m]) IN
                      /\ Oldest(m, P)
                      /\ before' = [before EXCEPT ![w] = t]
                      /\ edges' = [edges EXCEPT ![w] = @ \cup {t}]
      BY <2>2 DEF PageBack
    <3>2. P \subseteq stored
      BY DEF Pages, Older
    <3>3. before' \in [Walks -> Times0] /\ edges' \in [Walks -> SUBSET Times]
      <4>1. CASE P = {} /\ UNCHANGED <<before, edges>>
        BY <4>1
      <4>2. ASSUME NEW m \in P, before' = [before EXCEPT ![w] = CutToSecond(at[m])],
                   edges' = [edges EXCEPT ![w] = @ \cup {CutToSecond(at[m])}]
            PROVE  before' \in [Walks -> Times0] /\ edges' \in [Walks -> SUBSET Times]
        <5>1. CutToSecond(at[m]) \in Times
          BY <3>2, CutType
        <5> QED BY <4>2, <5>1 DEF Times0
      <4> QED BY <3>1, <4>1, <4>2
    <3>4. seen' \in [Walks -> SUBSET Posts] /\ begun' \in [Walks -> SUBSET Posts]
      BY <3>1, <3>2
    <3> QED BY <2>2, <3>3, <3>4 DEF PageBack, room, post, view
  <2> QED BY <1>6, <2>1, <2>2
<1>7. CASE UNCHANGED vars
  BY <1>7 DEF vars
<1> QED BY <1>1, <1>2, <1>3, <1>4, <1>5, <1>6, <1>7 DEF Next

----------------------------------------------------------------------------
(* The owner *)

LEMMA OwnerStep == TypeOK /\ CreatorOwns /\ [Next]_vars => CreatorOwns'
<1> SUFFICES ASSUME TypeOK, CreatorOwns, [Next]_vars PROVE CreatorOwns'
  OBVIOUS
<1> USE DEF CreatorOwns
<1>1. CASE UNCHANGED room
  BY <1>1 DEF room
<1>2. CASE AddOwner
  <2>1. creator \in Users
    BY <1>2, ChatAssumption DEF AddOwner, TypeOK
  <2> QED BY <1>2, <2>1 DEF AddOwner, TypeOK
<1>3. ASSUME NEW u \in Users, Change(u) PROVE CreatorOwns'
  <2>1. CASE CreateRoom(u)
    BY <2>1, ChatAssumption DEF CreateRoom, TypeOK
  <2>2. CASE JoinRoom(u)
    BY <2>2 DEF JoinRoom, TypeOK
  <2>3. CASE LeaveRoom(u)
    BY <2>3 DEF LeaveRoom, TypeOK
  <2> QED BY <1>3, <2>1, <2>2, <2>3 DEF Change
<1>4. CASE Tick \/ UNCHANGED vars
  BY <1>1, <1>4 DEF Tick, vars, room
<1>5. ASSUME NEW p \in Posts, PostStep(p) PROVE UNCHANGED room
  BY <1>5 DEF PostStep, CheckPost, Stamp, Insert, Broadcast, BroadcastFrom, Send, Answer
<1>6. ASSUME NEW v \in Views, ViewStep(v) PROVE UNCHANGED room
  BY <1>6 DEF ViewStep, Open, OpenPage, Dial, JoinHub, ShowLive, FallBack, Poll, PollPage,
             Close
<1>7. ASSUME NEW w \in Walks, Ask(w) \/ PageBack(w) PROVE UNCHANGED room
  BY <1>7 DEF Ask, PageBack
<1> QED BY <1>1, <1>2, <1>3, <1>4, <1>5, <1>6, <1>7 DEF Next

----------------------------------------------------------------------------
(* The messages: the invariant once more, as what holds of each post, of    *)
(* the pages and of the connection of each view, and of each walk.          *)

Reading == {"dial", "joining", "poll", "polling"}

PageView(v) ==
    /\ shown[v] \subseteq stored
    /\ place[v] \in {"off", "opening"} => cursor[v] = NoTime /\ shown[v] = {} /\ late[v] = {}
    /\ place[v] \in {"dial", "joining"} => shown[v] = opened[v]
    /\ place[v] \in Reading =>
          /\ shown[v] \cap late[v] = {}
          /\ \A m \in shown[v] : Passed(v, m)
          /\ \A m \in stored \ shown[v] : Passed(v, m) =>
                m \in late[v] \/ Cardinality(NoOlder(v, m)) >= PageSize
          /\ cursor[v] # NoTime => \E k \in shown[v] : at[k] = cursor[v]
          /\ late[v] \subseteq stored /\ \A m \in late[v] : Passed(v, m)

SentTo(v, p) ==
    /\ v \in to[p] => place[v] = "live" /\ p \notin queue[v]
    /\ v \in to[p] \/ p \in queue[v] => p \notin shown[v] \ opened[v]
    /\ p \in queue[v] => p \in Begun
    /\ place[v] \in {"live", "cut"} /\ p \in shown[v] \ opened[v] => p \in Begun
    /\ place[v] = "live" /\ pc[p] \in {"sending", "answered"} =>
          v \in to[p] \/ p \in shown[v] \cup queue[v] \cup had[v]

LiveView(v) ==
    /\ place[v] \notin {"live", "cut"} => queue[v] = {}
    /\ twice[v] \subseteq opened[v]
    /\ place[v] \notin {"live", "cut"} => twice[v] = {}
    /\ \A p \in Posts : SentTo(v, p)

Posted == PostPlaces
Walked == WalkKnown /\ WalkAccounts
Viewed == \A v \in Views : PageView(v) /\ LiveView(v)

MessagesInv == Posted /\ Walked /\ Viewed

LEMMA AsChatInv == ChatInv <=> CreatorOwns /\ MessagesInv
<1>1. ASSUME MessagesInv PROVE LiveComplete
  <2> SUFFICES ASSUME NEW v \in Views, place[v] = "live", NEW p \in Posts, pc[p] = "answered"
               PROVE  p \in shown[v] \cup queue[v] \cup had[v]
    BY DEF LiveComplete, Live
  <2>1. SentTo(v, p)
    BY <1>1 DEF MessagesInv, Viewed, LiveView
  <2>2. to[p] = {}
    BY <1>1 DEF MessagesInv, Posted, PostPlaces
  <2> QED BY <2>1, <2>2 DEF SentTo
<1>2. ASSUME MessagesInv
      PROVE  /\ PostPlaces /\ ViewPlaces /\ CursorPrinted /\ Sent /\ WalkKnown
             /\ ShownIsStored /\ PollAccounts /\ Repeats /\ WalkAccounts
  <2> USE <1>2 DEF MessagesInv, Posted, Walked, Viewed, PageView, LiveView, Reading
  <2>1. ViewPlaces /\ CursorPrinted
    BY DEF ViewPlaces, CursorPrinted
  <2>2. Sent
    BY DEF Sent, SentTo
  <2>3. ShownIsStored /\ PollAccounts /\ Repeats
    BY DEF ShownIsStored, PollAccounts, Repeats
  <2> QED BY <2>1, <2>2, <2>3
<1>3. ASSUME ChatInv PROVE MessagesInv
  <2> USE <1>3 DEF ChatInv
  <2>1. ASSUME NEW v \in Views PROVE PageView(v)
    BY DEF PageView, Reading, ShownIsStored, ViewPlaces, PollAccounts, CursorPrinted
  <2>2. ASSUME NEW v \in Views PROVE LiveView(v)
    BY DEF LiveView, SentTo, Sent, ViewPlaces, Repeats
  <2> QED BY <2>1, <2>2 DEF MessagesInv, Posted, Walked, Viewed
<1> QED BY <1>1, <1>2, <1>3 DEF ChatInv

(* A step that leaves a view and the messages alone leaves it as it is.     *)
SameView(x) ==
    /\ place'[x] = place[x] /\ cursor'[x] = cursor[x] /\ shown'[x] = shown[x]
    /\ queue'[x] = queue[x] /\ opened'[x] = opened[x] /\ twice'[x] = twice[x]
    /\ late'[x] = late[x] /\ had'[x] = had[x]

LEMMA PageStays ==
    ASSUME NEW x \in Views, PageView(x), UNCHANGED <<at, stored>>,
           place'[x] = place[x] \/ (place'[x] = "cut" /\ place[x] = "live"),
           cursor'[x] = cursor[x], shown'[x] = shown[x],
           opened'[x] = opened[x], late'[x] = late[x]
    PROVE  PageView(x)'
BY DEF PageView, Reading, Passed, NoOlder

LEMMA LiveStays ==
    ASSUME NEW x \in Views, LiveView(x), SameView(x), UNCHANGED pc,
           \A p \in Posts : x \in to'[p] <=> x \in to[p]
    PROVE  LiveView(x)'
BY DEF LiveView, SentTo, SameView, Begun

LEMMA WalksStay ==
    ASSUME TypeOK, Walked, UNCHANGED <<stored, before, seen, begun, edges>>,
           \A m \in stored : at'[m] = at[m]
    PROVE  Walked'
<1> USE DEF Walked
<1>1. WalkKnown'
  BY DEF WalkKnown
<1>2. \A w \in Walks : Older(w)' = Older(w)
  BY DEF Older
<1>3. \A m \in stored : CutToSecond(at'[m]) = CutToSecond(at[m])
  OBVIOUS
<1> QED BY <1>1, <1>2, <1>3 DEF WalkAccounts, WalkKnown

LEMMA MembersKeep == TypeOK /\ MessagesInv /\ UNCHANGED <<post, view, walk>> => MessagesInv'
<1> SUFFICES ASSUME TypeOK, MessagesInv, UNCHANGED <<post, view, walk>> PROVE MessagesInv'
  OBVIOUS
<1> USE DEF MessagesInv, post, view, walk
<1>1. Posted' /\ Walked'
  BY WalksStay DEF Posted, PostPlaces, Begun
<1>2. ASSUME NEW x \in Views PROVE PageView(x)' /\ LiveView(x)'
  BY PageStays, LiveStays DEF Viewed, SameView
<1> QED BY <1>1, <1>2 DEF Viewed

----------------------------------------------------------------------------
(* The steps of a post *)

(* A post that is checked or stamped is not stored, so its created_at is    *)
(* nobody's business yet.                                                   *)
LEMMA AcceptKeeps ==
    ASSUME TypeOK, MessagesInv, NEW p \in Posts, CheckPost(p) \/ Stamp(p)
    PROVE  MessagesInv'
<1> USE DEF MessagesInv
<1>1. /\ p \notin stored /\ to[p] = {}
      /\ UNCHANGED <<to, stored, view, walk>>
      /\ \A q \in Posts : q # p => pc'[q] = pc[q] /\ at'[q] = at[q]
      /\ pc'[p] \in {"checked", "stamped"} /\ pc[p] \in {"idle", "checked"}
      /\ pc'[p] = "stamped" => at'[p] \in Times
  BY DEF CheckPost, Stamp, Posted, PostPlaces, TypeOK
<1>2. /\ UNCHANGED <<place, cursor, shown, queue, opened, twice, late, had>>
      /\ UNCHANGED <<before, seen, begun, edges>>
  BY <1>1 DEF view, walk
<1>3. \A m \in stored : m \in Posts /\ m # p /\ at'[m] = at[m]
  BY <1>1 DEF TypeOK
<1>4. Begun' = Begun /\ p \notin Begun
  BY <1>1 DEF Begun
<1>5. Posted'
  BY <1>1, <1>4 DEF Posted, PostPlaces, TypeOK
<1>6. Walked'
  BY <1>1, <1>2, <1>3, WalksStay
<1>7. ASSUME NEW x \in Views PROVE PageView(x)'
  <2>1. PageView(x)
    BY DEF Viewed
  <2>2. \A m \in stored : Passed(x, m)' <=> Passed(x, m)
    BY <1>2, <1>3 DEF Passed
  <2>3. \A m \in stored : NoOlder(x, m)' = NoOlder(x, m)
    BY <1>2, <1>3, <2>1 DEF NoOlder, PageView
  <2> QED BY <1>1, <1>2, <1>3, <2>1, <2>2, <2>3 DEF PageView
<1>8. ASSUME NEW x \in Views PROVE LiveView(x)'
  <2>1. LiveView(x)
    BY DEF Viewed
  <2> QED BY <1>1, <1>2, <1>4, <2>1 DEF LiveView, SentTo
<1> QED BY <1>5, <1>6, <1>7, <1>8 DEF Viewed

LEMMA InsertKeeps ==
    ASSUME TypeOK, MessagesInv, NEW p \in Posts, Insert(p)
    PROVE  MessagesInv'
<1> USE DEF MessagesInv
<1>1. /\ p \notin stored /\ to[p] = {} /\ at[p] \in Times
      /\ UNCHANGED <<at, to, place, cursor, shown, queue, opened, twice, had>>
      /\ UNCHANGED <<before, seen, begun, edges>>
      /\ \A q \in Posts : q # p => pc'[q] = pc[q]
      /\ pc[p] = "stamped"
  BY DEF Insert, Posted, PostPlaces, TypeOK, walk
<1>2. \/ stored' = stored /\ late' = late /\ pc'[p] = "failed"
      \/ /\ stored' = stored \cup {p}
         /\ pc'[p] \in {"stored", "failed"}
         /\ late' = [v \in Views |-> IF Behind(v, p) THEN late[v] \cup {p} ELSE late[v]]
  BY DEF Insert, TypeOK
<1>3. Begun' = Begun /\ p \notin Begun
  BY <1>1, <1>2 DEF Begun
<1>4. Posted'
  BY <1>1, <1>2, <1>3 DEF Posted, PostPlaces
<1>5. Walked'
  <2>1. \A w \in Walks : Older(w) \subseteq Older(w)' /\ Older(w)' \subseteq Older(w) \cup {p}
    BY <1>1, <1>2 DEF Older
  <2>2. \A w \in Walks : p \notin seen[w]
    BY <1>1 DEF Walked, WalkKnown
  <2>3. WalkKnown'
    BY <1>1, <1>2 DEF Walked, WalkKnown
  <2> QED BY <1>1, <2>1, <2>2, <2>3 DEF Walked, WalkAccounts
<1>6. ASSUME NEW x \in Views PROVE PageView(x)'
  <2>1. PageView(x)
    BY DEF Viewed
  <2>2. /\ \A m \in Posts : Passed(x, m)' <=> Passed(x, m)
        /\ \A m \in Posts : NoOlder(x, m)' = NoOlder(x, m)
    BY <1>1 DEF Passed, NoOlder
  <2>3. CASE stored' = stored /\ late'[x] = late[x]
    BY <1>1, <2>1, <2>2, <2>3 DEF PageView, TypeOK
  <2>4. CASE stored' = stored \cup {p} /\ late'[x] = late[x] \cup {p} /\ Behind(x, p)
    <3>1. /\ shown[x] # {} /\ p \notin shown[x]
          /\ place[x] \in Reading => Passed(x, p)
      <4>1. PICK k \in shown[x] : at[p] <= at[k]
        BY <2>4 DEF Behind
      <4>2. p \notin shown[x] /\ k \in stored /\ (place[x] \in Reading => Passed(x, k))
        BY <1>1, <2>1 DEF PageView
      <4>3. at[p] \in Nat /\ at[k] \in Nat /\ (cursor[x] = NoTime \/ cursor[x] \in Nat)
        BY <1>1, <4>2 DEF TypeOK, Times0, Times
      <4> QED BY <4>1, <4>2, <4>3 DEF Passed
    <3> QED BY <1>1, <2>1, <2>2, <2>4, <3>1 DEF PageView, TypeOK
  <2>5. CASE stored' = stored \cup {p} /\ late'[x] = late[x] /\ ~Behind(x, p)
    <3>1. place[x] \in Reading => ~Passed(x, p)
      BY <2>1, <2>5 DEF PageView, Passed, Behind
    <3> QED BY <1>1, <2>1, <2>2, <2>5, <3>1 DEF PageView, TypeOK
  <2> QED BY <1>2, <2>3, <2>4, <2>5
<1>7. ASSUME NEW x \in Views PROVE LiveView(x)'
  <2>1. LiveView(x)
    BY DEF Viewed
  <2> QED BY <1>1, <1>2, <1>3, <2>1 DEF LiveView, SentTo
<1> QED BY <1>4, <1>5, <1>6, <1>7 DEF Viewed

(* A broadcast lists the connections that are live when it begins; one that *)
(* joins later counts the message among those it did not wait for.          *)
LEMMA BroadcastKeeps ==
    ASSUME TypeOK, MessagesInv, NEW p \in Posts, Broadcast(p)
    PROVE  MessagesInv'
<1> USE DEF MessagesInv
<1>1. /\ p \in stored /\ pc[p] = "stored" /\ p \notin Begun
      /\ UNCHANGED <<at, stored, place, cursor, shown, queue, opened, twice, late, had>>
      /\ UNCHANGED <<before, seen, begun, edges>>
      /\ pc' = [pc EXCEPT ![p] = "sending"]
      /\ to' = [to EXCEPT ![p] = Live]
  BY DEF Broadcast, BroadcastFrom, Posted, PostPlaces, Begun, view, walk
<1>2. /\ \A q \in Posts : q # p => pc'[q] = pc[q] /\ to'[q] = to[q]
      /\ pc'[p] = "sending" /\ to'[p] = Live
  BY <1>1 DEF TypeOK
<1>3. Begun' = Begun \cup {p}
  BY <1>2 DEF Begun
<1>4. Posted'
  BY <1>1, <1>2, <1>3 DEF Posted, PostPlaces
<1>5. Walked'
  BY <1>1, WalksStay
<1>6. ASSUME NEW x \in Views PROVE PageView(x)' /\ LiveView(x)'
  <2>1. PageView(x) /\ LiveView(x)
    BY DEF Viewed
  <2>2. PageView(x)'
    BY <1>1, <2>1, PageStays
  <2>3. ASSUME NEW q \in Posts PROVE SentTo(x, q)'
    <3>1. SentTo(x, q) /\ SentTo(x, p)
      BY <2>1 DEF LiveView
    <3>2. CASE q # p
      BY <1>1, <1>2, <1>3, <3>1, <3>2 DEF SentTo
    <3>3. CASE q = p
      BY <1>1, <1>2, <1>3, <3>1, <3>3 DEF SentTo, Live
    <3> QED BY <3>2, <3>3
  <2> QED BY <1>1, <2>1, <2>2, <2>3 DEF LiveView
<1> QED BY <1>4, <1>5, <1>6 DEF Viewed

(* A connection that is sent the message has it queued, one that is dropped *)
(* is on no list any more.                                                  *)
LEMMA SendKeeps ==
    ASSUME TypeOK, MessagesInv, NEW p \in Posts, NEW v \in Views, Send(p, v)
    PROVE  MessagesInv'
<1> USE DEF MessagesInv
<1>1. /\ pc[p] = "sending" /\ v \in to[p] /\ p \in stored
      /\ UNCHANGED <<at, stored, cursor, shown, opened, twice, late, had>>
      /\ UNCHANGED <<before, seen, begun, edges>>
  BY DEF Send, Posted, PostPlaces, Begun, walk
<1>2. Walked'
  BY <1>1, WalksStay
<1>3. PageView(v) /\ LiveView(v) /\ place[v] = "live"
  BY <1>1 DEF Viewed, LiveView, SentTo
<1>4. CASE Enqueue(p, v)
  <2>1. /\ \A q \in Posts : q # p => to'[q] = to[q]
        /\ to'[p] = to[p] \ {v}
        /\ \A x \in Views : x # v => queue'[x] = queue[x]
        /\ queue'[v] = queue[v] \cup {p}
        /\ UNCHANGED <<pc, place>>
    BY <1>4 DEF Enqueue, TypeOK
  <2>2. Begun' = Begun /\ p \in Begun
    BY <1>1, <2>1 DEF Begun
  <2>3. Posted'
    BY <1>1, <2>1, <2>2 DEF Posted, PostPlaces
  <2>4. ASSUME NEW x \in Views PROVE PageView(x)'
    BY <1>1, <2>1, PageStays DEF Viewed
  <2>5. ASSUME NEW x \in Views, x # v PROVE LiveView(x)'
    BY <1>1, <2>1, <2>5, LiveStays DEF Viewed, SameView
  <2>6. LiveView(v)'
    <3>1. ASSUME NEW q \in Posts PROVE SentTo(v, q)'
      <4>1. SentTo(v, q) /\ SentTo(v, p)
        BY <1>3 DEF LiveView
      <4>2. CASE q # p
        BY <1>1, <2>1, <2>2, <4>1, <4>2 DEF SentTo
      <4>3. CASE q = p
        BY <1>1, <1>3, <2>1, <2>2, <4>1, <4>3 DEF SentTo
      <4> QED BY <4>2, <4>3
    <3> QED BY <1>1, <1>3, <2>1, <3>1 DEF LiveView
  <2> QED BY <1>2, <2>3, <2>4, <2>5, <2>6 DEF Viewed
<1>5. CASE ~Enqueue(p, v)
  <2>1. /\ \A q \in Posts : to'[q] \subseteq to[q] \ {v} /\ (q # p => to'[q] = to[q] \ {v})
        /\ UNCHANGED queue
        /\ \A x \in Views : x # v => place'[x] = place[x]
        /\ place'[v] = "cut"
        /\ \/ UNCHANGED pc /\ to'[p] = to[p] \ {v}
           \/ pc' = [pc EXCEPT ![p] = "panicked"] /\ to'[p] = {}
    BY <1>5 DEF Send, GoTo, TypeOK
  <2>2. /\ Begun' = Begun
        /\ \A q \in Posts : q # p => pc'[q] = pc[q]
        /\ pc'[p] # "panicked" => pc'[p] = pc[p] /\ to'[p] = to[p] \ {v}
        /\ pc'[p] = "panicked" => to'[p] = {}
    BY <1>1, <2>1 DEF Begun, TypeOK
  <2>3. Posted'
    <3> SUFFICES ASSUME NEW q \in Posts
                 PROVE  /\ pc'[q] \in {"idle", "checked", "stamped"} => q \notin stored
                        /\ pc'[q] = "stamped" => at[q] \in Times
                        /\ pc'[q] = "stored" \/ q \in Begun => q \in stored
                        /\ pc'[q] # "sending" => to'[q] = {}
      BY <1>1, <2>2 DEF Posted, PostPlaces
    <3>1. /\ pc[q] \in {"idle", "checked", "stamped"} => q \notin stored
          /\ pc[q] = "stamped" => at[q] \in Times
          /\ pc[q] = "stored" \/ q \in Begun => q \in stored
          /\ pc[q] # "sending" => to[q] = {}
      BY DEF Posted, PostPlaces
    <3> QED BY <1>1, <2>1, <2>2, <3>1
  <2>4. ASSUME NEW x \in Views PROVE PageView(x)'
    BY <1>1, <1>3, <2>1, PageStays DEF Viewed
  <2>5. ASSUME NEW x \in Views PROVE LiveView(x)'
    <3>1. LiveView(x)
      BY DEF Viewed
    <3>2. ASSUME NEW q \in Posts PROVE SentTo(x, q)'
      <4>1. SentTo(x, q)
        BY <3>1 DEF LiveView
      <4>2. CASE x # v
        BY <1>1, <2>1, <2>2, <4>1, <4>2 DEF SentTo
      <4>3. CASE x = v
        BY <1>1, <1>3, <2>1, <2>2, <4>1, <4>3 DEF SentTo
      <4> QED BY <4>2, <4>3
    <3> QED BY <1>1, <1>3, <2>1, <3>1, <3>2 DEF LiveView
  <2> QED BY <1>2, <2>3, <2>4, <2>5 DEF Viewed
<1> QED BY <1>4, <1>5

LEMMA AnswerKeeps ==
    ASSUME TypeOK, MessagesInv, NEW p \in Posts, Answer(p)
    PROVE  MessagesInv'
<1> USE DEF MessagesInv
<1>1. /\ UNCHANGED <<at, to, stored, place, cursor, shown, queue, opened, twice, late, had>>
      /\ UNCHANGED <<before, seen, begun, edges>>
      /\ \A q \in Posts : q # p => pc'[q] = pc[q]
      /\ pc[p] = "sending" /\ to[p] = {} /\ pc'[p] = "answered"
  BY DEF Answer, view, walk, TypeOK
<1>2. Begun' = Begun
  BY <1>1 DEF Begun
<1>3. Posted' /\ Walked'
  BY <1>1, <1>2, WalksStay DEF Posted, PostPlaces
<1>4. ASSUME NEW x \in Views PROVE PageView(x)' /\ LiveView(x)'
  <2>1. PageView(x)'
    BY <1>1, PageStays DEF Viewed
  <2>2. LiveView(x)'
    BY <1>1, <1>2 DEF Viewed, LiveView, SentTo
  <2> QED BY <2>1, <2>2
<1> QED BY <1>3, <1>4 DEF Viewed

----------------------------------------------------------------------------
(* The steps of a view *)

(* What is left to show of a step of view v.                                *)
LEMMA OthersKeep ==
    ASSUME TypeOK, MessagesInv, NEW v \in Views, UNCHANGED <<pc, at, stored, walk>>,
           \A q \in Posts : to'[q] \ {v} = to[q] \ {v} /\ to'[q] \subseteq to[q],
           \A x \in Views : x # v => SameView(x),
           PageView(v)', LiveView(v)'
    PROVE  MessagesInv'
<1> USE DEF MessagesInv
<1>1. Posted'
  BY DEF Posted, PostPlaces, Begun
<1>2. Walked'
  BY WalksStay DEF walk
<1>3. ASSUME NEW x \in Views, x # v PROVE PageView(x)' /\ LiveView(x)'
  <2>1. PageView(x)'
    BY <1>3, PageStays DEF Viewed, SameView
  <2>2. \A q \in Posts : x \in to'[q] <=> x \in to[q]
    BY <1>3
  <2>3. LiveView(x)'
    BY <1>3, <2>2, LiveStays DEF Viewed
  <2> QED BY <2>1, <2>3
<1> QED BY <1>1, <1>2, <1>3 DEF Viewed

(* Steps that move a view and leave what it knows.                          *)
LEMMA MoveKeeps ==
    ASSUME TypeOK, MessagesInv, NEW v \in Views,
           Open(v) \/ Dial(v) \/ JoinHub(v) \/ FallBack(v) \/ Poll(v)
    PROVE  MessagesInv'
<1> USE DEF MessagesInv
<1>1. /\ UNCHANGED <<post, walk, cursor, shown, queue, opened, twice, late>>
      /\ \A x \in Views : x # v => place'[x] = place[x] /\ had'[x] = had[x]
  BY DEF Open, Dial, JoinHub, FallBack, Poll, GoTo, TypeOK
<1>2. \/ place[v] = "off" /\ place'[v] = "opening"
      \/ place[v] = "dial" /\ place'[v] = "joining"
      \/ place[v] = "joining" /\ place'[v] = "live" /\ had'[v] = Begun
      \/ place[v] \in {"dial", "joining"} /\ place'[v] = "poll"
      \/ place[v] = "poll" /\ place'[v] = "polling"
  BY DEF Open, Dial, JoinHub, FallBack, Poll, GoTo, TypeOK
<1>3. PageView(v) /\ LiveView(v)
  BY DEF Viewed
<1>4. UNCHANGED <<pc, at, to, stored>>
  BY <1>1 DEF post
<1>5. PageView(v)'
  <2>1. \A m : (Passed(v, m)' <=> Passed(v, m)) /\ NoOlder(v, m)' = NoOlder(v, m)
    BY <1>1, <1>4 DEF Passed, NoOlder
  <2> QED BY <1>1, <1>2, <1>3, <1>4, <2>1 DEF PageView, Reading
<1>6. LiveView(v)'
  <2>1. ASSUME NEW p \in Posts PROVE SentTo(v, p)'
    <3>1. SentTo(v, p) /\ v \notin to[p] /\ queue[v] = {}
      BY <1>2, <1>3 DEF LiveView, SentTo
    <3>2. Begun' = Begun /\ (pc[p] \in {"sending", "answered"} => p \in Begun)
      BY <1>4 DEF Begun
    <3>3. CASE place'[v] = "live"
      <4>1. shown[v] = opened[v] /\ had'[v] = Begun
        BY <1>2, <1>3, <3>3 DEF PageView
      <4> QED BY <1>1, <1>4, <3>1, <3>2, <4>1 DEF SentTo
    <3>4. CASE place'[v] # "live"
      BY <1>1, <1>2, <1>4, <3>1, <3>2, <3>4 DEF SentTo
    <3> QED BY <3>3, <3>4
  <2> QED BY <1>1, <1>2, <1>3, <2>1 DEF LiveView
<1> QED BY <1>1, <1>4, <1>5, <1>6, OthersKeep DEF SameView

(* A message that was queued is printed; it can only have been on the page  *)
(* that the view opened with.                                               *)
LEMMA ShowKeeps ==
    ASSUME TypeOK, MessagesInv, NEW v \in Views, ShowLive(v)
    PROVE  MessagesInv'
<1> USE DEF MessagesInv
<1>1. /\ place[v] \in {"live", "cut"}
      /\ UNCHANGED <<post, place, cursor, opened, late, had, walk>>
  BY DEF ShowLive
<1>2. PICK m \in queue[v] :
         /\ queue' = [queue EXCEPT ![v] = @ \ {m}]
         /\ shown' = [shown EXCEPT ![v] = @ \cup {m}]
         /\ twice' = [twice EXCEPT ![v] = @ \cup ({m} \cap shown[v])]
  BY DEF ShowLive
<1>3. /\ queue'[v] = queue[v] \ {m} /\ shown'[v] = shown[v] \cup {m}
      /\ twice'[v] = twice[v] \cup ({m} \cap shown[v])
      /\ \A x \in Views : x # v => SameView(x)
  BY <1>1, <1>2 DEF SameView, TypeOK
<1>4. PageView(v) /\ LiveView(v)
  BY DEF Viewed
<1>5. m \in Posts
  BY DEF TypeOK
<1>6. m \in Begun /\ m \notin shown[v] \ opened[v] /\ m \in stored /\ v \notin to[m]
  BY <1>4, <1>5 DEF LiveView, SentTo, Posted, PostPlaces
<1>7. UNCHANGED <<pc, at, to, stored>>
  BY <1>1 DEF post
<1>8. PageView(v)'
  BY <1>1, <1>3, <1>4, <1>6, <1>7 DEF PageView, Reading
<1>9. LiveView(v)'
  <2>1. ASSUME NEW p \in Posts PROVE SentTo(v, p)'
    <3>1. SentTo(v, p) /\ SentTo(v, m)
      BY <1>4, <1>5 DEF LiveView
    <3>2. Begun' = Begun
      BY <1>7 DEF Begun
    <3>3. CASE p # m
      BY <1>1, <1>3, <1>7, <3>1, <3>2, <3>3 DEF SentTo
    <3>4. CASE p = m
      BY <1>1, <1>3, <1>6, <1>7, <3>2, <3>4 DEF SentTo
    <3> QED BY <3>3, <3>4
  <2>2. twice'[v] \subseteq opened[v]
    BY <1>3, <1>4, <1>6 DEF LiveView
  <2> QED BY <1>1, <2>1, <2>2 DEF LiveView
<1> QED BY <1>1, <1>3, <1>7, <1>8, <1>9, OthersKeep

(* What the cursor has passed once it stands on the newest of a page.       *)
LEMMA CursorMoves ==
    ASSUME TypeOK, NEW v \in Views, NEW P \in SUBSET stored, CursorFrom(v, P), UNCHANGED at
    PROVE  /\ \A x \in Views : x # v => cursor'[x] = cursor[x]
           /\ P = {} => cursor'[v] = cursor[v]
           /\ P # {} => \E m \in P : /\ cursor'[v] = at[m] /\ cursor'[v] # NoTime
                                    /\ \A k \in P : at[k] <= at[m]
<1>1. \A m \in stored : at[m] \in Nat /\ at[m] # NoTime
  BY ChatAssumption DEF TypeOK, Times
<1> QED BY <1>1 DEF CursorFrom, Newest, TypeOK

(* What a page leaves out is no newer than anything on it.                  *)
LEMMA PushedOut ==
    ASSUME TypeOK, NEW v \in Views, NEW P \in Pages(stored), NEW m \in stored \ P,
           P \subseteq shown'[v], shown'[v] \subseteq stored, UNCHANGED at
    PROVE  Cardinality(NoOlder(v, m)') >= PageSize
<1>1. /\ P \subseteq stored /\ \A k \in P : at[m] <= at[k]
      /\ Cardinality(P) = PageSize
  BY PageOf
<1>2. P \subseteq NoOlder(v, m)' /\ NoOlder(v, m)' \subseteq Posts
  BY <1>1 DEF NoOlder, TypeOK
<1>3. IsFiniteSet(NoOlder(v, m)')
  BY <1>2, ChatAssumption, FS_Subset
<1>4. Cardinality(P) <= Cardinality(NoOlder(v, m)')
  BY <1>2, <1>3, FS_Subset
<1>5. Cardinality(NoOlder(v, m)') \in Nat
  BY <1>3, FS_CardinalityType
<1> QED BY <1>1, <1>4, <1>5, ChatAssumption

LEMMA OpenPageKeeps ==
    ASSUME TypeOK, MessagesInv, NEW v \in Views, OpenPage(v)
    PROVE  MessagesInv'
<1> USE DEF MessagesInv
<1>1. PICK P \in Pages(stored) :
         /\ shown' = [shown EXCEPT ![v] = P]
         /\ opened' = [opened EXCEPT ![v] = P]
         /\ CursorFrom(v, P)
  BY DEF OpenPage
<1>2. P \subseteq stored /\ (P = {} => stored = {})
  BY PageOf
<1>3. UNCHANGED <<post, walk>> /\ UNCHANGED <<pc, at, to, stored, queue, twice, late, had>>
      /\ place' = [place EXCEPT ![v] = "dial"] /\ place[v] = "opening"
  BY DEF OpenPage, GoTo, post
<1>4. /\ \A x \in Views : x # v => cursor'[x] = cursor[x]
      /\ P = {} => cursor'[v] = cursor[v]
      /\ P # {} => \E m \in P : /\ cursor'[v] = at[m] /\ cursor'[v] # NoTime
                               /\ \A k \in P : at[k] <= at[m]
  BY <1>1, <1>2, <1>3, CursorMoves
<1>5. /\ shown'[v] = P /\ opened'[v] = P /\ place'[v] = "dial"
      /\ \A x \in Views : x # v => SameView(x)
  BY <1>1, <1>3, <1>4 DEF SameView, TypeOK
<1>6. PageView(v) /\ LiveView(v)
  BY DEF Viewed
<1>7. PageView(v)'
  <2>1. late'[v] = {}
    BY <1>3, <1>6 DEF PageView
  <2>2. \A m \in P : Passed(v, m)'
    BY <1>3, <1>4 DEF Passed
  <2>3. ASSUME NEW m \in stored \ P PROVE Cardinality(NoOlder(v, m)') >= PageSize
    BY <1>2, <1>3, <1>5, PushedOut
  <2>4. cursor'[v] # NoTime => \E k \in P : at[k] = cursor'[v]
    BY <1>3, <1>4, <1>6 DEF PageView
  <2> QED BY <1>2, <1>3, <1>5, <2>1, <2>2, <2>3, <2>4 DEF PageView
<1>8. LiveView(v)'
  <2>1. queue'[v] = {} /\ twice'[v] = {} /\ \A p \in Posts : v \notin to[p]
    BY <1>3, <1>6 DEF LiveView, SentTo
  <2> QED BY <1>3, <1>5, <2>1 DEF LiveView, SentTo
<1> QED BY <1>3, <1>5, <1>7, <1>8, OthersKeep

(* The cursor has passed all it printed, so a poll prints only new messages *)
(* and moves the cursor past all that the page left out.                    *)
LEMMA PollPageKeeps ==
    ASSUME TypeOK, MessagesInv, NEW v \in Views, PollPage(v)
    PROVE  MessagesInv'
<1> USE DEF MessagesInv
<1>1. PICK P \in Pages(stored) : LET fresh == {m \in P : After(v, m)} IN
         /\ shown' = [shown EXCEPT ![v] = @ \cup fresh]
         /\ twice' = [twice EXCEPT ![v] = @ \cup (fresh \cap shown[v])]
         /\ CursorFrom(v, fresh)
  BY DEF PollPage
<1> DEFINE fresh == {m \in P : After(v, m)}
<1>2. /\ P \subseteq stored /\ fresh \subseteq stored
      /\ \A m \in P, k \in stored \ P : at[k] <= at[m]
  BY PageOf
<1>3. UNCHANGED <<post, walk>> /\ UNCHANGED <<pc, at, to, stored, queue, opened, late, had>>
      /\ place' = [place EXCEPT ![v] = "poll"] /\ place[v] = "polling"
  BY DEF PollPage, GoTo, post
<1>4. /\ \A x \in Views : x # v => cursor'[x] = cursor[x]
      /\ fresh = {} => cursor'[v] = cursor[v]
      /\ fresh # {} => \E m \in fresh : /\ cursor'[v] = at[m] /\ cursor'[v] # NoTime
                                       /\ \A k \in fresh : at[k] <= at[m]
  BY <1>1, <1>2, <1>3, CursorMoves
<1>5. /\ shown'[v] = shown[v] \cup fresh /\ place'[v] = "poll"
      /\ twice'[v] = twice[v] \cup (fresh \cap shown[v])
      /\ \A x \in Views : x # v => SameView(x)
  BY <1>1, <1>3, <1>4 DEF SameView, TypeOK
<1>6. PageView(v) /\ LiveView(v)
  BY DEF Viewed
<1>7. /\ shown[v] \subseteq stored /\ shown[v] \cap late[v] = {}
      /\ \A m \in shown[v] : Passed(v, m)
      /\ \A m \in stored \ shown[v] : Passed(v, m) =>
            m \in late[v] \/ Cardinality(NoOlder(v, m)) >= PageSize
      /\ cursor[v] # NoTime => \E k \in shown[v] : at[k] = cursor[v]
      /\ late[v] \subseteq stored /\ \A m \in late[v] : Passed(v, m)
  BY <1>3, <1>6 DEF PageView, Reading
<1>8. (\A m \in stored : at[m] \in Nat) /\ (cursor[v] = NoTime \/ cursor[v] \in Nat)
  BY DEF TypeOK, Times0, Times
<1>9. \A m \in stored : Passed(v, m) <=> ~After(v, m)
  BY <1>8 DEF Passed, After
<1>10. fresh \cap shown[v] = {}
  BY <1>2, <1>7, <1>9
<1>11. \A m \in stored : Passed(v, m) => Passed(v, m)'
  <2>1. CASE fresh = {}
    BY <1>3, <1>4, <2>1 DEF Passed
  <2>2. CASE fresh # {}
    <3>1. PICK k \in fresh : cursor'[v] = at[k] /\ cursor'[v] # NoTime
      BY <1>4, <2>2
    <3>2. k \in stored /\ (cursor[v] = NoTime \/ at[k] > cursor[v])
      BY <1>2 DEF After
    <3> QED BY <1>3, <1>8, <3>1, <3>2 DEF Passed
  <2> QED BY <2>1, <2>2
<1>12. \A m \in fresh : Passed(v, m)'
  BY <1>3, <1>4 DEF Passed
<1>13. fresh \cap late[v] = {}
  BY <1>2, <1>7, <1>9
<1>14. ASSUME NEW m \in stored \ shown'[v], Passed(v, m)'
       PROVE  m \in late[v] \/ Cardinality(NoOlder(v, m)') >= PageSize
  <2>1. CASE Passed(v, m)
    <3>1. m \in stored \ shown[v]
      BY <1>5
    <3>2. NoOlder(v, m) \subseteq NoOlder(v, m)' /\ NoOlder(v, m)' \subseteq Posts
      BY <1>2, <1>3, <1>5, <1>7 DEF NoOlder, TypeOK
    <3>3. IsFiniteSet(NoOlder(v, m)')
      BY <3>2, ChatAssumption, FS_Subset
    <3>4. /\ Cardinality(NoOlder(v, m)) <= Cardinality(NoOlder(v, m)')
          /\ IsFiniteSet(NoOlder(v, m))
      BY <3>2, <3>3, FS_Subset
    <3>5. Cardinality(NoOlder(v, m)) \in Nat /\ Cardinality(NoOlder(v, m)') \in Nat
      BY <3>3, <3>4, FS_CardinalityType
    <3>6. m \in late[v] \/ Cardinality(NoOlder(v, m)) >= PageSize
      BY <1>7, <2>1, <3>1
    <3> QED BY <3>4, <3>5, <3>6, ChatAssumption
  <2>2. CASE ~Passed(v, m)
    <3>1. After(v, m) /\ m \notin P
      BY <1>5, <1>9, <2>2
    <3>2. P \subseteq fresh
      <4> SUFFICES ASSUME NEW k \in P PROVE After(v, k)
        OBVIOUS
      <4> QED BY <1>2, <1>8, <3>1 DEF After
    <3> QED BY <1>2, <1>3, <1>5, <1>7, <3>1, <3>2, PushedOut
  <2> QED BY <2>1, <2>2
<1>15. cursor'[v] # NoTime => \E k \in shown'[v] : at[k] = cursor'[v]
  BY <1>4, <1>5, <1>7
<1>16. \A m \in late[v] : Passed(v, m)'
  <2>1. CASE fresh = {}
    BY <1>3, <1>4, <1>7, <2>1 DEF Passed
  <2>2. CASE fresh # {}
    <3>1. PICK k \in fresh : cursor'[v] = at[k] /\ cursor'[v] # NoTime
      BY <1>4, <2>2
    <3>2. k \in stored /\ (cursor[v] = NoTime \/ at[k] > cursor[v])
      BY <1>2 DEF After
    <3> QED BY <1>3, <1>7, <1>8, <3>1, <3>2 DEF Passed
  <2> QED BY <2>1, <2>2
<1>17. PageView(v)'
  BY <1>2, <1>3, <1>5, <1>7, <1>11, <1>12, <1>13, <1>14, <1>15, <1>16 DEF PageView
<1>18. LiveView(v)'
  <2>1. queue[v] = {} /\ twice[v] = {} /\ \A p \in Posts : v \notin to[p]
    BY <1>3, <1>6 DEF LiveView, SentTo
  <2> QED BY <1>3, <1>5, <1>10, <2>1 DEF LiveView, SentTo
<1> QED BY <1>3, <1>5, <1>17, <1>18, OthersKeep

LEMMA CloseKeeps ==
    ASSUME TypeOK, MessagesInv, NEW v \in Views, Close(v)
    PROVE  MessagesInv'
<1>1. /\ UNCHANGED <<pc, at, stored, walk>>
      /\ place'[v] = "off" /\ cursor'[v] = NoTime /\ shown'[v] = {} /\ twice'[v] = {}
      /\ queue'[v] = {} /\ late'[v] = {}
      /\ \A q \in Posts : to'[q] = to[q] \ {v}
      /\ \A x \in Views : x # v => SameView(x)
  BY DEF Close, GoTo, SameView, TypeOK
<1>2. PageView(v)'
  BY <1>1 DEF PageView, Reading
<1>3. LiveView(v)'
  BY <1>1 DEF LiveView, SentTo
<1> QED BY <1>1, <1>2, <1>3, OthersKeep

----------------------------------------------------------------------------
(* The steps of a walk *)

LEMMA WalkKeeps ==
    ASSUME TypeOK, MessagesInv, NEW w \in Walks, Ask(w) \/ PageBack(w)
    PROVE  MessagesInv'
<1> USE DEF MessagesInv
<1>1. UNCHANGED <<post, view>>
  BY DEF Ask, PageBack
<1>2. /\ UNCHANGED <<pc, at, to, stored>>
      /\ UNCHANGED <<place, cursor, shown, queue, opened, twice, late, had>>
  BY <1>1 DEF post, view
<1>3. Posted'
  BY <1>2 DEF Posted, PostPlaces, Begun
<1>4. Viewed'
  BY <1>2, PageStays, LiveStays DEF Viewed, SameView
<1>5. CASE Ask(w)
  <2>1. Walked'
    BY <1>2, <1>5, WalksStay DEF Ask
  <2> QED BY <1>3, <1>4, <2>1
<1>6. CASE PageBack(w)
  <2>1. PICK P \in Pages(Older(w)) :
           /\ seen' = [seen EXCEPT ![w] = @ \cup P]
           /\ begun' = [begun EXCEPT ![w] = IF before[w] = NoTime THEN stored ELSE @]
           /\ \/ P = {} /\ UNCHANGED <<before, edges>>
              \/ \E m \in P : LET t == CutToSecond(at[m]) IN
                    /\ Oldest(m, P)
                    /\ before' = [before EXCEPT ![w] = t]
                    /\ edges' = [edges EXCEPT ![w] = @ \cup {t}]
    BY <1>6 DEF PageBack
  <2>2. /\ P \subseteq Older(w)
        /\ P = {} => Older(w) = {}
        /\ \A m \in P, k \in Older(w) \ P : at[k] <= at[m]
    BY PageOf
  <2>3. Older(w) \subseteq stored /\ \A m \in stored : at[m] \in Times /\ at[m] \in Nat
    BY DEF Older, TypeOK, Times
  <2>4. /\ seen'[w] = seen[w] \cup P
        /\ begun'[w] = IF before[w] = NoTime THEN stored ELSE begun[w]
        /\ \A x \in Walks : x # w => /\ seen'[x] = seen[x] /\ begun'[x] = begun[x]
                                     /\ before'[x] = before[x] /\ edges'[x] = edges[x]
    BY <2>1 DEF TypeOK
  <2>5. WalkKnown'
    BY <1>2, <2>2, <2>3, <2>4 DEF Walked, WalkKnown
  <2>6. \A x \in Walks : x # w => Older(x)' = Older(x)
    BY <1>2, <2>4 DEF Older
  <2>7. before[w] = NoTime => seen[w] = {} /\ Older(w) = stored
    BY DEF Walked, WalkAccounts, WalkKnown, Older
  <2>8. /\ seen'[w] \cap Older(w)' = {}
        /\ \A m \in begun'[w] \ seen'[w] : m \in Older(w)' \/ CutToSecond(at[m]) \in edges'[w]
    <3>1. CASE P = {} /\ UNCHANGED <<before, edges>>
      <4>1. Older(w)' = Older(w) /\ Older(w) = {}
        BY <1>2, <2>2, <3>1 DEF Older
      <4> QED BY <2>4, <2>7, <3>1, <4>1 DEF Walked, WalkAccounts
    <3>2. CASE \E m \in P : LET t == CutToSecond(at[m]) IN
                  /\ Oldest(m, P)
                  /\ before' = [before EXCEPT ![w] = t]
                  /\ edges' = [edges EXCEPT ![w] = @ \cup {t}]
      <4>1. PICK m \in P : /\ Oldest(m, P)
                           /\ before' = [before EXCEPT ![w] = CutToSecond(at[m])]
                           /\ edges' = [edges EXCEPT ![w] = @ \cup {CutToSecond(at[m])}]
        BY <3>2
      <4> DEFINE t == CutToSecond(at[m])
      <4>2. m \in Older(w) /\ m \in stored
        BY <2>2, <2>3
      <4>3. t \in Times /\ t <= at[m] /\ t \in Nat /\ t # NoTime
        BY <2>3, <4>2, CutType, ChatAssumption DEF Times
      <4>4. before'[w] = t /\ edges'[w] = edges[w] \cup {t}
        BY <4>1 DEF TypeOK
      <4> HIDE DEF t
      <4>5. \A k \in stored : k \in Older(w)' <=> at[k] < t
        BY <1>2, <4>3, <4>4 DEF Older
      <4>6. \A k \in Older(w) : k \in P \/ at[k] <= at[m]
        BY <2>2
      <4>7. \A k \in P : at[m] <= at[k]
        BY <4>1 DEF Oldest
      <4>8. \A k \in seen[w] : k \in stored /\ at[m] <= at[k]
        <5> SUFFICES ASSUME NEW k \in seen[w] PROVE k \in stored /\ at[m] <= at[k]
          OBVIOUS
        <5>1. k \in stored /\ k \notin Older(w)
          BY DEF Walked, WalkKnown, WalkAccounts
        <5>2. before[w] = NoTime \/ before[w] \in Nat
          BY DEF TypeOK, Times0, Times
        <5>3. before[w] # NoTime /\ ~(at[k] < before[w]) /\ at[m] < before[w]
          BY <4>2, <5>1 DEF Older
        <5> QED BY <2>3, <4>2, <5>1, <5>2, <5>3
      <4>9. seen'[w] \cap Older(w)' = {}
        BY <2>2, <2>3, <2>4, <4>2, <4>3, <4>5, <4>7, <4>8
      <4>10. ASSUME NEW k \in begun'[w] \ seen'[w]
             PROVE  k \in Older(w)' \/ CutToSecond(at[k]) \in edges'[w]
        <5>1. k \in stored /\ k \notin P
          BY <2>4, <4>10 DEF Walked, WalkKnown
        <5>2. k \in Older(w) \/ CutToSecond(at[k]) \in edges[w]
          BY <2>4, <2>7, <4>10 DEF Walked, WalkAccounts
        <5>3. CASE k \in Older(w) /\ ~(at[k] < t)
          <6>1. at[k] \in Nat /\ at[m] \in Nat /\ t <= at[k] /\ at[k] <= at[m]
            BY <2>3, <4>2, <4>3, <4>6, <5>1, <5>3
          <6>2. CutToSecond(at[k]) = t
            BY <6>1, CutSame DEF t
          <6> QED BY <4>4, <6>2
        <5> QED BY <4>4, <4>5, <5>1, <5>2, <5>3
      <4> QED BY <4>9, <4>10
    <3> QED BY <2>1, <3>1, <3>2
  <2>9. WalkAccounts'
    <3>1. \A x \in Walks : x # w => \A m \in begun[x] \ seen[x] :
             m \in Older(x) \/ CutToSecond(at[m]) \in edges[x]
      BY DEF Walked, WalkAccounts
    <3> QED BY <1>2, <2>4, <2>6, <2>8, <3>1 DEF Walked, WalkAccounts
  <2> QED BY <1>3, <1>4, <2>5, <2>9 DEF Walked
<1> QED BY <1>5, <1>6

LEMMA StepInv == IInv /\ [Next]_vars => IInv'
<1> SUFFICES ASSUME IInv, [Next]_vars PROVE IInv'
  OBVIOUS
<1>1. TypeOK /\ MessagesInv /\ CreatorOwns /\ PostPlaces
  BY AsChatInv DEF IInv, MessagesInv, Posted
<1>2. TypeOK' /\ CreatorOwns'
  BY <1>1, TypeStep, OwnerStep
<1>3. MessagesInv'
  <2>1. CASE UNCHANGED <<post, view, walk>>
    BY <1>1, <2>1, MembersKeep
  <2>2. CASE Tick \/ AddOwner \/ UNCHANGED vars
    BY <2>1, <2>2 DEF Tick, AddOwner, vars, post, view, walk
  <2>3. ASSUME NEW u \in Users, Change(u) PROVE MessagesInv'
    BY <2>1, <2>3 DEF Change, CreateRoom, JoinRoom, LeaveRoom
  <2>4. ASSUME NEW p \in Posts, PostStep(p) PROVE MessagesInv'
    BY <1>1, <2>4, AcceptKeeps, InsertKeeps, BroadcastKeeps, SendKeeps, AnswerKeeps
       DEF PostStep
  <2>5. ASSUME NEW v \in Views, ViewStep(v) PROVE MessagesInv'
    BY <1>1, <2>5, MoveKeeps, ShowKeeps, OpenPageKeeps, PollPageKeeps, CloseKeeps
       DEF ViewStep
  <2>6. ASSUME NEW w \in Walks, Ask(w) \/ PageBack(w) PROVE MessagesInv'
    BY <1>1, <2>6, WalkKeeps
  <2> QED BY <2>2, <2>3, <2>4, <2>5, <2>6 DEF Next
<1>4. ChatInv' <=> CreatorOwns' /\ MessagesInv'
  BY <1>2, AsChatInv, PTL
<1> QED BY <1>2, <1>3, <1>4 DEF IInv

(* Every reachable state is typed and satisfies the conjuncts of ChatInv.   *)
THEOREM Invariant == Spec => []IInv
<1>1. Init => IInv
  BY InitInv
<1>2. IInv /\ [Next]_vars => IInv'
  BY StepInv
<1> QED BY <1>1, <1>2, PTL DEF Spec

----------------------------------------------------------------------------
(* The properties that the runs check *)

(* Every variable keeps its type, and what is stored has a created_at.      *)
THEOREM TypeCorrect == Spec => []TypeOK
<1>1. IInv => TypeOK
  BY DEF IInv
<1> QED BY <1>1, Invariant, PTL

(* Whatever a view printed is in the history.                               *)
THEOREM ShownCorrect == Spec => []ShownIsStored
<1>1. IInv => ShownIsStored
  BY DEF IInv, ChatInv
<1> QED BY <1>1, Invariant, PTL

(* A creator told of success owns the room until they leave it, and only    *)
(* they ever do.                                                            *)
THEOREM OwnerCorrect == Spec => []CreatorOwns
<1>1. IInv => CreatorOwns
  BY DEF IInv, ChatInv
<1> QED BY <1>1, Invariant, PTL

(* What a polling view's cursor has passed is what it printed, what came    *)
(* late and what a page's worth of printed messages pushed out.             *)
THEOREM PollCorrect == Spec => []PollAccounts
<1>1. IInv => PollAccounts
  BY DEF IInv, ChatInv
<1> QED BY <1>1, Invariant, PTL

(* A polling view repeats nothing, a live view only its opening page.       *)
THEOREM RepeatsCorrect == Spec => []Repeats
<1>1. IInv => Repeats
  BY DEF IInv, ChatInv
<1> QED BY <1>1, Invariant, PTL

(* A live view that was not dropped misses no message that was answered 201 *)
(* and whose broadcast began after its socket joined.                       *)
THEOREM LiveCorrect == Spec => []LiveComplete
<1>1. IInv => LiveComplete
  BY DEF IInv, ChatInv
<1> QED BY <1>1, Invariant, PTL

(* A walk back through history repeats nothing and skips only messages of a *)
(* second in which one of its pages ended.                                  *)
THEOREM WalkCorrect == Spec => []WalkAccounts
<1>1. IInv => WalkAccounts
  BY DEF IInv, ChatInv
<1> QED BY <1>1, Invariant, PTL

=============================================================================
