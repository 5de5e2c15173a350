------------------------------ MODULE RoomChat ------------------------------
(* One room: its membership (room/), its messages (message/), and the two   *)
(* readers of the command-line client, the chat view, live or polling       *)
(* (cli/chat.go, cli/chat_ws.go), and the walk back through history by the  *)
(* cursor of the oldest message shown (cli.go cmdHistory).                  *)
(*                                                                          *)
(* A step is one database statement, or what lies between two of them.      *)
(* Every statement names its room and touches rows of that room only.       *)
EXTENDS Naturals, FiniteSets

CONSTANTS
    Users,
    Posts,          \* requests that post; a message is named by its request
    Views, Walks,   \* chat commands, and users that page back
    UserOf,         \* who makes each of these requests
    PageSize,       \* messages of a page: recentCount, --limit
    Second,         \* clock ticks in a second, to which a CLI cursor is cut
    MaxTime,        \* bound on the clock
    NoUser, NoTime

Actors == Posts \cup Views \cup Walks
Times  == 0 .. MaxTime

ASSUME ChatAssumption ==
    /\ UserOf \in [Actors -> Users]
    /\ IsFiniteSet(Posts)
    /\ PageSize \in Nat \ {0}
    /\ Second \in Nat \ {0}
    /\ MaxTime \in Nat
    /\ NoUser \notin Users
    /\ NoTime \notin Nat

VARIABLES
    clock,
    creator, create,    \* who created the room, and how that request stands
    role,               \* room_members
    ownerLeft,          \* history: the owner has left the room
    pc, at,             \* per post: its place and its created_at
    to,                 \* ... and the connections it has yet to send to
    stored,             \* the messages table
    place,              \* per view: where the chat command is
    cursor, shown,      \* its cursor, and the messages it has printed
    queue,              \* messages queued for its connection or on the wire
    opened,             \* history: the page it opened with
    twice,              \* history: messages it printed more than once
    late,               \* history: messages stored when it had printed one
                        \* with a created_at no older
    had,                \* history: posts broadcast before its socket joined
    asked, before, seen,    \* per walk: a page is under way, its cursor, what it saw
    begun,              \* history: what was stored when it read its first page
    edges               \* history: seconds at which one of its pages ended

room   == <<creator, create, role, ownerLeft>>
post   == <<pc, at, to, stored>>
view   == <<place, cursor, shown, queue, opened, twice, late, had>>
walk   == <<asked, before, seen, begun, edges>>
vars   == <<clock, creator, create, role, ownerLeft, pc, at, to, stored,
            place, cursor, shown, queue, opened, twice, late, had,
            asked, before, seen, begun, edges>>

Member(a) == role[UserOf[a]] # "none"   \* IsMember
GoTo(v, p) == place' = [place EXCEPT ![v] = p]

Init ==
    /\ clock = 0
    /\ creator = NoUser /\ create = "none"
    /\ role = [u \in Users |-> "none"] /\ ownerLeft = FALSE
    /\ pc = [p \in Posts |-> "idle"]
    /\ at = [p \in Posts |-> NoTime]
    /\ to = [p \in Posts |-> {}]
    /\ stored = {}
    /\ place = [v \in Views |-> "off"]
    /\ cursor = [v \in Views |-> NoTime]
    /\ shown = [v \in Views |-> {}] /\ opened = [v \in Views |-> {}]
    /\ queue = [v \in Views |-> {}]
    /\ twice = [v \in Views |-> {}] /\ late = [v \in Views |-> {}]
    /\ had = [v \in Views |-> {}]
    /\ asked = [w \in Walks |-> FALSE]
    /\ before = [w \in Walks |-> NoTime]
    /\ seen = [w \in Walks |-> {}] /\ begun = [w \in Walks |-> {}]
    /\ edges = [w \in Walks |-> {}]

Tick ==
    /\ clock < MaxTime
    /\ clock' = clock + 1
    /\ UNCHANGED <<room, post, view, walk>>

----------------------------------------------------------------------------
(* Membership *)

(* room.create: the room first (its name is unique); when that is reported *)
(* as failed with the room created, nothing follows, ...                    *)
CreateRoom(u) ==
    /\ creator = NoUser
    /\ creator' = u /\ create' \in {"pending", "error"}
    /\ UNCHANGED <<clock, role, ownerLeft, post, view, walk>>

(* Wrong variant: a creator who is a member already is told of success.     *)
AddOwnerAnyway ==
    /\ create = "pending"
    /\ create' = "ok"
    /\ role' = IF role[creator] = "none" THEN [role EXCEPT ![creator] = "owner"] ELSE role
    /\ UNCHANGED <<clock, creator, ownerLeft, post, view, walk>>

(* ... then the owner's membership.  It fails for a creator who joined      *)
(* meanwhile, and may fail before or after it took effect; the room stays   *)
(* and the request is answered 500.                                         *)
AddOwner ==
    /\ create = "pending"
    /\ \/ /\ role[creator] = "none"
          /\ role' = [role EXCEPT ![creator] = "owner"]
          /\ create' \in {"ok", "unfinished"}
       \/ create' = "unfinished" /\ UNCHANGED role
    /\ UNCHANGED <<clock, creator, ownerLeft, post, view, walk>>

JoinRoom(u) ==
    /\ creator # NoUser /\ role[u] = "none"
    /\ role' = [role EXCEPT ![u] = "member"]
    /\ UNCHANGED <<clock, creator, create, ownerLeft, post, view, walk>>

LeaveRoom(u) ==
    /\ role[u] # "none"
    /\ role' = [role EXCEPT ![u] = "none"]
    /\ ownerLeft' = (ownerLeft \/ role[u] = "owner")
    /\ UNCHANGED <<clock, creator, create, post, view, walk>>

----------------------------------------------------------------------------
(* message.create *)

CheckPost(p) ==
    /\ pc[p] = "idle" /\ Member(p)
    /\ pc' = [pc EXCEPT ![p] = "checked"]
    /\ UNCHANGED <<clock, room, at, to, stored, view, walk>>

Stamp(p) ==
    /\ pc[p] = "checked"
    /\ at' = [at EXCEPT ![p] = clock]
    /\ pc' = [pc EXCEPT ![p] = "stamped"]
    /\ UNCHANGED <<clock, room, to, stored, view, walk>>

(* Wrong variant: a message without a created_at.                           *)
InsertUnstamped(p) ==
    /\ pc[p] = "checked"
    /\ pc' = [pc EXCEPT ![p] = "stored"]
    /\ stored' = stored \cup {p}
    /\ UNCHANGED <<clock, room, at, to, view, walk>>

(* The view has printed a message that is no older.                         *)
Behind(v, p) == \E k \in shown[v] : at[p] <= at[k]

Insert(p) ==
    /\ pc[p] = "stamped"
    /\ \/ /\ pc' = [pc EXCEPT ![p] = "failed"]
          /\ UNCHANGED <<stored, late>>
       \/ /\ \E next \in {"stored", "failed"} : pc' = [pc EXCEPT ![p] = next]
          /\ stored' = stored \cup {p}
          /\ late' = [v \in Views |-> IF Behind(v, p) THEN late[v] \cup {p} ELSE late[v]]
    /\ UNCHANGED <<clock, room, at, to, place, cursor, shown, queue, opened, twice,
                   had, walk>>

(* Hub.Broadcast reads the room's connections, ...                          *)
Live == {v \in Views : place[v] = "live"}

BroadcastFrom(p, places) ==
    /\ pc[p] \in places
    /\ pc' = [pc EXCEPT ![p] = "sending"]
    /\ to' = [to EXCEPT ![p] = Live]
    /\ UNCHANGED <<clock, room, at, stored, view, walk>>

(* Wrong variant: the message is published before it is stored.             *)
BroadcastEarly(p) == BroadcastFrom(p, {"stamped", "stored"})

Broadcast(p) == BroadcastFrom(p, {"stored"})

Enqueue(p, v) ==
    /\ to' = [to EXCEPT ![p] = @ \ {v}]
    /\ queue' = [queue EXCEPT ![v] = @ \cup {p}]
    /\ UNCHANGED <<pc, place>>

(* Wrong variant: a full queue is passed over.                              *)
SendOrSkip(p, v) ==
    /\ pc[p] = "sending" /\ v \in to[p]
    /\ \/ Enqueue(p, v)
       \/ /\ to' = [to EXCEPT ![p] = @ \ {v}]
          /\ UNCHANGED <<pc, place, queue>>
    /\ UNCHANGED <<clock, room, at, stored, cursor, shown, opened, twice, late, had, walk>>

(* ... and sends to each: the message is queued, or the connection's queue  *)
(* is full and the connection is dropped, which is the end of the broadcast *)
(* and a 500 when another goroutine drops it too and closing it panics.     *)
(* WsHub has the queue, its bound and the two goroutines.                   *)
Send(p, v) ==
    /\ pc[p] = "sending" /\ v \in to[p]
    /\ \/ Enqueue(p, v)
       \/ /\ GoTo(v, "cut")
          /\ \/ to' = [q \in Posts |-> to[q] \ {v}] /\ UNCHANGED pc
             \/ /\ to' = [q \in Posts |-> IF q = p THEN {} ELSE to[q] \ {v}]
                /\ pc' = [pc EXCEPT ![p] = "panicked"]
          /\ UNCHANGED queue
    /\ UNCHANGED <<clock, room, at, stored, cursor, shown, opened, twice, late, had, walk>>

Answer(p) ==
    /\ pc[p] = "sending" /\ to[p] = {}
    /\ pc' = [pc EXCEPT ![p] = "answered"]
    /\ UNCHANGED <<clock, room, at, to, stored, view, walk>>

----------------------------------------------------------------------------
(* ListByRoom: the newest messages of S, in any order within one created_at *)

FullPage(P, S) == Cardinality(P) = PageSize \/ (P = S /\ Cardinality(S) < PageSize)

Pages(S) == {P \in SUBSET S :
    FullPage(P, S) /\ \A m \in P, k \in S \ P : at[k] <= at[m]}

Oldest(m, P) == m \in P /\ \A k \in P : at[m] <= at[k]
Newest(m, P) == m \in P /\ \A k \in P : at[k] <= at[m]

----------------------------------------------------------------------------
(* cmdChat: the recent page, ...                                            *)
Open(v) ==
    /\ place[v] = "off" /\ Member(v)
    /\ GoTo(v, "opening")
    /\ UNCHANGED <<clock, room, post, cursor, shown, queue, opened, twice, late, had, walk>>

(* Wrong variant: the cursor moves to the time of the poll.                 *)
CursorToNow(v, P) == cursor' = [cursor EXCEPT ![v] = clock]

(* cursorFrom: the cursor moves to the newest of the messages printed.      *)
CursorFrom(v, P) ==
    \/ P = {} /\ UNCHANGED cursor
    \/ \E m \in P : Newest(m, P) /\ cursor' = [cursor EXCEPT ![v] = at[m]]

OpenPage(v) ==
    /\ place[v] = "opening"
    /\ \E P \in Pages(stored) :
          /\ shown' = [shown EXCEPT ![v] = P]
          /\ opened' = [opened EXCEPT ![v] = P]
          /\ CursorFrom(v, P)
    /\ GoTo(v, "dial")
    /\ UNCHANGED <<clock, room, post, queue, twice, late, had, walk>>

(* ... then the socket: membership, the upgrade, and the hub's join, ...    *)
Dial(v) ==
    /\ place[v] = "dial" /\ Member(v)
    /\ GoTo(v, "joining")
    /\ UNCHANGED <<clock, room, post, cursor, shown, queue, opened, twice, late, had, walk>>

Begun == {p \in Posts : pc[p] \in {"sending", "answered", "panicked"}}

JoinHub(v) ==
    /\ place[v] = "joining"
    /\ GoTo(v, "live")
    /\ had' = [had EXCEPT ![v] = Begun]
    /\ UNCHANGED <<clock, room, post, cursor, shown, queue, opened, twice, late, walk>>

(* (the live view prints what its socket delivers; of a dropped connection  *)
(* that is what was on the wire)                                            *)
ShowLive(v) ==
    /\ place[v] \in {"live", "cut"}
    /\ \E m \in queue[v] :
          /\ queue' = [queue EXCEPT ![v] = @ \ {m}]
          /\ shown' = [shown EXCEPT ![v] = @ \cup {m}]
          /\ twice' = [twice EXCEPT ![v] = @ \cup ({m} \cap shown[v])]
    /\ UNCHANGED <<clock, room, post, place, cursor, opened, late, had, walk>>

(* ... or, if that fails for any reason, the polling view.                  *)
FallBack(v) ==
    /\ place[v] \in {"dial", "joining"}
    /\ GoTo(v, "poll")
    /\ UNCHANGED <<clock, room, post, cursor, shown, queue, opened, twice, late, had, walk>>

(* pollAfter, for each line that the user enters.                           *)
Poll(v) ==
    /\ place[v] = "poll" /\ Member(v)
    /\ GoTo(v, "polling")
    /\ UNCHANGED <<clock, room, post, cursor, shown, queue, opened, twice, late, had, walk>>

(* Wrong variant: what the cursor stands on is new.                         *)
FromCursorOn(v, m) == cursor[v] = NoTime \/ at[m] >= cursor[v]

After(v, m) == cursor[v] = NoTime \/ at[m] > cursor[v]

PollPage(v) ==
    /\ place[v] = "polling"
    /\ \E P \in Pages(stored) : LET fresh == {m \in P : After(v, m)} IN
          /\ shown' = [shown EXCEPT ![v] = @ \cup fresh]
          /\ twice' = [twice EXCEPT ![v] = @ \cup (fresh \cap shown[v])]
          /\ CursorFrom(v, fresh)
    /\ GoTo(v, "poll")
    /\ UNCHANGED <<clock, room, post, queue, opened, late, had, walk>>

(* /quit, /leave, the end of input, an error, a closed socket.              *)
Close(v) ==
    /\ place[v] # "off"
    /\ GoTo(v, "off")
    /\ to' = [p \in Posts |-> to[p] \ {v}]
    /\ cursor' = [cursor EXCEPT ![v] = NoTime]
    /\ shown' = [shown EXCEPT ![v] = {}] /\ opened' = [opened EXCEPT ![v] = {}]
    /\ queue' = [queue EXCEPT ![v] = {}]
    /\ twice' = [twice EXCEPT ![v] = {}] /\ late' = [late EXCEPT ![v] = {}]
    /\ had' = [had EXCEPT ![v] = {}]
    /\ UNCHANGED <<clock, room, pc, at, stored, walk>>

----------------------------------------------------------------------------
(* history --before: the time of the oldest message seen, cut to a second   *)
(* by Client.History.                                                       *)
CutToSecond(t) == t - (t % Second)

Ask(w) ==
    /\ ~asked[w] /\ Member(w)
    /\ asked' = [asked EXCEPT ![w] = TRUE]
    /\ UNCHANGED <<clock, room, post, view, before, seen, begun, edges>>

(* Wrong variant: the cursor is included.                                   *)
NotNewer(w) == {m \in stored : before[w] = NoTime \/ at[m] <= before[w]}

Older(w) == {m \in stored : before[w] = NoTime \/ at[m] < before[w]}

PageBack(w) ==
    /\ asked[w]
    /\ asked' = [asked EXCEPT ![w] = FALSE]
    /\ \E P \in Pages(Older(w)) :
          /\ seen' = [seen EXCEPT ![w] = @ \cup P]
          /\ begun' = [begun EXCEPT ![w] = IF before[w] = NoTime THEN stored ELSE @]
          /\ \/ P = {} /\ UNCHANGED <<before, edges>>
             \/ \E m \in P : LET t == CutToSecond(at[m]) IN
                   /\ Oldest(m, P)
                   /\ before' = [before EXCEPT ![w] = t]
                   /\ edges' = [edges EXCEPT ![w] = @ \cup {t}]
    /\ UNCHANGED <<clock, room, post, view>>

Change(u) == CreateRoom(u) \/ JoinRoom(u) \/ LeaveRoom(u)
PostStep(p) == \/ CheckPost(p) \/ Stamp(p) \/ Insert(p) \/ Broadcast(p) \/ Answer(p)
               \/ \E v \in Views : Send(p, v)
ViewStep(v) == \/ Open(v) \/ OpenPage(v) \/ Dial(v) \/ JoinHub(v) \/ ShowLive(v)
               \/ FallBack(v) \/ Poll(v) \/ PollPage(v) \/ Close(v)

Next ==
    \/ Tick
    \/ AddOwner
    \/ \E u \in Users : Change(u)
    \/ \E p \in Posts : PostStep(p)
    \/ \E v \in Views : ViewStep(v)
    \/ \E w \in Walks : Ask(w) \/ PageBack(w)

Spec == Init /\ [][Next]_vars

----------------------------------------------------------------------------
(* Properties *)

Times0 == Times \cup {NoTime}

(* Every variable keeps its type, and what is stored has a created_at.      *)
TypeOK ==
    /\ clock \in Times
    /\ creator \in Users \cup {NoUser}
    /\ create \in {"none", "pending", "ok", "error", "unfinished"}
    /\ create = "none" <=> creator = NoUser
    /\ role \in [Users -> {"none", "owner", "member"}]
    /\ ownerLeft \in BOOLEAN
    /\ pc \in [Posts -> {"idle", "checked", "stamped", "stored", "sending",
                         "answered", "panicked", "failed"}]
    /\ at \in [Posts -> Times0]
    /\ to \in [Posts -> SUBSET Views]
    /\ stored \in SUBSET Posts
    /\ \A p \in stored : at[p] \in Times
    /\ place \in [Views -> {"off", "opening", "dial", "joining", "live", "cut",
                            "poll", "polling"}]
    /\ cursor \in [Views -> Times0]
    /\ shown \in [Views -> SUBSET Posts] /\ opened \in [Views -> SUBSET Posts]
    /\ queue \in [Views -> SUBSET Posts]
    /\ twice \in [Views -> SUBSET Posts] /\ late \in [Views -> SUBSET Posts]
    /\ had \in [Views -> SUBSET Posts]
    /\ asked \in [Walks -> BOOLEAN]
    /\ before \in [Walks -> Times0]
    /\ seen \in [Walks -> SUBSET Posts] /\ begun \in [Walks -> SUBSET Posts]
    /\ edges \in [Walks -> SUBSET Times]

(* REST is the source of truth (message/handler.go:120-122): whatever a     *)
(* view printed, from a page or from its socket, is in the history.         *)
ShownIsStored == \A v \in Views : shown[v] \subseteq stored

(* A creator who is told of success owns the room until they leave it, even *)
(* when they joined it before they were made its owner                      *)
(* (room/repository.go:94-117), and nobody else ever owns it.               *)
CreatorOwns ==
    /\ \A u \in Users : role[u] = "owner" => u = creator
    /\ create = "ok" => role[creator] = "owner" \/ ownerLeft

(* A polling view, or one about to be, knows what its cursor has passed:    *)
(* what it printed; what was stored when it had printed a message no older; *)
(* and what a page's worth of the messages it printed pushed out of the one *)
(* page that a poll reads.  It skips nothing else, and it never prints what *)
(* came late.                                                               *)
Passed(v, m) == cursor[v] # NoTime /\ at[m] <= cursor[v]
NoOlder(v, m) == {k \in shown[v] : at[m] <= at[k]}

PollAccounts ==
    \A v \in Views : place[v] \in {"dial", "joining", "poll", "polling"} =>
        /\ shown[v] \cap late[v] = {}
        /\ \A m \in shown[v] : Passed(v, m)
        /\ \A m \in stored \ shown[v] : Passed(v, m) =>
              m \in late[v] \/ Cardinality(NoOlder(v, m)) >= PageSize

(* What cli/chat.go:152-153 says of a poll: it reads "back far enough to    *)
(* catch arrivals".  All that is stored after the cursor is printed.        *)
PollCatchesUp == [][\A v \in Views :
    place[v] = "polling" /\ place'[v] = "poll" =>
        {m \in stored : After(v, m)} \subseteq shown'[v]]_vars

(* What room/handler.go:77-78 says of a failed AddMember: the creation of   *)
(* the room is reported as a success.                                       *)
CreateReported == create # "unfinished"

(* A polling view prints no message twice, and a live view only one of the  *)
(* page it opened with, whose broadcast came after the socket joined.       *)
Repeats == \A v \in Views :
    /\ twice[v] \subseteq opened[v]
    /\ place[v] \notin {"live", "cut"} => twice[v] = {}

(* A live view that was not dropped has printed every message whose post    *)
(* was answered 201, or it is on its way, unless its broadcast had begun    *)
(* before the socket joined.                                                *)
LiveComplete == \A v \in Live : \A p \in Posts :
    pc[p] = "answered" => p \in shown[v] \cup queue[v] \cup had[v]

(* A walk back sees no message twice, and skips none that was there when it *)
(* began but those of a second in which one of its pages ended.             *)
WalkAccounts == \A w \in Walks :
    /\ seen[w] \cap Older(w) = {}
    /\ \A m \in begun[w] \ seen[w] :
          m \in Older(w) \/ CutToSecond(at[m]) \in edges[w]

(* Why these hold: what each place of a post and of a view is worth.        *)
PostPlaces == \A p \in Posts :
    /\ pc[p] \in {"idle", "checked", "stamped"} => p \notin stored
    /\ pc[p] = "stamped" => at[p] \in Times
    /\ pc[p] = "stored" \/ p \in Begun => p \in stored
    /\ pc[p] # "sending" => to[p] = {}
ViewPlaces == \A v \in Views :
    /\ place[v] \in {"off", "opening"} => cursor[v] = NoTime /\ shown[v] = {} /\ late[v] = {}
    /\ place[v] \in {"dial", "joining"} => shown[v] = opened[v]
    /\ place[v] \notin {"live", "cut"} => queue[v] = {}
CursorPrinted == \A v \in Views :
    place[v] \in {"dial", "joining", "poll", "polling"} =>
        /\ cursor[v] # NoTime => \E k \in shown[v] : at[k] = cursor[v]
        /\ late[v] \subseteq stored /\ \A m \in late[v] : Passed(v, m)

(* A broadcast sends a message once to each connection that it lists.       *)
Sent == \A v \in Views, p \in Posts :
    /\ v \in to[p] => place[v] = "live" /\ p \notin queue[v]
    /\ v \in to[p] \/ p \in queue[v] => p \notin shown[v] \ opened[v]
    /\ p \in queue[v] => p \in Begun
    /\ place[v] \in {"live", "cut"} /\ p \in shown[v] \ opened[v] => p \in Begun
    /\ place[v] = "live" /\ pc[p] \in {"sending", "answered"} =>
          v \in to[p] \/ p \in shown[v] \cup queue[v] \cup had[v]
WalkKnown == \A w \in Walks : seen[w] \cup begun[w] \subseteq stored

ChatInv ==
    /\ PostPlaces /\ ViewPlaces /\ CursorPrinted /\ Sent /\ WalkKnown
    /\ ShownIsStored /\ CreatorOwns
    /\ PollAccounts /\ Repeats /\ LiveComplete /\ WalkAccounts
=============================================================================
