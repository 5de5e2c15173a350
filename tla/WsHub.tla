------------------------------- MODULE WsHub -------------------------------
(* The realtime hub of internal/ws: the connection registry (hub.go), the   *)
(* life of one websocket connection (client.go run, readPump, writePump,    *)
(* sendNow, close) and the REST handlers that broadcast into it             *)
(* (message/handler.go create).                                             *)
(*                                                                          *)
(* A thread is a goroutine: the handler goroutine of a connection (named by *)
(* its Client), a goroutine serving POST messages (a poster), or the main   *)
(* goroutine, which runs Hub.Close at shutdown.  A client's write pump is a *)
(* goroutine of its own, with its state in pump.                            *)
(*                                                                          *)
(* close(done) on a closed channel panics in Go.  Client.close looks at     *)
(* done and closes it in two steps that no lock joins, so the panic and     *)
(* what it unwinds are part of the model.                                   *)
EXTENDS Naturals, Sequences, FiniteSets

CONSTANTS
    Clients,        \* connections; a reconnection is a fresh Client
    Posters,        \* goroutines serving POST /v1/rooms/{id}/messages
    Main,           \* the main goroutine
    NoClient,       \* no client
    Users, Rooms,
    UserOf,         \* [Clients -> Users]
    RoomOf,         \* [Clients \cup Posters -> Rooms]
    MaxPerUser,     \* WS_MAX_CONNS_PER_USER; 0 is no cap
    SendBuffer,     \* capacity of Client.send
    MaxPosts,       \* bound: posts per poster
    MaxTyping       \* bound: typing frames honoured per connection

Threads == Clients \cup Posters \cup {Main}

ASSUME ThreadsAssumption ==
    /\ IsFiniteSet(Clients)
    /\ Clients \cap Posters = {}
    /\ Main \notin Clients \cup Posters
    /\ NoClient \notin Clients
ASSUME PlacementAssumption ==
    /\ UserOf \in [Clients -> Users]
    /\ RoomOf \in [Clients \cup Posters -> Rooms]
ASSUME BoundsAssumption ==
    /\ MaxPerUser \in Nat
    /\ SendBuffer \in Nat \ {0}
    /\ MaxPosts \in Nat
    /\ MaxTyping \in Nat

VARIABLES
    rooms,      \* Hub.rooms: the registered clients of each room
    userCounts, \* Hub.userCounts
    closed,     \* Hub.closed
    pc,         \* where each thread is
    call,       \* its frame inside Broadcast, sendNow or close
    panicked,   \* threads in which close(done) has panicked
    posted,     \* history: posts made by each poster
    typed,      \* history: typing frames honoured on each connection
    send,       \* Client.send
    done,       \* Client.done is closed
    ctxDone,    \* the per-connection context is cancelled
    conn,       \* the websocket: none, open or closed
    pump,       \* the write pump: off, on, stopped
    last        \* history: the last event of each thread written to the peer

hubVars  == <<rooms, userCounts, closed>>
histVars == <<posted, typed>>
pumpVars == <<pump, last>>
vars == <<rooms, userCounts, closed, pc, call, panicked, posted, typed, send,
          done, ctxDone, conn, pump, last>>

----------------------------------------------------------------------------
(* Events and call frames *)

EventTypes == {"message.new", "presence.state", "presence.join",
               "presence.leave", "typing", "none"}
Event == [type : EventTypes, from : Threads, n : Nat, online : SUBSET Users]

Ev(type, from)      == [type |-> type, from |-> from, n |-> 0, online |-> {}]
NoEvent             == Ev("none", Main)
NewMessage(p, k)    == [Ev("message.new", p) EXCEPT !.n = k]
NewPresenceState(users) == [Ev("presence.state", Main) EXCEPT !.online = users]

(* Where a thread can be: in its own code (a connection's runs from the     *)
(* upgrade to the last deferred call) or inside a call.                     *)
RunPcs  == {"start", "join", "presence", "announce", "serve", "read", "leave",
            "farewell", "finish", "ended"}
MainPcs == {"idle", "returned", "crashed"}
CallPcs == {"send", "closeAll", "closeDone"}
Places  == RunPcs \cup MainPcs \cup CallPcs \cup {"none"}

OwnPcs(t) == IF t \in Clients THEN RunPcs ELSE IF t = Main THEN MainPcs ELSE {"idle"}

Frame == [event : Event, todo : SUBSET Clients,
          target : Clients \cup {NoClient}, ret : Places]
NoCall == [event |-> NoEvent, todo |-> {}, target |-> NoClient, ret |-> "none"]

(* Where a thread is in its own code, calls aside.                          *)
Phase(t) == IF pc[t] \in CallPcs THEN call[t].ret ELSE pc[t]

(* Go on with frame f: its next client, or back to the caller.              *)
Resume(t, f) ==
    IF f.todo = {}
    THEN /\ pc' = [pc EXCEPT ![t] = f.ret]
         /\ call' = [call EXCEPT ![t] = NoCall]
    ELSE /\ pc' = [pc EXCEPT ![t] = IF t = Main THEN "closeAll" ELSE "send"]
         /\ call' = [call EXCEPT ![t] = f]

(* Wrong variant: every room's clients get the event.                       *)
BroadcastToAll(t, e, ret) ==
    Resume(t, [NoCall EXCEPT !.event = e, !.todo = UNION {rooms[r] : r \in Rooms},
                             !.ret = ret])

(* Hub.Broadcast reads the room under the lock and sends after unlocking it. *)
Broadcast(t, e, ret) ==
    Resume(t, [NoCall EXCEPT !.event = e, !.todo = rooms[RoomOf[t]], !.ret = ret])

(* Wrong variant: done is closed and nothing unblocks the pumps.            *)
TearDownNothing(t, f) ==
    /\ Resume(t, [f EXCEPT !.target = NoClient])
    /\ UNCHANGED <<ctxDone, conn>>

(* What Client.close does to the connection once done is closed.            *)
TearDown(t, f) ==
    /\ ctxDone' = [ctxDone EXCEPT ![f.target] = TRUE]
    /\ conn' = [conn EXCEPT ![f.target] = "closed"]
    /\ Resume(t, [f EXCEPT !.target = NoClient])

(* Client.close, up to the arm its select takes: nothing but a log line or  *)
(* a return separates this from the step that calls it.                     *)
CloseSelect(t, f) ==
    \/ /\ done[f.target]
       /\ TearDown(t, f)
    \/ /\ ~done[f.target]
       /\ pc' = [pc EXCEPT ![t] = "closeDone"]
       /\ call' = [call EXCEPT ![t] = f]
       /\ UNCHANGED <<ctxDone, conn>>

CloseItself(c, ret) == CloseSelect(c, [NoCall EXCEPT !.target = c, !.ret = ret])

(* Hub.Presence: the usernames connected to a room, each once.              *)
Presence(r) == {UserOf[c] : c \in rooms[r]}

AtCap(u) == MaxPerUser > 0 /\ userCounts[u] >= MaxPerUser

(* Every panic but one in main is recovered by the Recover middleware; a    *)
(* panic in the main goroutine ends the process.                            *)
Alive == pc[Main] # "crashed"

----------------------------------------------------------------------------
Init ==
    /\ rooms = [r \in Rooms |-> {}]
    /\ userCounts = [u \in Users |-> 0]
    /\ closed = FALSE
    /\ pc = [t \in Threads |-> IF t \in Clients THEN "start" ELSE "idle"]
    /\ call = [t \in Threads |-> NoCall]
    /\ panicked = [t \in Threads |-> FALSE]
    /\ posted = [p \in Posters |-> 0]
    /\ typed = [c \in Clients |-> 0]
    /\ send = [c \in Clients |-> <<>>]
    /\ done = [c \in Clients |-> FALSE]
    /\ ctxDone = [c \in Clients |-> FALSE]
    /\ conn = [c \in Clients |-> "none"]
    /\ pump = [c \in Clients |-> "off"]
    /\ last = [c \in Clients |-> [t \in Threads |-> NoEvent]]

(* serveWS: over the cap is answered 429 before the upgrade, and a failed   *)
(* handshake ends the request.                                              *)
Upgrade(c) ==
    /\ pc[c] = "start"
    /\ \/ /\ ~AtCap(UserOf[c])
          /\ conn' = [conn EXCEPT ![c] = "open"]
          /\ pc' = [pc EXCEPT ![c] = "join"]
       \/ /\ pc' = [pc EXCEPT ![c] = "ended"]
          /\ UNCHANGED conn
    /\ UNCHANGED <<hubVars, call, panicked, histVars, send, done, ctxDone,
                   pumpVars>>

(* Wrong variants of Join: the cap is left to the check before the upgrade, *)
(* or the closed hub still admits.                                          *)
JoinUncapped(c) ==
    /\ ~closed
    /\ rooms' = [rooms EXCEPT ![RoomOf[c]] = @ \cup {c}]
    /\ userCounts' = [userCounts EXCEPT ![UserOf[c]] = @ + 1]
    /\ pc' = [pc EXCEPT ![c] = "presence"]
    /\ UNCHANGED <<closed, call, ctxDone, conn>>

JoinClosed(c) ==
    /\ ~AtCap(UserOf[c])
    /\ rooms' = [rooms EXCEPT ![RoomOf[c]] = @ \cup {c}]
    /\ userCounts' = [userCounts EXCEPT ![UserOf[c]] = @ + 1]
    /\ pc' = [pc EXCEPT ![c] = "presence"]
    /\ UNCHANGED <<closed, call, ctxDone, conn>>

(* Hub.Join, atomic under the hub's lock, and what run does with its answer. *)
JoinAdmit(c) ==
    /\ ~closed
    /\ ~AtCap(UserOf[c])
    /\ rooms' = [rooms EXCEPT ![RoomOf[c]] = @ \cup {c}]
    /\ userCounts' = [userCounts EXCEPT ![UserOf[c]] = @ + 1]
    /\ pc' = [pc EXCEPT ![c] = "presence"]
    /\ UNCHANGED <<closed, call, ctxDone, conn>>

JoinRefuse(c) ==
    /\ closed \/ AtCap(UserOf[c])
    /\ CloseItself(c, "finish")
    /\ UNCHANGED hubVars

Join(c) ==
    /\ pc[c] = "join"
    /\ JoinAdmit(c) \/ JoinRefuse(c)
    /\ UNCHANGED <<panicked, histVars, send, done, pumpVars>>

(* run reads the presence list under one lock and sends it after.           *)
SendPresence(c) ==
    /\ pc[c] = "presence"
    /\ Resume(c, [NoCall EXCEPT !.event = NewPresenceState(Presence(RoomOf[c])),
                                !.todo = {c}, !.ret = "announce"])
    /\ UNCHANGED <<hubVars, panicked, histVars, send, done, ctxDone, conn, pumpVars>>

Announce(c) ==
    /\ pc[c] = "announce"
    /\ Broadcast(c, Ev("presence.join", c), "serve")
    /\ UNCHANGED <<hubVars, panicked, histVars, send, done, ctxDone, conn, pumpVars>>

(* Wrong variant: the write pump is not started.                            *)
ServeNoPump(c) ==
    /\ pc[c] = "serve"
    /\ pc' = [pc EXCEPT ![c] = "read"]
    /\ UNCHANGED <<hubVars, call, panicked, histVars, send, done, ctxDone, conn,
                   pumpVars>>

(* The deferred Leave is registered and the write pump started.             *)
Serve(c) ==
    /\ pc[c] = "serve"
    /\ pump' = [pump EXCEPT ![c] = "on"]
    /\ pc' = [pc EXCEPT ![c] = "read"]
    /\ UNCHANGED <<hubVars, call, panicked, histVars, send, done, ctxDone, conn,
                   last>>

(* readPump honours a typing frame; the throttle only spaces them out.      *)
Typing(c) ==
    /\ pc[c] = "read"
    /\ conn[c] = "open" /\ ~ctxDone[c]
    /\ typed[c] < MaxTyping
    /\ typed' = [typed EXCEPT ![c] = @ + 1]
    /\ Broadcast(c, Ev("typing", c), "read")
    /\ UNCHANGED <<hubVars, panicked, posted, send, done, ctxDone, conn, pumpVars>>

(* Wrong variant: run returns from readPump without closing.                *)
ReadErrorNoClose(c) ==
    /\ pc[c] = "read"
    /\ conn[c] = "closed" \/ ctxDone[c]
    /\ pc' = [pc EXCEPT ![c] = "leave"]
    /\ UNCHANGED <<hubVars, call, panicked, histVars, send, done, ctxDone, conn,
                   pumpVars>>

(* conn.Read fails once the socket or the context is gone; run closes.      *)
ReadError(c) ==
    /\ pc[c] = "read"
    /\ conn[c] = "closed" \/ ctxDone[c]
    /\ CloseItself(c, "leave")
    /\ UNCHANGED <<hubVars, panicked, histVars, send, done, pumpVars>>

(* Hub.Leave, atomic under the lock: a no-op when the room has no entry.    *)
Leave(c) ==
    /\ pc[c] = "leave"
    /\ IF rooms[RoomOf[c]] = {}
       THEN UNCHANGED <<rooms, userCounts>>
       ELSE /\ rooms' = [rooms EXCEPT ![RoomOf[c]] = @ \ {c}]
            /\ userCounts' = [userCounts EXCEPT ![UserOf[c]] =
                                  IF @ > 0 THEN @ - 1 ELSE @]
    /\ pc' = [pc EXCEPT ![c] = "farewell"]
    /\ UNCHANGED <<closed, call, panicked, histVars, send, done, ctxDone, conn,
                   pumpVars>>

Farewell(c) ==
    /\ pc[c] = "farewell"
    /\ Broadcast(c, Ev("presence.leave", c), "finish")
    /\ UNCHANGED <<hubVars, panicked, histVars, send, done, ctxDone, conn, pumpVars>>

(* The first deferred call, cancel, runs last, on a panic too.              *)
Finish(c) ==
    /\ pc[c] = "finish"
    /\ ctxDone' = [ctxDone EXCEPT ![c] = TRUE]
    /\ pc' = [pc EXCEPT ![c] = "ended"]
    /\ UNCHANGED <<hubVars, call, panicked, histVars, send, done, conn, pumpVars>>

----------------------------------------------------------------------------
(* A stored message is published to the room's connections.                 *)
Post(p) ==
    /\ pc[p] = "idle"
    /\ posted[p] < MaxPosts
    /\ posted' = [posted EXCEPT ![p] = @ + 1]
    /\ Broadcast(p, NewMessage(p, posted[p] + 1), "idle")
    /\ UNCHANGED <<hubVars, panicked, typed, send, done, ctxDone, conn, pumpVars>>

(* Wrong variant: the rooms are emptied and the counts are not.             *)
HubCloseKeepsCounts ==
    /\ pc[Main] = "idle"
    /\ closed' = TRUE
    /\ rooms' = [r \in Rooms |-> {}]
    /\ Resume(Main, [NoCall EXCEPT !.todo = UNION {rooms[r] : r \in Rooms},
                                   !.ret = "returned"])
    /\ UNCHANGED <<userCounts, panicked, histVars, send, done, ctxDone, conn,
                   pumpVars>>

(* Hub.Close up to its unlock; the clients are closed after it.             *)
HubClose ==
    /\ pc[Main] = "idle"
    /\ closed' = TRUE
    /\ rooms' = [r \in Rooms |-> {}]
    /\ userCounts' = [u \in Users |-> 0]
    /\ Resume(Main, [NoCall EXCEPT !.todo = UNION {rooms[r] : r \in Rooms},
                                   !.ret = "returned"])
    /\ UNCHANGED <<panicked, histVars, send, done, ctxDone, conn, pumpVars>>

CloseEach ==
    /\ pc[Main] = "closeAll"
    /\ \E c \in call[Main].todo :
          CloseSelect(Main, [call[Main] EXCEPT !.todo = @ \ {c}, !.target = c])
    /\ UNCHANGED <<hubVars, panicked, histVars, send, done, pumpVars>>

----------------------------------------------------------------------------
(* Wrong variants of sendNow: a queue with no bound, and a full queue that  *)
(* loses the event instead of the client.                                   *)
EnqueueUnbounded(t, c) ==
    /\ send' = [send EXCEPT ![c] = Append(@, call[t].event)]
    /\ Resume(t, [call[t] EXCEPT !.todo = @ \ {c}])
    /\ UNCHANGED <<ctxDone, conn>>

SkipSlow(t, c) ==
    /\ Len(send[c]) >= SendBuffer
    /\ Resume(t, [call[t] EXCEPT !.todo = @ \ {c}])
    /\ UNCHANGED <<send, ctxDone, conn>>

(* Client.sendNow: enqueue without blocking, or drop the slow client.       *)
Enqueue(t, c) ==
    /\ Len(send[c]) < SendBuffer
    /\ send' = [send EXCEPT ![c] = Append(@, call[t].event)]
    /\ Resume(t, [call[t] EXCEPT !.todo = @ \ {c}])
    /\ UNCHANGED <<ctxDone, conn>>

DropSlow(t, c) ==
    /\ Len(send[c]) >= SendBuffer
    /\ CloseSelect(t, [call[t] EXCEPT !.todo = @ \ {c}, !.target = c])
    /\ UNCHANGED send

SendNow(t) ==
    /\ pc[t] = "send"
    /\ \E c \in call[t].todo : Enqueue(t, c) \/ DropSlow(t, c)
    /\ UNCHANGED <<hubVars, panicked, histVars, done, pumpVars>>

(* Where a panic leaves a thread: a connection whose deferred Leave is       *)
(* registered runs it, one still announcing itself does not; a poster's      *)
(* request is answered 500; the main goroutine takes the process down.       *)
Unwound(t) ==
    CASE t = Main -> "crashed"
      [] t \in Posters -> "idle"
      [] t \in Clients -> IF call[t].ret \in {"read", "leave"} THEN "leave" ELSE "finish"

(* Client.close, the default arm: close(done) panics if another thread has  *)
(* closed it since the select.                                              *)
ClosePanic(t) ==
    /\ done[call[t].target]
    /\ panicked' = [panicked EXCEPT ![t] = TRUE]
    /\ pc' = [pc EXCEPT ![t] = Unwound(t)]
    /\ call' = [call EXCEPT ![t] = NoCall]
    /\ UNCHANGED <<done, ctxDone, conn>>

CloseOk(t) ==
    /\ ~done[call[t].target]
    /\ done' = [done EXCEPT ![call[t].target] = TRUE]
    /\ TearDown(t, call[t])
    /\ UNCHANGED panicked

CloseDone(t) ==
    /\ pc[t] = "closeDone"
    /\ ClosePanic(t) \/ CloseOk(t)
    /\ UNCHANGED <<hubVars, histVars, send, pumpVars>>

----------------------------------------------------------------------------
(* writePump writes the next event to the peer.  An event counts as queued  *)
(* until its write returns, so SendBuffer stands for the channel's capacity *)
(* and the event in flight.                                                 *)
PumpWrite(c) ==
    /\ pump[c] = "on"
    /\ send[c] # <<>>
    /\ conn[c] = "open"
    /\ last' = [last EXCEPT ![c][Head(send[c]).from] = Head(send[c])]
    /\ send' = [send EXCEPT ![c] = Tail(@)]
    /\ UNCHANGED <<hubVars, pc, call, panicked, histVars, done, ctxDone, conn, pump>>

(* A write fails on a cancelled context, a dead socket or the write         *)
(* timeout, and leaves the socket unusable.                                 *)
PumpFail(c) ==
    /\ pump[c] = "on"
    /\ send[c] # <<>>
    /\ send' = [send EXCEPT ![c] = Tail(@)]
    /\ conn' = [conn EXCEPT ![c] = "closed"]
    /\ pump' = [pump EXCEPT ![c] = "stopped"]
    /\ UNCHANGED <<hubVars, pc, call, panicked, histVars, done, ctxDone, last>>

(* The select takes either arm when both are ready.                         *)
PumpStop(c) ==
    /\ pump[c] = "on"
    /\ ctxDone[c]
    /\ pump' = [pump EXCEPT ![c] = "stopped"]
    /\ UNCHANGED <<hubVars, pc, call, panicked, histVars, send, done, ctxDone, conn,
                   last>>

(* The peer goes away.                                                      *)
PeerDisconnect(c) ==
    /\ conn[c] = "open"
    /\ conn' = [conn EXCEPT ![c] = "closed"]
    /\ UNCHANGED <<hubVars, pc, call, panicked, histVars, send, done, ctxDone,
                   pumpVars>>

----------------------------------------------------------------------------
(* What a connection's goroutine does once it has been accepted, whatever   *)
(* its peer does.                                                           *)
Run(c) == \/ Join(c) \/ SendPresence(c) \/ Announce(c) \/ Serve(c)
          \/ ReadError(c) \/ Leave(c) \/ Farewell(c) \/ Finish(c)

(* The steps of a thread inside Broadcast, sendNow or close.                *)
Call(t) == SendNow(t) \/ CloseDone(t)

Pump(c) == PumpWrite(c) \/ PumpFail(c) \/ PumpStop(c)

Step == \/ \E c \in Clients : \/ Upgrade(c) \/ Run(c) \/ Typing(c)
                              \/ Pump(c) \/ PeerDisconnect(c)
        \/ \E p \in Posters : Post(p)
        \/ HubClose \/ CloseEach
        \/ \E t \in Threads : Call(t)

Next == Alive /\ Step

Spec == Init /\ [][Next]_vars

(* The Go scheduler runs every goroutine that can run, and a write or a     *)
(* close of a socket returns (they carry timeouts).  Nothing makes a user   *)
(* connect, type or post, a peer leave, or the server shut down.            *)
Fairness ==
    /\ \A c \in Clients : /\ WF_vars(Alive /\ Run(c))
                          /\ WF_vars(Alive /\ Pump(c))
    /\ \A t \in Threads : WF_vars(Alive /\ Call(t))
    /\ WF_vars(Alive /\ CloseEach)

FairSpec == Spec /\ Fairness
----------------------------------------------------------------------------
(* Properties *)

(* A thread is at a place of its own, or in a call that returns to one.     *)
PcOK(t) ==
    /\ pc[t] \in OwnPcs(t) \cup CallPcs
    /\ Phase(t) \in OwnPcs(t)
    /\ pc[t] = "closeDone" => call[t].target # NoClient

(* Every variable keeps its type, send its capacity, and a thread is        *)
(* inside a call exactly when it has a frame to come back from.             *)
TypeOK ==
    /\ rooms \in [Rooms -> SUBSET Clients]
    /\ userCounts \in [Users -> Nat]
    /\ closed \in BOOLEAN
    /\ pc \in [Threads -> Places]
    /\ call \in [Threads -> Frame]
    /\ \A t \in Threads : PcOK(t)
    /\ panicked \in [Threads -> BOOLEAN]
    /\ posted \in [Posters -> Nat]
    /\ typed \in [Clients -> Nat]
    /\ send \in [Clients -> Seq(Event)]
    /\ \A c \in Clients : Len(send[c]) <= SendBuffer
    /\ done \in [Clients -> BOOLEAN]
    /\ ctxDone \in [Clients -> BOOLEAN]
    /\ conn \in [Clients -> {"none", "open", "closed"}]
    /\ pump \in [Clients -> {"off", "on", "stopped"}]
    /\ last \in [Clients -> [Threads -> Event]]

Registered(c) == c \in rooms[RoomOf[c]]
ConnsOf(u) == {c \in Clients : UserOf[c] = u /\ Registered(c)}

(* The per-user count that the cap is enforced with is the number of the    *)
(* user's registered connections, through every order of joins, leaves,     *)
(* slow-consumer drops, panics and the shutdown that empties both           *)
(* (Hub.Join, Leave, Close).                                                *)
CountsMatchRegistry == \A u \in Users : userCounts[u] = Cardinality(ConnsOf(u))

(* No user ever holds more registered connections than the cap, though      *)
(* serveWS checks it before the upgrade and Join after it.                  *)
CapHeld == MaxPerUser > 0 => \A u \in Users : Cardinality(ConnsOf(u)) <= MaxPerUser

(* A closed hub has no client and gains none: "no client outlives           *)
(* shutdown" (hub.go, Hub.closed).                                          *)
ClosedHubEmpty == closed => \A r \in Rooms : rooms[r] = {}

(* Why these hold: a connection is registered from its Join to its Leave,   *)
(* whatever calls and panics come between, unless the hub is closed.        *)
Outside == {"start", "join"}
ServedPhases == {"presence", "announce", "serve", "read", "leave"}
JoinToLeave(c) ==
    /\ Phase(c) \in Outside => ~Registered(c)
    /\ Phase(c) \in ServedPhases => Registered(c) \/ closed
RoomsApart == \A r \in Rooms : \A c \in rooms[r] : RoomOf[c] = r
HubInv ==
    /\ RoomsApart
    /\ ClosedHubEmpty
    /\ \A c \in Clients : JoinToLeave(c)
    /\ CountsMatchRegistry
    /\ CapHeld

(* A connection's goroutine that ends without a panic has given back all it *)
(* held: its place in the hub, its context and its socket.                  *)
EndsReleased ==
    \A c \in Clients : pc[c] = "ended" /\ ~panicked[c] /\ conn[c] # "none" =>
        ~Registered(c) /\ done[c] /\ ctxDone[c] /\ conn[c] = "closed"

(* The events of connection c: the last one of each thread written to its   *)
(* peer, and the ones queued; and those among them that thread t sent.      *)
(* presence.state comes from the hub itself (Main).                         *)
Got(c) == {last[c][t] : t \in Threads} \cup {send[c][i] : i \in 1 .. Len(send[c])}
GotFrom(c, t) == {e \in Got(c) : e.type # "none" /\ e.from = t}

(* A connection gets events of its own room only (Hub.Broadcast).           *)
EventsStayInRoom ==
    \A c \in Clients, t \in Clients \cup Posters :
        GotFrom(c, t) # {} => RoomOf[t] = RoomOf[c]

(* The numbers of poster p's messages that c got, each written or queued    *)
(* after the smaller ones.                                                  *)
Numbers(c, p) == {e.n : e \in GotFrom(c, p)}
InOrder(c, p) ==
    \A i \in 1 .. Len(send[c]) : send[c][i].from = p =>
        /\ last[c][p].n < send[c][i].n
        /\ \A j \in 1 .. i - 1 : send[c][j].from = p => send[c][j].n < send[c][i].n

(* A peer that gets messages k and m of a poster gets all between, in       *)
(* order: a client that cannot keep up is dropped, never skipped (sendNow). *)
(* Only a broadcast cut short by a panic, or a socket already closed, loses *)
(* one.                                                                     *)
NoSilentGap ==
    \A c \in Clients, p \in Posters : ~panicked[p] /\ conn[c] = "open" =>
        /\ InOrder(c, p)
        /\ \A k, m \in Numbers(c, p) : k .. m \subseteq Numbers(c, p)

Serving(c) == Registered(c) /\ Phase(c) = "read" /\ conn[c] = "open"

(* c has been told of d's user.                                             *)
Knows(c, d) ==
    GotFrom(c, d) # {} \/ \E e \in GotFrom(c, Main) : UserOf[d] \in e.online

(* Two connections being served in a room know of each other: the           *)
(* presence.state of each holds the other's user or the other's             *)
(* presence.join was sent to it, in whatever order the two joined, read the *)
(* presence list and announced themselves (client.go run).                  *)
PresenceComplete ==
    \A c, d \in Clients :
        c # d /\ RoomOf[c] = RoomOf[d] /\ Serving(c) /\ Serving(d) => Knows(c, d)

(* A connection that was dropped, refused or closed ends its goroutine, and *)
(* with it its place in the hub.                                            *)
DroppedEnds == \A c \in Clients : done[c] ~> (pc[c] = "ended" \/ ~Alive)

(* After Hub.Close every connection ends, those accepted or joining while   *)
(* it ran included.                                                         *)
ShutdownEndsAll ==
    \A c \in Clients : (closed /\ pc[c] # "start") ~> (pc[c] = "ended" \/ ~Alive)

(* A message published while a client was registered reaches its peer,      *)
(* unless the client is torn down or the broadcast is cut short by a panic. *)
DeliveredOrDropped ==
    \A c \in Clients, p \in Posters, k \in 1 .. MaxPosts :
        (posted[p] = k /\ c \in call[p].todo) ~>
            (last[c][p].n = k \/ ctxDone[c] \/ conn[c] = "closed" \/ panicked[p] \/ ~Alive)

(* Where a connection is to the rest of the server: not yet in the hub,     *)
(* registered, or never to be.                                              *)
Place(c) ==
    IF Registered(c) THEN "in" ELSE IF Phase(c) \in Outside THEN "out" ELSE "gone"

(* The hub implements the abstract admission: whatever calls, drops, panics *)
(* and shutdown interleave, a connection is let in once and under the cap,  *)
(* and once out of the hub, or turned away, it is not registered again.     *)
Admits == INSTANCE Admission WITH
    place <- [c \in Clients |-> Place(c)],
    over <- closed
ImplementsAdmission == Admits!Spec

(* "close closes done and the peer connection, unblocking both pumps. It is *)
(* idempotent." (client.go:160-161): closing a client again is harmless.    *)
CloseIdempotent == \A t \in Threads : ~panicked[t]

=============================================================================
