---------------------------- MODULE WsHubProofs ----------------------------
(* The hub's safety for every set of connections, users, rooms and posters, *)
(* every cap and every buffer size.                                         *)
EXTENDS WsHub, FiniteSetTheorems, TLAPS

----------------------------------------------------------------------------
(* Frames and calls *)

(* Events, and the frame of no call, are of their types.                    *)
LEMMA EventType ==
    ASSUME NEW k \in EventTypes, NEW t \in Threads, NEW n \in Nat,
           NEW S \in SUBSET Users
    PROVE  [type |-> k, from |-> t, n |-> n, online |-> S] \in Event
BY DEF Event

LEMMA NoCallType == NoEvent \in Event /\ NoCall \in Frame
<1>1. NoEvent \in Event
  <2>1. Main \in Threads /\ "none" \in EventTypes
    BY DEF Threads, EventTypes
  <2> QED
    BY <2>1, EventType DEF NoEvent, Ev
<1>2. NoCall \in Frame
  BY <1>1 DEF NoCall, Frame, Places
<1> QED
  BY <1>1, <1>2

(* A frame is one whatever clients, target, event or return place it gets.  *)
LEMMA FrameUpdate ==
    ASSUME NEW f \in Frame, NEW S \in SUBSET Clients,
           NEW c \in Clients \cup {NoClient}, NEW e \in Event, NEW r \in Places
    PROVE  /\ [event |-> e, todo |-> S, target |-> c, ret |-> r] \in Frame
           /\ [f EXCEPT !.todo = S] \in Frame
           /\ [f EXCEPT !.target = c] \in Frame
           /\ [f EXCEPT !.todo = S, !.target = c] \in Frame
BY DEF Frame

(* A thread's own places are not places inside a call.                      *)
LEMMA OwnPlaces ==
    ASSUME NEW t \in Threads, NEW p \in OwnPcs(t)
    PROVE  p \in Places /\ p \notin CallPcs
<1>1. CASE t \in Clients
  BY <1>1 DEF OwnPcs, RunPcs, CallPcs, Places
<1>2. CASE t \notin Clients
  BY <1>2 DEF OwnPcs, MainPcs, CallPcs, Places
<1> QED
  BY <1>1, <1>2

(* A thread that moves to a legal place with a frame leaves every thread at *)
(* a legal place, and the others in their phase.                            *)
LEMMA Move ==
    ASSUME TypeOK, NEW t \in Threads, NEW p \in Places, NEW f \in Frame,
           pc' = [pc EXCEPT ![t] = p], call' = [call EXCEPT ![t] = f],
           \/ p \in OwnPcs(t)
           \/ /\ p \in CallPcs
              /\ f.ret \in OwnPcs(t)
              /\ p = "closeDone" => f.target # NoClient
    PROVE  /\ pc' \in [Threads -> Places]
           /\ call' \in [Threads -> Frame]
           /\ \A u \in Threads : PcOK(u)'
           /\ Phase(t)' = IF p \in CallPcs THEN f.ret ELSE p
           /\ \A u \in Threads \ {t} : Phase(u)' = Phase(u)
<1>1. /\ pc \in [Threads -> Places] /\ call \in [Threads -> Frame]
      /\ \A u \in Threads : PcOK(u)
  BY DEF TypeOK
<1>2. /\ pc' \in [Threads -> Places] /\ pc'[t] = p
      /\ \A u \in Threads \ {t} : pc'[u] = pc[u]
  BY <1>1
<1>3. /\ call' \in [Threads -> Frame] /\ call'[t] = f
      /\ \A u \in Threads \ {t} : call'[u] = call[u]
  BY <1>1
<1>4. p \in OwnPcs(t) => p \notin CallPcs
  BY OwnPlaces
<1>5. "closeDone" \in CallPcs
  BY DEF CallPcs
<1>6. PcOK(t)' /\ Phase(t)' = IF p \in CallPcs THEN f.ret ELSE p
  BY <1>2, <1>3, <1>4, <1>5 DEF PcOK, Phase
<1>7. \A u \in Threads \ {t} : PcOK(u)' /\ Phase(u)' = Phase(u)
  BY <1>1, <1>2, <1>3 DEF PcOK, Phase
<1> QED
  BY <1>2, <1>3, <1>6, <1>7

(* Moving without touching the frame.                                       *)
LEMMA MoveOwn ==
    ASSUME TypeOK, NEW t \in Threads, NEW p \in OwnPcs(t),
           pc' = [pc EXCEPT ![t] = p], call' = call
    PROVE  /\ pc' \in [Threads -> Places]
           /\ call' \in [Threads -> Frame]
           /\ \A u \in Threads : PcOK(u)'
           /\ Phase(t)' = p
           /\ \A u \in Threads \ {t} : Phase(u)' = Phase(u)
<1>1. p \in Places /\ p \notin CallPcs
  BY OwnPlaces
<1>2. call[t] \in Frame /\ call' = [call EXCEPT ![t] = call[t]]
  BY DEF TypeOK
<1> QED
  BY <1>1, <1>2, Move

(* Going on with a frame or returning from it leaves the thread in the      *)
(* phase it returns to.                                                     *)
LEMMA ResumeStep ==
    ASSUME TypeOK, NEW t \in Threads, NEW f \in Frame, f.ret \in OwnPcs(t),
           Resume(t, f)
    PROVE  /\ pc' \in [Threads -> Places]
           /\ call' \in [Threads -> Frame]
           /\ \A u \in Threads : PcOK(u)'
           /\ Phase(t)' = f.ret
           /\ \A u \in Threads \ {t} : Phase(u)' = Phase(u)
<1>1. f.ret \in Places /\ f.ret \notin CallPcs
  BY OwnPlaces
<1>2. CASE f.todo = {}
  <2>1. pc' = [pc EXCEPT ![t] = f.ret] /\ call' = [call EXCEPT ![t] = NoCall]
    BY <1>2 DEF Resume
  <2> QED
    BY <1>1, <2>1, NoCallType, Move
<1>3. CASE f.todo # {}
  <2> DEFINE loop == IF t = Main THEN "closeAll" ELSE "send"
  <2>1. pc' = [pc EXCEPT ![t] = loop] /\ call' = [call EXCEPT ![t] = f]
    BY <1>3 DEF Resume
  <2>2. loop \in CallPcs /\ loop \in Places /\ loop # "closeDone"
    BY DEF CallPcs, Places
  <2> HIDE DEF loop
  <2> QED
    BY <2>1, <2>2, Move
<1> QED
  BY <1>2, <1>3

(* The select of close moves the thread into close or through it, and       *)
(* leaves the context and the socket of each client of their types.         *)
LEMMA CloseSelectStep ==
    ASSUME TypeOK, NEW t \in Threads, NEW f \in Frame, f.ret \in OwnPcs(t),
           f.target \in Clients, CloseSelect(t, f)
    PROVE  /\ pc' \in [Threads -> Places]
           /\ call' \in [Threads -> Frame]
           /\ \A u \in Threads : PcOK(u)'
           /\ Phase(t)' = f.ret
           /\ \A u \in Threads \ {t} : Phase(u)' = Phase(u)
           /\ ctxDone' \in [Clients -> BOOLEAN]
           /\ conn' \in [Clients -> {"none", "open", "closed"}]
<1>0. /\ ctxDone \in [Clients -> BOOLEAN]
      /\ conn \in [Clients -> {"none", "open", "closed"}]
  BY DEF TypeOK
<1>1. CASE TearDown(t, f)
  <2> DEFINE g == [f EXCEPT !.target = NoClient]
  <2>1. g \in Frame /\ g.ret = f.ret
    BY DEF Frame
  <2>2. /\ ctxDone' = [ctxDone EXCEPT ![f.target] = TRUE]
        /\ conn' = [conn EXCEPT ![f.target] = "closed"]
        /\ Resume(t, g)
    BY <1>1 DEF TearDown
  <2>3. ctxDone' \in [Clients -> BOOLEAN]
    BY <1>0, <2>2
  <2>4. conn' \in [Clients -> {"none", "open", "closed"}]
    BY <1>0, <2>2
  <2> HIDE DEF g
  <2> QED
    BY <2>1, <2>2, <2>3, <2>4, ResumeStep
<1>2. CASE ~TearDown(t, f)
  <2>1. /\ pc' = [pc EXCEPT ![t] = "closeDone"]
        /\ call' = [call EXCEPT ![t] = f]
        /\ ctxDone' = ctxDone /\ conn' = conn
    BY <1>2 DEF CloseSelect
  <2>2. "closeDone" \in CallPcs /\ "closeDone" \in Places /\ f.target # NoClient
    BY ThreadsAssumption DEF CallPcs, Places
  <2> QED
    BY <1>0, <2>1, <2>2, Move
<1> QED
  BY <1>1, <1>2

----------------------------------------------------------------------------
(* Types *)

(* TypeOK, places and data apart.                                           *)
Placed ==
    /\ pc \in [Threads -> Places]
    /\ call \in [Threads -> Frame]
    /\ \A t \in Threads : PcOK(t)

HubData == /\ rooms \in [Rooms -> SUBSET Clients]
           /\ userCounts \in [Users -> Nat]
           /\ closed \in BOOLEAN
HistData == /\ panicked \in [Threads -> BOOLEAN]
            /\ posted \in [Posters -> Nat]
            /\ typed \in [Clients -> Nat]
SendData == /\ send \in [Clients -> Seq(Event)]
            /\ \A c \in Clients : Len(send[c]) <= SendBuffer
            /\ last \in [Clients -> [Threads -> Event]]
ConnData == /\ done \in [Clients -> BOOLEAN]
            /\ ctxDone \in [Clients -> BOOLEAN]
            /\ conn \in [Clients -> {"none", "open", "closed"}]
            /\ pump \in [Clients -> {"off", "on", "stopped"}]

LEMMA TypeParts == TypeOK <=> Placed /\ HubData /\ HistData /\ SendData /\ ConnData
BY DEF TypeOK, Placed, HubData, HistData, SendData, ConnData

(* The places of a connection's goroutine.                                  *)
LEMMA ClientPlaces ==
    ASSUME NEW c \in Clients
    PROVE  c \in Threads /\ OwnPcs(c) = RunPcs
BY DEF Threads, OwnPcs

(* The frame that a close starts with.                                      *)
LEMMA CloseFrame ==
    ASSUME NEW c \in Clients, NEW r \in Places
    PROVE  LET f == [NoCall EXCEPT !.target = c, !.ret = r]
           IN  f \in Frame /\ f.ret = r /\ f.target = c /\ f.todo = {}
BY NoCallType DEF NoCall, Frame

(* Broadcasting leaves the thread in the phase after the broadcast.         *)
LEMMA BroadcastStep ==
    ASSUME TypeOK, NEW t \in Clients \cup Posters, NEW e \in Event,
           NEW r \in OwnPcs(t), Broadcast(t, e, r)
    PROVE  /\ Placed'
           /\ Phase(t)' = r
           /\ \A u \in Threads \ {t} : Phase(u)' = Phase(u)
<1> DEFINE f == [NoCall EXCEPT !.event = e, !.todo = rooms[RoomOf[t]], !.ret = r]
<1>1. t \in Threads /\ r \in Places
  BY OwnPlaces DEF Threads
<1>2. rooms[RoomOf[t]] \in SUBSET Clients
  BY PlacementAssumption DEF TypeOK
<1>3. f \in Frame /\ f.ret = r
  BY <1>1, <1>2, NoCallType DEF NoCall, Frame
<1>4. Resume(t, f)
  BY DEF Broadcast
<1> HIDE DEF f
<1> QED
  BY <1>1, <1>3, <1>4, ResumeStep DEF Placed

(* A connection that closes itself is left in the phase after the close.    *)
LEMMA CloseItselfStep ==
    ASSUME TypeOK, NEW c \in Clients, NEW r \in RunPcs, CloseItself(c, r)
    PROVE  /\ Placed'
           /\ Phase(c)' = r
           /\ \A u \in Threads \ {c} : Phase(u)' = Phase(u)
           /\ ctxDone' \in [Clients -> BOOLEAN]
           /\ conn' \in [Clients -> {"none", "open", "closed"}]
<1> DEFINE f == [NoCall EXCEPT !.target = c, !.ret = r]
<1>1. c \in Threads /\ r \in OwnPcs(c) /\ r \in Places
  BY ClientPlaces, OwnPlaces
<1>2. f \in Frame /\ f.ret = r /\ f.target = c
  BY <1>1, CloseFrame
<1>3. CloseSelect(c, f)
  BY DEF CloseItself
<1> HIDE DEF f
<1> QED
  BY <1>1, <1>2, <1>3, CloseSelectStep DEF Placed

----------------------------------------------------------------------------
(* The inductive invariant *)

IInv == TypeOK /\ HubInv

(* A step of the hub is one of the abstract admission, or is not seen by it. *)
Maps == [Admits!Next]_(Admits!vars)

(* A step that leaves the hub alone keeps HubInv if no connection moves     *)
(* from outside its join-to-leave span into it, or back before it.          *)
LEMMA HubKept ==
    ASSUME HubInv, UNCHANGED hubVars,
           \A c \in Clients :
              /\ Phase(c)' \in Outside => Phase(c) \in Outside
              /\ Phase(c)' \in ServedPhases => Phase(c) \in ServedPhases
    PROVE  HubInv'
<1>1. rooms' = rooms /\ userCounts' = userCounts /\ closed' = closed
  BY DEF hubVars
<1>2. RoomsApart' /\ ClosedHubEmpty'
  BY <1>1 DEF HubInv, RoomsApart, ClosedHubEmpty
<1>3. \A c \in Clients : Registered(c)' <=> Registered(c)
  BY <1>1 DEF Registered
<1>4. \A c \in Clients : JoinToLeave(c)'
  BY <1>1, <1>3 DEF HubInv, JoinToLeave
<1>5. \A u \in Users : ConnsOf(u)' = ConnsOf(u)
  BY <1>3 DEF ConnsOf
<1>6. CountsMatchRegistry' /\ CapHeld'
  BY <1>1, <1>5 DEF HubInv, CountsMatchRegistry, CapHeld
<1> QED
  BY <1>2, <1>4, <1>6 DEF HubInv

(* A step that leaves the hub and the phases of its connections alone is a  *)
(* stutter of the abstract admission.                                       *)
LEMMA HubUntouched ==
    ASSUME HubInv, UNCHANGED hubVars, \A c \in Clients : Phase(c)' = Phase(c)
    PROVE  HubInv' /\ Maps
<1>1. HubInv'
  BY HubKept
<1>2. \A c \in Clients : Place(c)' = Place(c)
  BY DEF Place, Registered, hubVars
<1>3. UNCHANGED Admits!vars
  BY <1>2 DEF Admits!vars, hubVars
<1> QED
  BY <1>1, <1>3 DEF Maps

(* A step in which one thread moves is, if that takes a connection away     *)
(* from outside the hub, its going in the abstract admission.               *)
LEMMA HubKeptByOne ==
    ASSUME HubInv, UNCHANGED hubVars, NEW t \in Threads,
           \A u \in Threads \ {t} : Phase(u)' = Phase(u),
           Phase(t)' \in Outside => Phase(t) \in Outside,
           Phase(t)' \in ServedPhases => Phase(t) \in ServedPhases
    PROVE  HubInv' /\ Maps
<1>1. \A c \in Clients : c \in Threads
  BY DEF Threads
<1>2. HubInv'
  BY <1>1, HubKept
<1>3. closed' = closed /\ \A c \in Clients : Registered(c)' <=> Registered(c)
  BY DEF hubVars, Registered
<1>4. \A c \in Clients \ {t} : Place(c)' = Place(c)
  BY <1>1, <1>3 DEF Place
<1>5. CASE t \in Clients /\ Place(t)' # Place(t)
  <2>1. Place(t) = "out" /\ Place(t)' = "gone"
    BY <1>3, <1>5 DEF Place
  <2>2. Admits!Go(t)
    BY <1>3, <1>4, <1>5, <2>1 DEF Admits!Go
  <2> QED
    BY <1>2, <1>5, <2>2 DEF Maps, Admits!Next
<1>6. CASE ~(t \in Clients /\ Place(t)' # Place(t))
  <2>1. \A c \in Clients : Place(c)' = Place(c)
    BY <1>4, <1>6
  <2>2. UNCHANGED Admits!vars
    BY <1>3, <2>1 DEF Admits!vars
  <2> QED
    BY <1>2, <2>2 DEF Maps
<1> QED
  BY <1>5, <1>6

(* The phase of a thread that is in its own code.                           *)
LEMMA OwnPhase ==
    ASSUME NEW t \in Threads, pc[t] \in OwnPcs(t)
    PROVE  Phase(t) = pc[t]
BY OwnPlaces DEF Phase

LEMMA UpgradeStep ==
    ASSUME IInv, NEW c \in Clients, Upgrade(c)
    PROVE  IInv' /\ Maps
<1>1. c \in Threads /\ OwnPcs(c) = RunPcs
  BY ClientPlaces
<1>2. PICK q \in {"join", "ended"} : pc' = [pc EXCEPT ![c] = q]
  BY DEF Upgrade
<1>3. Placed' /\ Phase(c)' = q /\ \A u \in Threads \ {c} : Phase(u)' = Phase(u)
  BY <1>1, <1>2, MoveOwn DEF IInv, Upgrade, Placed, RunPcs
<1>4. Phase(c) = "start"
  BY <1>1, OwnPhase DEF Upgrade, RunPcs
<1>5. HubInv' /\ Maps
  BY <1>1, <1>2, <1>3, <1>4, HubKeptByOne DEF IInv, Upgrade, Outside, ServedPhases
<1>6. HubData' /\ HistData' /\ SendData' /\ ConnData'
  BY TypeParts DEF IInv, Upgrade, hubVars, histVars, pumpVars, HubData, HistData,
                   SendData, ConnData
<1> QED
  BY <1>3, <1>5, <1>6, TypeParts, PTL DEF IInv

(* The abstract admission counts with the same operator.                    *)
LEMMA SameCount == \A S : Admits!Cardinality(S) = Cardinality(S)
BY DEF Admits!Cardinality, Cardinality

LEMMA AdmitStep ==
    ASSUME IInv, NEW c \in Clients, pc[c] = "join", JoinAdmit(c)
    PROVE  Placed' /\ HubData' /\ HubInv' /\ Maps
<1> DEFINE u == UserOf[c]
<1>1. c \in Threads /\ OwnPcs(c) = RunPcs
  BY ClientPlaces
<1>2. /\ Placed'
      /\ Phase(c)' = "presence"
      /\ \A t \in Threads \ {c} : Phase(t)' = Phase(t)
  BY <1>1, MoveOwn DEF IInv, JoinAdmit, Placed, RunPcs
<1>3. Phase(c) = "join"
  BY <1>1, OwnPhase DEF RunPcs
<1>4. /\ rooms \in [Rooms -> SUBSET Clients] /\ userCounts \in [Users -> Nat]
      /\ u \in Users /\ RoomOf[c] \in Rooms
      /\ \A d \in Clients : RoomOf[d] \in Rooms
  BY PlacementAssumption DEF IInv, TypeOK
<1>5. /\ rooms' = [rooms EXCEPT ![RoomOf[c]] = @ \cup {c}]
      /\ userCounts' = [userCounts EXCEPT ![u] = @ + 1]
      /\ closed' = closed /\ ~closed
  BY DEF JoinAdmit
<1>6. HubData'
  BY <1>4, <1>5 DEF HubData, IInv, TypeOK
<1>7. RoomsApart' /\ ClosedHubEmpty'
  BY <1>4, <1>5 DEF IInv, HubInv, RoomsApart, ClosedHubEmpty
<1>8. /\ Registered(c)' /\ ~Registered(c)
      /\ \A d \in Clients \ {c} : Registered(d)' <=> Registered(d)
  BY <1>3, <1>4, <1>5 DEF IInv, HubInv, JoinToLeave, Outside, Registered
<1>9. \A d \in Clients : JoinToLeave(d)'
  <2>1. JoinToLeave(c)'
    BY <1>2, <1>8 DEF JoinToLeave, Outside
  <2>2. ASSUME NEW d \in Clients \ {c} PROVE JoinToLeave(d)'
    BY <1>2, <1>5, <1>8, ClientPlaces DEF IInv, HubInv, JoinToLeave
  <2> QED
    BY <2>1, <2>2
<1>10. /\ ConnsOf(u)' = ConnsOf(u) \cup {c} /\ c \notin ConnsOf(u)
       /\ \A v \in Users \ {u} : ConnsOf(v)' = ConnsOf(v)
  BY <1>8 DEF ConnsOf
<1>11. IsFiniteSet(ConnsOf(u))
  BY ThreadsAssumption, FS_Subset DEF ConnsOf
<1>12. Cardinality(ConnsOf(u)') = Cardinality(ConnsOf(u)) + 1
  BY <1>10, <1>11, FS_AddElement
<1>13. \A v \in Users : userCounts[v] = Cardinality(ConnsOf(v))
  BY DEF IInv, HubInv, CountsMatchRegistry
<1>14. CountsMatchRegistry'
  <2>1. userCounts'[u] = Cardinality(ConnsOf(u)')
    BY <1>4, <1>5, <1>12, <1>13
  <2>2. \A v \in Users \ {u} : userCounts'[v] = Cardinality(ConnsOf(v)')
    BY <1>4, <1>5, <1>10, <1>13
  <2> QED
    BY <2>1, <2>2 DEF CountsMatchRegistry
<1>15. MaxPerUser > 0 => userCounts[u] < MaxPerUser
  BY <1>4, BoundsAssumption DEF JoinAdmit, AtCap
<1>16. CapHeld'
  <2>1. MaxPerUser > 0 => Cardinality(ConnsOf(u)') <= MaxPerUser
    BY <1>4, <1>12, <1>13, <1>15, BoundsAssumption
  <2>2. MaxPerUser > 0 =>
           \A v \in Users \ {u} : Cardinality(ConnsOf(v)') <= MaxPerUser
    BY <1>10 DEF IInv, HubInv, CapHeld
  <2> QED
    BY <2>1, <2>2 DEF CapHeld
<1>17. Maps
  <2>1. Place(c) = "out" /\ Place(c)' = "in"
    BY <1>3, <1>8 DEF Place, Outside
  <2>2. \A d \in Clients \ {c} : Place(d)' = Place(d)
    BY <1>2, <1>8, ClientPlaces DEF Place
  <2>3. Admits!InOf(u) = ConnsOf(u)
    BY DEF Admits!InOf, ConnsOf, Place
  <2>4. Admits!Admit(c)
    BY <1>4, <1>5, <1>13, <1>15, <2>1, <2>2, <2>3, SameCount DEF Admits!Admit
  <2> QED
    BY <2>4 DEF Maps, Admits!Next
<1> QED
  BY <1>2, <1>6, <1>7, <1>9, <1>14, <1>16, <1>17 DEF HubInv

LEMMA JoinStep ==
    ASSUME IInv, NEW c \in Clients, Join(c)
    PROVE  IInv' /\ Maps
<1>1. HistData' /\ SendData'
  BY DEF IInv, TypeOK, Join, histVars, pumpVars, HistData, SendData
<1>2. CASE JoinAdmit(c)
  <2>1. ConnData'
    BY <1>2 DEF IInv, TypeOK, Join, JoinAdmit, pumpVars, ConnData
  <2>2. Placed' /\ HubData' /\ HubInv' /\ Maps
    BY <1>2, AdmitStep DEF Join
  <2> QED
    BY <1>1, <2>1, <2>2, TypeParts, PTL DEF IInv
<1>3. CASE JoinRefuse(c)
  <2>1. c \in Threads /\ OwnPcs(c) = RunPcs /\ "finish" \in RunPcs
    BY ClientPlaces DEF RunPcs
  <2>2. /\ Placed' /\ Phase(c)' = "finish"
        /\ \A t \in Threads \ {c} : Phase(t)' = Phase(t)
        /\ ctxDone' \in [Clients -> BOOLEAN]
        /\ conn' \in [Clients -> {"none", "open", "closed"}]
    BY <1>3, <2>1, CloseItselfStep DEF IInv, JoinRefuse
  <2>3. HubInv' /\ Maps
    BY <1>3, <2>1, <2>2, HubKeptByOne DEF IInv, JoinRefuse, Outside, ServedPhases
  <2>4. HubData' /\ ConnData'
    BY <1>3, <2>2 DEF IInv, TypeOK, Join, JoinRefuse, hubVars, pumpVars, HubData, ConnData
  <2> QED
    BY <1>1, <2>2, <2>3, <2>4, TypeParts, PTL DEF IInv
<1> QED
  BY <1>2, <1>3 DEF Join

LEMMA SendPresenceStep ==
    ASSUME IInv, NEW c \in Clients, SendPresence(c)
    PROVE  IInv' /\ Maps
<1> DEFINE e == NewPresenceState(Presence(RoomOf[c]))
           f == [NoCall EXCEPT !.event = e, !.todo = {c}, !.ret = "announce"]
<1>1. c \in Threads /\ OwnPcs(c) = RunPcs
  BY ClientPlaces
<1>2. e \in Event
  <2>1. Presence(RoomOf[c]) \in SUBSET Users
    BY PlacementAssumption DEF Presence, IInv, TypeOK
  <2>2. Main \in Threads /\ "presence.state" \in EventTypes
    BY DEF Threads, EventTypes
  <2> QED
    BY <2>1, <2>2 DEF NewPresenceState, Ev, Event
<1>3. f \in Frame /\ f.ret = "announce" /\ "announce" \in RunPcs
  BY <1>2, NoCallType DEF NoCall, Frame, Places, RunPcs
<1>4. Resume(c, f)
  BY DEF SendPresence
<1> HIDE DEF f
<1>5. Placed' /\ Phase(c)' = "announce" /\ \A t \in Threads \ {c} : Phase(t)' = Phase(t)
  BY <1>1, <1>3, <1>4, ResumeStep DEF IInv, Placed
<1>6. Phase(c) = "presence"
  BY <1>1, OwnPhase DEF SendPresence, RunPcs
<1>7. HubInv' /\ Maps
  BY <1>1, <1>5, <1>6, HubKeptByOne DEF IInv, SendPresence, Outside, ServedPhases
<1>8. HubData' /\ HistData' /\ SendData' /\ ConnData'
  BY DEF IInv, TypeOK, SendPresence, hubVars, histVars, pumpVars, HubData, HistData,
         SendData, ConnData
<1> QED
  BY <1>5, <1>7, <1>8, TypeParts, PTL DEF IInv

LEMMA AnnounceStep ==
    ASSUME IInv, NEW c \in Clients, Announce(c)
    PROVE  IInv' /\ Maps
<1>1. c \in Threads /\ OwnPcs(c) = RunPcs /\ "serve" \in RunPcs
  BY ClientPlaces DEF RunPcs
<1>2. Ev("presence.join", c) \in Event
  BY <1>1 DEF Ev, Event, EventTypes
<1>3. Placed' /\ Phase(c)' = "serve" /\ \A t \in Threads \ {c} : Phase(t)' = Phase(t)
  BY <1>1, <1>2, BroadcastStep DEF IInv, Announce
<1>4. Phase(c) = "announce"
  BY <1>1, OwnPhase DEF Announce, RunPcs
<1>5. HubInv' /\ Maps
  BY <1>1, <1>3, <1>4, HubKeptByOne DEF IInv, Announce, Outside, ServedPhases
<1>6. HubData' /\ HistData' /\ SendData' /\ ConnData'
  BY DEF IInv, TypeOK, Announce, hubVars, histVars, pumpVars, HubData, HistData,
         SendData, ConnData
<1> QED
  BY <1>3, <1>5, <1>6, TypeParts, PTL DEF IInv

LEMMA ServeStep ==
    ASSUME IInv, NEW c \in Clients, Serve(c)
    PROVE  IInv' /\ Maps
<1>1. c \in Threads /\ OwnPcs(c) = RunPcs
  BY ClientPlaces
<1>2. Placed' /\ Phase(c)' = "read" /\ \A t \in Threads \ {c} : Phase(t)' = Phase(t)
  BY <1>1, MoveOwn DEF IInv, Serve, Placed, RunPcs
<1>3. Phase(c) = "serve"
  BY <1>1, OwnPhase DEF Serve, RunPcs
<1>4. HubInv' /\ Maps
  BY <1>1, <1>2, <1>3, HubKeptByOne DEF IInv, Serve, Outside, ServedPhases
<1>5. HubData' /\ HistData' /\ SendData' /\ ConnData'
  BY DEF IInv, TypeOK, Serve, hubVars, histVars, HubData, HistData, SendData, ConnData
<1> QED
  BY <1>2, <1>4, <1>5, TypeParts, PTL DEF IInv

LEMMA TypingStep ==
    ASSUME IInv, NEW c \in Clients, Typing(c)
    PROVE  IInv' /\ Maps
<1>1. c \in Threads /\ OwnPcs(c) = RunPcs /\ "read" \in RunPcs
  BY ClientPlaces DEF RunPcs
<1>2. Ev("typing", c) \in Event
  BY <1>1 DEF Ev, Event, EventTypes
<1>3. Placed' /\ Phase(c)' = "read" /\ \A t \in Threads \ {c} : Phase(t)' = Phase(t)
  BY <1>1, <1>2, BroadcastStep DEF IInv, Typing
<1>4. Phase(c) = "read"
  BY <1>1, OwnPhase DEF Typing, RunPcs
<1>5. HubInv' /\ Maps
  BY <1>1, <1>3, <1>4, HubKeptByOne DEF IInv, Typing, Outside, ServedPhases
<1>6. HubData' /\ HistData' /\ SendData' /\ ConnData'
  BY DEF IInv, TypeOK, Typing, hubVars, pumpVars, HubData, HistData, SendData, ConnData
<1> QED
  BY <1>3, <1>5, <1>6, TypeParts, PTL DEF IInv

LEMMA ReadErrorStep ==
    ASSUME IInv, NEW c \in Clients, ReadError(c)
    PROVE  IInv' /\ Maps
<1>1. c \in Threads /\ OwnPcs(c) = RunPcs /\ "leave" \in RunPcs
  BY ClientPlaces DEF RunPcs
<1>2. /\ Placed' /\ Phase(c)' = "leave"
      /\ \A t \in Threads \ {c} : Phase(t)' = Phase(t)
      /\ ctxDone' \in [Clients -> BOOLEAN]
      /\ conn' \in [Clients -> {"none", "open", "closed"}]
  BY <1>1, CloseItselfStep DEF IInv, ReadError
<1>3. Phase(c) = "read"
  BY <1>1, OwnPhase DEF ReadError, RunPcs
<1>4. HubInv' /\ Maps
  BY <1>1, <1>2, <1>3, HubKeptByOne DEF IInv, ReadError, Outside, ServedPhases
<1>5. HubData' /\ HistData' /\ SendData' /\ ConnData'
  BY <1>2 DEF IInv, TypeOK, ReadError, hubVars, histVars, pumpVars, HubData, HistData,
              SendData, ConnData
<1> QED
  BY <1>2, <1>4, <1>5, TypeParts, PTL DEF IInv

LEMMA FarewellStep ==
    ASSUME IInv, NEW c \in Clients, Farewell(c)
    PROVE  IInv' /\ Maps
<1>1. c \in Threads /\ OwnPcs(c) = RunPcs /\ "finish" \in RunPcs
  BY ClientPlaces DEF RunPcs
<1>2. Ev("presence.leave", c) \in Event
  BY <1>1 DEF Ev, Event, EventTypes
<1>3. Placed' /\ Phase(c)' = "finish" /\ \A t \in Threads \ {c} : Phase(t)' = Phase(t)
  BY <1>1, <1>2, BroadcastStep DEF IInv, Farewell
<1>4. HubInv' /\ Maps
  BY <1>1, <1>3, HubKeptByOne DEF IInv, Farewell, Outside, ServedPhases
<1>5. HubData' /\ HistData' /\ SendData' /\ ConnData'
  BY DEF IInv, TypeOK, Farewell, hubVars, histVars, pumpVars, HubData, HistData,
         SendData, ConnData
<1> QED
  BY <1>3, <1>4, <1>5, TypeParts, PTL DEF IInv

LEMMA FinishStep ==
    ASSUME IInv, NEW c \in Clients, Finish(c)
    PROVE  IInv' /\ Maps
<1>1. c \in Threads /\ OwnPcs(c) = RunPcs
  BY ClientPlaces
<1>2. Placed' /\ Phase(c)' = "ended" /\ \A t \in Threads \ {c} : Phase(t)' = Phase(t)
  BY <1>1, MoveOwn DEF IInv, Finish, Placed, RunPcs
<1>3. HubInv' /\ Maps
  BY <1>1, <1>2, HubKeptByOne DEF IInv, Finish, Outside, ServedPhases
<1>4. HubData' /\ HistData' /\ SendData' /\ ConnData'
  BY DEF IInv, TypeOK, Finish, hubVars, histVars, pumpVars, HubData, HistData,
         SendData, ConnData
<1> QED
  BY <1>2, <1>3, <1>4, TypeParts, PTL DEF IInv

(* Leave takes out exactly the connection it is called for: by then it is   *)
(* registered or the hub is closed, so a room that has an entry has it.     *)
LEMMA LeaveStep ==
    ASSUME IInv, NEW c \in Clients, Leave(c)
    PROVE  IInv' /\ Maps
<1> DEFINE u == UserOf[c]
<1>1. c \in Threads /\ OwnPcs(c) = RunPcs
  BY ClientPlaces
<1>2. Placed' /\ Phase(c)' = "farewell" /\ \A t \in Threads \ {c} : Phase(t)' = Phase(t)
  BY <1>1, MoveOwn DEF IInv, Leave, Placed, RunPcs
<1>3. HistData' /\ SendData' /\ ConnData'
  BY DEF IInv, TypeOK, Leave, histVars, pumpVars, HistData, SendData, ConnData
<1>4. CASE rooms[RoomOf[c]] = {}
  <2>1. UNCHANGED hubVars
    BY <1>4 DEF Leave, hubVars
  <2>2. HubInv' /\ Maps
    BY <1>1, <1>2, <2>1, HubKeptByOne DEF IInv, Outside, ServedPhases
  <2>3. HubData'
    BY <2>1 DEF IInv, TypeOK, HubData, hubVars
  <2> QED
    BY <1>2, <1>3, <2>2, <2>3, TypeParts, PTL DEF IInv
<1>5. CASE rooms[RoomOf[c]] # {}
  <2>1. /\ rooms \in [Rooms -> SUBSET Clients] /\ userCounts \in [Users -> Nat]
        /\ u \in Users /\ RoomOf[c] \in Rooms
        /\ \A d \in Clients : RoomOf[d] \in Rooms
    BY PlacementAssumption DEF IInv, TypeOK
  <2>2. /\ rooms' = [rooms EXCEPT ![RoomOf[c]] = @ \ {c}]
        /\ userCounts' = [userCounts EXCEPT ![u] = IF @ > 0 THEN @ - 1 ELSE @]
        /\ closed' = closed
    BY <1>5 DEF Leave
  <2>3. ~closed /\ Registered(c)
    <3>1. Phase(c) = "leave"
      BY <1>1, OwnPhase DEF Leave, RunPcs
    <3> QED
      BY <1>5, <2>1, <3>1 DEF IInv, HubInv, ClosedHubEmpty, JoinToLeave, Outside, ServedPhases
  <2>4. /\ ~Registered(c)'
        /\ \A d \in Clients \ {c} : Registered(d)' <=> Registered(d)
    BY <2>1, <2>2 DEF Registered
  <2>5. RoomsApart' /\ ClosedHubEmpty'
    BY <2>1, <2>2 DEF IInv, HubInv, RoomsApart, ClosedHubEmpty
  <2>6. \A d \in Clients : JoinToLeave(d)'
    <3>1. JoinToLeave(c)'
      BY <1>2, <2>4 DEF JoinToLeave, Outside, ServedPhases
    <3>2. ASSUME NEW d \in Clients \ {c} PROVE JoinToLeave(d)'
      BY <1>2, <2>2, <2>4, ClientPlaces DEF IInv, HubInv, JoinToLeave
    <3> QED
      BY <3>1, <3>2
  <2>7. /\ ConnsOf(u)' = ConnsOf(u) \ {c} /\ c \in ConnsOf(u)
        /\ \A v \in Users \ {u} : ConnsOf(v)' = ConnsOf(v)
    BY <2>3, <2>4 DEF ConnsOf
  <2>8. IsFiniteSet(ConnsOf(u))
    BY ThreadsAssumption, FS_Subset DEF ConnsOf
  <2>9. Cardinality(ConnsOf(u)') = Cardinality(ConnsOf(u)) - 1
    BY <2>7, <2>8, FS_RemoveElement
  <2>10. \A v \in Users : userCounts[v] = Cardinality(ConnsOf(v))
    BY DEF IInv, HubInv, CountsMatchRegistry
  <2>11. Cardinality(ConnsOf(u)) \in Nat /\ Cardinality(ConnsOf(u)) # 0
    BY <2>7, <2>8, FS_CardinalityType, FS_EmptySet
  <2>12. CountsMatchRegistry'
    <3>1. userCounts'[u] = Cardinality(ConnsOf(u)')
      BY <2>1, <2>2, <2>9, <2>10, <2>11
    <3>2. \A v \in Users \ {u} : userCounts'[v] = Cardinality(ConnsOf(v)')
      BY <2>1, <2>2, <2>7, <2>10
    <3> QED
      BY <3>1, <3>2 DEF CountsMatchRegistry
  <2>13. CapHeld'
    <3>1. MaxPerUser > 0 => Cardinality(ConnsOf(u)') <= MaxPerUser
      BY <2>1, <2>9, <2>11, BoundsAssumption DEF IInv, HubInv, CapHeld
    <3>2. MaxPerUser > 0 =>
             \A v \in Users \ {u} : Cardinality(ConnsOf(v)') <= MaxPerUser
      BY <2>7 DEF IInv, HubInv, CapHeld
    <3> QED
      BY <3>1, <3>2 DEF CapHeld
  <2>14. HubData'
    BY <2>1, <2>2 DEF IInv, TypeOK, HubData
  <2>15. HubInv'
    BY <2>5, <2>6, <2>12, <2>13 DEF HubInv
  <2>16. Maps
    <3>1. Place(c) = "in" /\ Place(c)' = "gone"
      BY <1>2, <2>3, <2>4 DEF Place, Outside
    <3>2. \A d \in Clients \ {c} : Place(d)' = Place(d)
      BY <1>2, <2>4, ClientPlaces DEF Place
    <3>3. Admits!Go(c)
      BY <2>2, <3>1, <3>2 DEF Admits!Go
    <3> QED
      BY <3>3 DEF Maps, Admits!Next
  <2> QED
    BY <1>2, <1>3, <2>14, <2>15, <2>16, TypeParts, PTL DEF IInv
<1> QED
  BY <1>4, <1>5

LEMMA PostStep ==
    ASSUME IInv, NEW p \in Posters, Post(p)
    PROVE  IInv' /\ Maps
<1>1. p \in Threads /\ p \notin Clients /\ p # Main
  BY ThreadsAssumption DEF Threads
<1>2. "idle" \in OwnPcs(p)
  BY <1>1 DEF OwnPcs
<1>3. NewMessage(p, posted[p] + 1) \in Event
  <2>1. posted[p] + 1 \in Nat /\ "message.new" \in EventTypes
    BY DEF IInv, TypeOK, EventTypes
  <2> QED
    BY <1>1, <2>1 DEF NewMessage, Ev, Event
<1>4. Placed' /\ \A t \in Threads \ {p} : Phase(t)' = Phase(t)
  BY <1>2, <1>3, BroadcastStep DEF IInv, Post
<1>5. HubInv' /\ Maps
  BY <1>1, <1>4, HubUntouched, ClientPlaces DEF IInv, Post
<1>6. HubData' /\ HistData' /\ SendData' /\ ConnData'
  BY DEF IInv, TypeOK, Post, hubVars, pumpVars, HubData, HistData, SendData, ConnData
<1> QED
  BY <1>4, <1>5, <1>6, TypeParts, PTL DEF IInv

(* Hub.Close empties the rooms and the counts together.                     *)
LEMMA HubCloseStep ==
    ASSUME IInv, HubClose
    PROVE  IInv' /\ Maps
<1> DEFINE S == UNION {rooms[r] : r \in Rooms}
           f == [NoCall EXCEPT !.todo = S, !.ret = "returned"]
<1>1. Main \in Threads /\ Main \notin Clients /\ "returned" \in OwnPcs(Main)
  BY ThreadsAssumption DEF Threads, OwnPcs, MainPcs
<1>2. S \in SUBSET Clients
  BY DEF IInv, TypeOK
<1> HIDE DEF S
<1>3. f \in Frame /\ f.ret = "returned"
  BY <1>2, NoCallType DEF NoCall, Frame, Places, MainPcs
<1>4. Resume(Main, f)
  BY DEF HubClose, S
<1> HIDE DEF f
<1>5. Placed' /\ \A t \in Threads \ {Main} : Phase(t)' = Phase(t)
  BY <1>1, <1>3, <1>4, ResumeStep DEF IInv, Placed
<1>6. /\ closed' = TRUE
      /\ rooms' = [r \in Rooms |-> {}]
      /\ userCounts' = [u \in Users |-> 0]
  BY DEF HubClose
<1>7. HubData' /\ RoomsApart' /\ ClosedHubEmpty'
  BY <1>6 DEF HubData, RoomsApart, ClosedHubEmpty
<1>8. \A c \in Clients : JoinToLeave(c)' /\ ~Registered(c)'
  BY <1>6, PlacementAssumption DEF JoinToLeave, Registered
<1>9. \A u \in Users : ConnsOf(u)' = {}
  BY <1>8 DEF ConnsOf
<1>10. CountsMatchRegistry' /\ CapHeld'
  BY <1>6, <1>9, FS_EmptySet, BoundsAssumption DEF CountsMatchRegistry, CapHeld
<1>11. HistData' /\ SendData' /\ ConnData'
  BY DEF IInv, TypeOK, HubClose, histVars, pumpVars, HistData, SendData, ConnData
<1>12. HubInv'
  BY <1>7, <1>8, <1>10 DEF HubInv
<1>13. Maps
  <2>1. ASSUME NEW c \in Clients
        PROVE  Place(c)' = IF Place(c) = "in" THEN "gone" ELSE Place(c)
    <3>1. Phase(c)' = Phase(c) /\ ~Registered(c)'
      BY <1>1, <1>5, <1>8, ClientPlaces
    <3>2. Registered(c) => Phase(c) \notin Outside
      BY DEF IInv, HubInv, JoinToLeave
    <3> QED
      BY <3>1, <3>2 DEF Place
  <2>2. Admits!Shut
    BY <1>6, <2>1 DEF Admits!Shut
  <2> QED
    BY <2>2 DEF Maps, Admits!Next
<1> QED
  BY <1>5, <1>7, <1>11, <1>12, <1>13, TypeParts, PTL DEF IInv

(* A thread inside a call has a frame that returns to a place of its own.   *)
LEMMA InCall ==
    ASSUME TypeOK, NEW t \in Threads, pc[t] \in CallPcs
    PROVE  call[t] \in Frame /\ call[t].ret \in OwnPcs(t) /\ Phase(t) = call[t].ret
BY DEF TypeOK, PcOK, Phase

LEMMA CloseEachStep ==
    ASSUME IInv, CloseEach
    PROVE  IInv' /\ Maps
<1> PICK c \in call[Main].todo :
        CloseSelect(Main, [call[Main] EXCEPT !.todo = @ \ {c}, !.target = c])
  BY DEF CloseEach
<1> DEFINE f == [call[Main] EXCEPT !.todo = @ \ {c}, !.target = c]
<1>1. Main \in Threads /\ Main \notin Clients /\ pc[Main] \in CallPcs
  BY ThreadsAssumption DEF Threads, CloseEach, CallPcs
<1>2. call[Main] \in Frame /\ call[Main].ret \in OwnPcs(Main)
  BY <1>1, InCall DEF IInv
<1>3. f \in Frame /\ f.ret = call[Main].ret /\ f.target = c /\ c \in Clients
  BY <1>2 DEF Frame
<1>4. CloseSelect(Main, f)
  OBVIOUS
<1> HIDE DEF f
<1>5. /\ Placed' /\ \A t \in Threads \ {Main} : Phase(t)' = Phase(t)
      /\ ctxDone' \in [Clients -> BOOLEAN]
      /\ conn' \in [Clients -> {"none", "open", "closed"}]
  BY <1>1, <1>2, <1>3, <1>4, CloseSelectStep DEF IInv, Placed
<1>6. HubInv' /\ Maps
  BY <1>1, <1>5, HubUntouched, ClientPlaces DEF IInv, CloseEach
<1>7. HubData' /\ HistData' /\ SendData' /\ ConnData'
  BY <1>5 DEF IInv, TypeOK, CloseEach, hubVars, histVars, pumpVars, HubData, HistData,
              SendData, ConnData
<1> QED
  BY <1>5, <1>6, <1>7, TypeParts, PTL DEF IInv

LEMMA SendNowStep ==
    ASSUME IInv, NEW t \in Threads, SendNow(t)
    PROVE  IInv' /\ Maps
<1> PICK c \in call[t].todo : Enqueue(t, c) \/ DropSlow(t, c)
  BY DEF SendNow
<1>1. pc[t] \in CallPcs
  BY DEF SendNow, CallPcs
<1>2. call[t] \in Frame /\ call[t].ret \in OwnPcs(t) /\ Phase(t) = call[t].ret
  BY <1>1, InCall DEF IInv
<1>3. c \in Clients /\ call[t].event \in Event
  BY <1>2 DEF Frame
<1>4. /\ Placed' /\ \A u \in Threads : Phase(u)' = Phase(u)
      /\ ctxDone' \in [Clients -> BOOLEAN]
      /\ conn' \in [Clients -> {"none", "open", "closed"}]
  <2>1. CASE Enqueue(t, c)
    <3> DEFINE f == [call[t] EXCEPT !.todo = @ \ {c}]
    <3>1. f \in Frame /\ f.ret = call[t].ret
      BY <1>2 DEF Frame
    <3>2. Resume(t, f) /\ UNCHANGED <<ctxDone, conn>>
      BY <2>1 DEF Enqueue
    <3> HIDE DEF f
    <3> QED
      BY <1>2, <3>1, <3>2, ResumeStep DEF IInv, TypeOK, Placed
  <2>2. CASE DropSlow(t, c)
    <3> DEFINE f == [call[t] EXCEPT !.todo = @ \ {c}, !.target = c]
    <3>1. f \in Frame /\ f.ret = call[t].ret /\ f.target = c
      BY <1>2, <1>3 DEF Frame
    <3>2. CloseSelect(t, f)
      BY <2>2 DEF DropSlow
    <3> HIDE DEF f
    <3> QED
      BY <1>2, <1>3, <3>1, <3>2, CloseSelectStep DEF IInv, Placed
  <2> QED
    BY <2>1, <2>2
<1>5. SendData'
  <2>1. CASE Enqueue(t, c)
    <3>1. /\ send' = [send EXCEPT ![c] = Append(@, call[t].event)]
          /\ Len(send[c]) < SendBuffer /\ last' = last
      BY <2>1 DEF Enqueue, SendNow, pumpVars
    <3>2. send \in [Clients -> Seq(Event)] /\ \A d \in Clients : Len(send[d]) <= SendBuffer
      BY DEF IInv, TypeOK
    <3>3. /\ Append(send[c], call[t].event) \in Seq(Event)
          /\ Len(Append(send[c], call[t].event)) <= SendBuffer
      BY <1>3, <3>1, <3>2, BoundsAssumption
    <3> QED
      BY <1>3, <3>1, <3>2, <3>3 DEF IInv, TypeOK, SendData
  <2>2. CASE DropSlow(t, c)
    BY <2>2 DEF IInv, TypeOK, DropSlow, SendNow, pumpVars, SendData
  <2> QED
    BY <2>1, <2>2
<1>6. HubInv' /\ Maps
  BY <1>4, HubUntouched, ClientPlaces DEF IInv, SendNow
<1>7. HubData' /\ HistData' /\ ConnData'
  BY <1>4 DEF IInv, TypeOK, SendNow, hubVars, histVars, pumpVars, HubData, HistData,
              ConnData
<1> QED
  BY <1>4, <1>5, <1>6, <1>7, TypeParts, PTL DEF IInv

(* A panic of close(done) unwinds a connection to its deferred Leave only   *)
(* from the phases in which it is registered and Leave is deferred.         *)
LEMMA CloseDoneStep ==
    ASSUME IInv, NEW t \in Threads, CloseDone(t)
    PROVE  IInv' /\ Maps
<1> DEFINE c == call[t].target
<1>1. pc[t] \in CallPcs /\ pc[t] = "closeDone"
  BY DEF CloseDone, CallPcs
<1>2. /\ call[t] \in Frame /\ call[t].ret \in OwnPcs(t) /\ Phase(t) = call[t].ret
      /\ c \in Clients
  BY <1>1, InCall DEF IInv, TypeOK, PcOK, Frame
<1>3. HubData' /\ SendData'
  BY DEF IInv, TypeOK, CloseDone, hubVars, pumpVars, HubData, SendData
<1>4. CASE ClosePanic(t)
  <2>1. Unwound(t) \in OwnPcs(t)
    <3>1. CASE t = Main
      BY <3>1, ThreadsAssumption DEF Unwound, OwnPcs, MainPcs
    <3>2. CASE t \in Posters
      BY <3>2, ThreadsAssumption DEF Unwound, OwnPcs
    <3>3. CASE t \in Clients
      BY <3>3, ThreadsAssumption DEF Unwound, OwnPcs, RunPcs
    <3> QED
      BY <3>1, <3>2, <3>3 DEF Threads
  <2>2. Unwound(t) \in Places /\ Unwound(t) \notin CallPcs
    BY <2>1, OwnPlaces
  <2>3. pc' = [pc EXCEPT ![t] = Unwound(t)] /\ call' = [call EXCEPT ![t] = NoCall]
    BY <1>4 DEF ClosePanic
  <2>4. Placed' /\ Phase(t)' = Unwound(t) /\ \A u \in Threads \ {t} : Phase(u)' = Phase(u)
    BY <2>1, <2>2, <2>3, Move, NoCallType DEF IInv, Placed
  <2>5. t \in Clients => /\ Phase(t)' \notin Outside
                         /\ Phase(t)' \in ServedPhases => Phase(t) \in ServedPhases
    BY <1>2, <2>4, ThreadsAssumption DEF Unwound, Outside, ServedPhases
  <2>6. HubInv' /\ Maps
    <3>1. CASE t \in Clients
      BY <2>4, <2>5, <3>1, HubKeptByOne DEF IInv, CloseDone
    <3>2. CASE t \notin Clients
      BY <2>4, <3>2, HubUntouched, ClientPlaces DEF IInv, CloseDone
    <3> QED
      BY <3>1, <3>2
  <2>7. HistData' /\ ConnData'
    BY <1>4 DEF IInv, TypeOK, ClosePanic, CloseDone, histVars, pumpVars, HistData, ConnData
  <2> QED
    BY <1>3, <2>4, <2>6, <2>7, TypeParts, PTL DEF IInv
<1>5. CASE CloseOk(t)
  <2> DEFINE f == [call[t] EXCEPT !.target = NoClient]
  <2>1. f \in Frame /\ f.ret = call[t].ret
    BY <1>2 DEF Frame
  <2>2. Resume(t, f)
    BY <1>5 DEF CloseOk, TearDown
  <2> HIDE DEF f
  <2>3. Placed' /\ \A u \in Threads : Phase(u)' = Phase(u)
    BY <1>2, <2>1, <2>2, ResumeStep DEF IInv, Placed
  <2>4. HubInv' /\ Maps
    BY <2>3, HubUntouched, ClientPlaces DEF IInv, CloseDone
  <2>5. HistData' /\ ConnData'
    BY <1>5 DEF IInv, TypeOK, CloseOk, TearDown, CloseDone, histVars, pumpVars, HistData,
                ConnData
  <2> QED
    BY <1>3, <2>3, <2>4, <2>5, TypeParts, PTL DEF IInv
<1> QED
  BY <1>4, <1>5 DEF CloseDone

(* The write pump and the peer touch neither the hub nor any thread's place. *)
LEMMA PumpStep ==
    ASSUME IInv, NEW c \in Clients, Pump(c) \/ PeerDisconnect(c)
    PROVE  IInv' /\ Maps
<1>1. UNCHANGED <<hubVars, pc, call, panicked, histVars>>
  BY DEF Pump, PumpWrite, PumpFail, PumpStop, PeerDisconnect
<1>2. \A t \in Threads : PcOK(t)' /\ Phase(t)' = Phase(t)
  BY <1>1 DEF IInv, TypeOK, PcOK, Phase
<1>3. Placed' /\ HubData' /\ HistData'
  BY <1>1, <1>2 DEF IInv, TypeOK, Placed, HubData, HistData, hubVars, histVars
<1>4. HubInv' /\ Maps
  BY <1>1, <1>2, HubUntouched, ClientPlaces DEF IInv
<1>5. ConnData'
  BY DEF IInv, TypeOK, Pump, PumpWrite, PumpFail, PumpStop, PeerDisconnect, pumpVars,
         ConnData
<1>6. SendData'
  <2>1. /\ send \in [Clients -> Seq(Event)] /\ \A d \in Clients : Len(send[d]) <= SendBuffer
        /\ last \in [Clients -> [Threads -> Event]]
    BY DEF IInv, TypeOK
  <2>2. CASE send[c] # <<>> /\ send' = [send EXCEPT ![c] = Tail(@)]
    <3>1. /\ Tail(send[c]) \in Seq(Event) /\ Len(Tail(send[c])) <= SendBuffer
          /\ Head(send[c]) \in Event
      BY <2>1, <2>2, BoundsAssumption
    <3>2. last' \in [Clients -> [Threads -> Event]]
      <4>1. CASE last' = last
        BY <2>1, <4>1
      <4>2. CASE PumpWrite(c)
        <5>1. [last[c] EXCEPT ![Head(send[c]).from] = Head(send[c])] \in [Threads -> Event]
          BY <2>1, <3>1
        <5>2. last' = [last EXCEPT ![c] =
                          [last[c] EXCEPT ![Head(send[c]).from] = Head(send[c])]]
          BY <2>1, <4>2 DEF PumpWrite
        <5> QED
          BY <2>1, <5>1, <5>2
      <4> QED
        BY <4>1, <4>2 DEF Pump, PumpFail, PumpStop, PeerDisconnect, pumpVars
    <3> QED
      BY <2>1, <2>2, <3>1, <3>2 DEF SendData
  <2>3. CASE send' = send /\ last' = last
    BY <2>1, <2>3 DEF SendData
  <2> QED
    BY <2>2, <2>3 DEF Pump, PumpWrite, PumpFail, PumpStop, PeerDisconnect, pumpVars
<1> QED
  BY <1>3, <1>4, <1>5, <1>6, TypeParts, PTL DEF IInv

LEMMA InitIInv == Init => IInv
<1> SUFFICES ASSUME Init PROVE IInv
  OBVIOUS
<1>1. \A t \in Threads : pc[t] \in OwnPcs(t)
  BY ThreadsAssumption DEF Init, OwnPcs, RunPcs, MainPcs, Threads
<1>2. Placed
  <2>1. \A t \in Threads : pc[t] \in Places /\ Phase(t) = pc[t] /\ pc[t] # "closeDone"
    BY <1>1, OwnPlaces DEF Phase, CallPcs
  <2> QED
    BY <1>1, <2>1, NoCallType DEF Init, Placed, PcOK
<1>3. HubData /\ HistData /\ ConnData
  BY DEF Init, HubData, HistData, ConnData
<1>4. SendData
  BY NoCallType, BoundsAssumption DEF Init, SendData
<1>5. RoomsApart /\ ClosedHubEmpty
  BY DEF Init, RoomsApart, ClosedHubEmpty
<1>6. \A c \in Clients : ~Registered(c)
  BY PlacementAssumption DEF Init, Registered
<1>7. \A c \in Clients : JoinToLeave(c)
  <2>1. \A c \in Clients : Phase(c) = "start"
    BY DEF Init, Phase, CallPcs, Threads
  <2> QED
    BY <1>6, <2>1 DEF JoinToLeave, Outside, ServedPhases
<1>8. \A u \in Users : ConnsOf(u) = {}
  BY <1>6 DEF ConnsOf
<1>9. CountsMatchRegistry /\ CapHeld
  <2>1. \A u \in Users : Cardinality(ConnsOf(u)) = 0
    BY <1>8, FS_EmptySet
  <2> QED
    BY <2>1, BoundsAssumption DEF Init, CountsMatchRegistry, CapHeld
<1> QED
  BY <1>2, <1>3, <1>4, <1>5, <1>7, <1>9, TypeParts DEF IInv, HubInv

LEMMA StutterIInv == ASSUME IInv, UNCHANGED vars PROVE IInv' /\ Maps
<1>1. IInv'
  BY DEF IInv, vars, TypeOK, PcOK, Phase, HubInv, RoomsApart, ClosedHubEmpty,
         JoinToLeave, Registered, CountsMatchRegistry, CapHeld, ConnsOf
<1>2. Maps
  BY DEF vars, Maps, Admits!vars, Place, Registered, Phase
<1> QED
  BY <1>1, <1>2

LEMMA InitMaps == Init => Admits!Init
<1> SUFFICES ASSUME Init PROVE Admits!Init
  OBVIOUS
<1>1. \A c \in Clients : ~Registered(c) /\ Phase(c) = "start"
  BY PlacementAssumption DEF Init, Registered, Phase, CallPcs, Threads
<1> QED
  BY <1>1 DEF Init, Admits!Init, Place, Outside

LEMMA NextIInv == IInv /\ [Next]_vars => IInv' /\ Maps
<1> SUFFICES ASSUME IInv, [Next]_vars PROVE IInv' /\ Maps
  OBVIOUS
<1>1. CASE UNCHANGED vars
  BY <1>1, StutterIInv
<1>2. ASSUME NEW c \in Clients, Upgrade(c) PROVE IInv' /\ Maps
  BY <1>2, UpgradeStep
<1>3. ASSUME NEW c \in Clients, Run(c) PROVE IInv' /\ Maps
  BY <1>3, JoinStep, SendPresenceStep, AnnounceStep, ServeStep, ReadErrorStep, LeaveStep,
     FarewellStep, FinishStep DEF Run
<1>4. ASSUME NEW c \in Clients, Typing(c) PROVE IInv' /\ Maps
  BY <1>4, TypingStep
<1>5. ASSUME NEW c \in Clients, Pump(c) \/ PeerDisconnect(c) PROVE IInv' /\ Maps
  BY <1>5, PumpStep
<1>6. ASSUME NEW p \in Posters, Post(p) PROVE IInv' /\ Maps
  BY <1>6, PostStep
<1>7. CASE HubClose \/ CloseEach
  BY <1>7, HubCloseStep, CloseEachStep
<1>8. ASSUME NEW t \in Threads, Call(t) PROVE IInv' /\ Maps
  BY <1>8, SendNowStep, CloseDoneStep DEF Call
<1> QED
  BY <1>1, <1>2, <1>3, <1>4, <1>5, <1>6, <1>7, <1>8 DEF Next, Step

(* The invariant holds in every behaviour of the hub.                       *)
THEOREM Invariant == Spec => []IInv
BY InitIInv, NextIInv, PTL DEF Spec

(* Every variable of the hub, its goroutines and its connections keeps its  *)
(* type, and no send queue grows past its capacity.                         *)
THEOREM TypeCorrect == Spec => []TypeOK
<1>1. IInv => TypeOK
  BY DEF IInv
<1> QED
  BY <1>1, Invariant, PTL

(* Why the counts hold: every conjunct of HubInv, in every state, whatever  *)
(* the calls and panics of a connection's goroutine.                        *)
THEOREM HubInvCorrect == Spec => []HubInv
<1>1. IInv => HubInv
  BY DEF IInv
<1> QED
  BY <1>1, Invariant, PTL

(* userCounts is, always, the number of registered connections of each      *)
(* user.                                                                    *)
THEOREM CountsCorrect == Spec => []CountsMatchRegistry
<1>1. IInv => CountsMatchRegistry
  BY DEF IInv, HubInv
<1> QED
  BY <1>1, Invariant, PTL

(* No user is ever over the connection cap, whatever its value.             *)
THEOREM CapCorrect == Spec => []CapHeld
<1>1. IInv => CapHeld
  BY DEF IInv, HubInv
<1> QED
  BY <1>1, Invariant, PTL

(* Once the hub is closed no connection is registered in it.                *)
THEOREM ShutdownCorrect == Spec => []ClosedHubEmpty
<1>1. IInv => ClosedHubEmpty
  BY DEF IInv, HubInv
<1> QED
  BY <1>1, Invariant, PTL

(* A connection is let in once, under the cap and before the shutdown, and  *)
(* once out of the hub or turned away it is never registered again.         *)
THEOREM Implements == Spec => ImplementsAdmission
<1>1. Init => Admits!Init
  BY InitMaps
<1>2. IInv /\ [Next]_vars => [Admits!Next]_(Admits!vars)
  BY NextIInv DEF Maps
<1> QED
  BY <1>1, <1>2, Invariant, PTL DEF Spec, ImplementsAdmission, Admits!Spec
=============================================================================
