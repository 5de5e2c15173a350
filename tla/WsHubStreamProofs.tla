------------------------- MODULE WsHubStreamProofs -------------------------
(* What connections get and give back, for every set of connections, users, *)
(* rooms and posters, every cap and every buffer size.                      *)
EXTENDS WsHubProofs

----------------------------------------------------------------------------
(* The inductive invariant *)

(* Thread t is about to deliver to c, or is closing it instead.             *)
Due(t, c) == c \in call[t].todo \/ (pc[t] = "closeDone" /\ call[t].target = c)

(* The frame of a call that still has clients to serve: all of the thread's *)
(* room, with the event the thread is sending.  A connection whose call     *)
(* returns to announce sends itself its presence.state.                     *)
Sends(t, e) ==
    /\ t \in Posters => posted[t] > 0 /\ e = NewMessage(t, posted[t])
    /\ t \in Clients => IF call[t].ret = "announce"
                        THEN /\ e.type = "presence.state" /\ e.from = Main
                             /\ call[t].todo = {t}
                        ELSE e.type # "none" /\ e.from = t
FrameOK(t) ==
    /\ pc[t] \notin CallPcs => call[t] = NoCall
    /\ pc[t] = "send" => t # Main
    /\ t \in Clients /\ pc[t] \in CallPcs => Phase(t) \notin {"start", "ended"}
    /\ t # Main => \A c \in call[t].todo : RoomOf[c] = RoomOf[t]
    /\ call[t].todo # {} => Sends(t, call[t].event)
FrameInv == \A t \in Threads : FrameOK(t)

(* A connection that was not upgraded has no socket, and nothing to do with *)
(* the hub.                                                                 *)
UpgradedOK(c) ==
    /\ Phase(c) = "start" => conn[c] = "none"
    /\ Phase(c) \notin {"start", "ended"} => conn[c] # "none"
    /\ Registered(c) => conn[c] # "none"
    /\ \A t \in Threads : Due(t, c) => conn[c] # "none" /\ Phase(c) \notin Outside
UpgradedInv == \A c \in Clients : UpgradedOK(c)

(* What a connection's goroutine has given back in each phase.              *)
SettledOK(c) ==
    /\ done[c] => ctxDone[c] /\ conn[c] = "closed"
    /\ Phase(c) = "ended" /\ conn[c] # "none" => ctxDone[c]
    /\ ~panicked[c] /\ Phase(c) \in {"farewell", "finish", "ended"} => ~Registered(c)
    /\ ~panicked[c] /\ conn[c] # "none"
       /\ Phase(c) \in {"leave", "farewell", "finish", "ended"}
          => done[c] \/ (pc[c] = "closeDone" /\ call[c].target = c)
SettledInv == \A c \in Clients : SettledOK(c)

(* The last event of a thread is one it sent, and presence.state is queued  *)
(* once, when the connection is in the hub.                                 *)
GotOK(c) ==
    /\ \A t \in Threads :
          last[c][t] = NoEvent \/ (last[c][t].from = t /\ last[c][t].type # "none")
    /\ \A i \in 1 .. Len(send[c]) : send[c][i].type # "none"
    /\ Phase(c) \in Outside \/ conn[c] = "none" => Got(c) \subseteq {NoEvent}
    /\ Phase(c) \in Outside \cup {"presence"} => GotFrom(c, Main) = {}
    /\ Phase(c) = "announce" /\ c \in call[c].todo => GotFrom(c, Main) = {}
    /\ \A e, f \in GotFrom(c, Main) : e = f
GotInv == \A c \in Clients : GotOK(c)

(* c knows of d, or will: it has yet to read the presence list, is sending  *)
(* itself one that has d's user, or d has yet to announce itself or is      *)
(* sending its announcement to c.                                           *)
Active(c) == Registered(c) /\ Phase(c) \in {"presence", "announce", "serve", "read"}
Learns(c, d) ==
    \/ Knows(c, d)
    \/ Phase(c) = "presence"
    \/ Phase(c) = "announce" /\ Due(c, c) /\ UserOf[d] \in call[c].event.online
    \/ Phase(d) \in {"presence", "announce"}
    \/ Phase(d) = "serve" /\ Due(d, c)
Meet(c, d) == c # d /\ RoomOf[c] = RoomOf[d] /\ Active(c) /\ Active(d) /\ conn[c] = "open"
LearnInv == \A c, d \in Clients : Meet(c, d) => Learns(c, d)

(* The numbers c got of p's messages have no gap, and go up to the one p    *)
(* posted last, or to the one before if c is about to get that.             *)
UpTo(c, p, k) ==
    Numbers(c, p) # {} => k \in Numbers(c, p) /\ \A m \in Numbers(c, p) : m <= k
GapOK(c, p) ==
    /\ InOrder(c, p)
    /\ \A k, m \in Numbers(c, p) : k .. m \subseteq Numbers(c, p)
    /\ \A k \in Numbers(c, p) : k \in 1 .. posted[p]
    /\ Due(p, c) => UpTo(c, p, posted[p] - 1)
    /\ Registered(c) /\ ~Due(p, c) => UpTo(c, p, posted[p])
GapInv ==
    \A c \in Clients, p \in Posters : ~panicked[p] /\ conn[c] = "open" => GapOK(c, p)

StreamInv == /\ FrameInv /\ UpgradedInv /\ SettledInv /\ GotInv
             /\ EventsStayInRoom /\ LearnInv /\ GapInv

----------------------------------------------------------------------------
(* Steps of one thread *)

(* No other thread than t moves.                                            *)
Sole(t) == \A u \in Threads \ {t} : pc'[u] = pc[u] /\ call'[u] = call[u]

(* The others are due to whom they were, and in the phase they were.        *)
LEMMA SoleKeeps ==
    ASSUME NEW t \in Threads, Sole(t), NEW u \in Threads \ {t}
    PROVE  /\ Phase(u)' = Phase(u)
           /\ \A c \in Clients : Due(u, c)' <=> Due(u, c)
BY DEF Sole, Phase, Due

(* Where Resume leaves its thread.                                          *)
LEMMA ResumeAt ==
    ASSUME TypeOK, NEW t \in Threads, NEW f, Resume(t, f)
    PROVE  /\ Sole(t)
           /\ f.todo = {} => pc'[t] = f.ret /\ call'[t] = NoCall
           /\ f.todo # {} => /\ pc'[t] = IF t = Main THEN "closeAll" ELSE "send"
                             /\ call'[t] = f
BY DEF TypeOK, Resume, Sole

(* Entering a call, or going on with one.                                   *)
LEMMA StartAt ==
    ASSUME TypeOK, NEW t \in Threads \ {Main}, NEW f, Resume(t, f),
           f.ret \in OwnPcs(t), f.target = NoClient
    PROVE  /\ Sole(t)
           /\ Phase(t)' = f.ret
           /\ pc'[t] \in {f.ret, "send"}
           /\ call'[t].target = NoClient
           /\ call'[t].todo = f.todo
           /\ f.todo = {} => pc'[t] = f.ret /\ call'[t] = NoCall
           /\ f.todo # {} => pc'[t] = "send" /\ call'[t] = f
<1>1. NoCall.todo = {} /\ NoCall.target = NoClient
  BY DEF NoCall
<1>2. f.ret \notin CallPcs
  BY OwnPlaces
<1>3. /\ Sole(t)
      /\ f.todo = {} => pc'[t] = f.ret /\ call'[t] = NoCall
      /\ f.todo # {} => pc'[t] = "send" /\ call'[t] = f
  BY ResumeAt
<1>4. Phase(t)' = f.ret
  BY <1>2, <1>3 DEF Phase, CallPcs
<1> QED
  BY <1>1, <1>3, <1>4

(* What the select of close does: the client is torn down, or its thread is *)
(* about to close done.                                                     *)
LEMMA CloseSelectAt ==
    ASSUME TypeOK, NEW t \in Threads, NEW f \in Frame, CloseSelect(t, f),
           f.target \in Clients, f.ret \in OwnPcs(t)
    PROVE  /\ Sole(t)
           /\ Phase(t)' = f.ret
           /\ \/ /\ done[f.target]
                 /\ ctxDone' = [ctxDone EXCEPT ![f.target] = TRUE]
                 /\ conn' = [conn EXCEPT ![f.target] = "closed"]
                 /\ call'[t].todo = f.todo
                 /\ call'[t].target = NoClient
                 /\ f.todo = {} => pc'[t] = f.ret /\ call'[t] = NoCall
                 /\ f.todo # {} => /\ pc'[t] = IF t = Main THEN "closeAll" ELSE "send"
                                   /\ call'[t].event = f.event /\ call'[t].ret = f.ret
              \/ /\ ~done[f.target]
                 /\ ctxDone' = ctxDone /\ conn' = conn
                 /\ pc'[t] = "closeDone"
                 /\ call'[t] = f
<1> DEFINE g == [f EXCEPT !.target = NoClient]
<1>1. /\ g.todo = f.todo /\ g.ret = f.ret /\ g.event = f.event /\ g.target = NoClient
      /\ f.ret \notin CallPcs
  BY OwnPlaces DEF Frame
<1>2. NoCall.todo = {} /\ NoCall.target = NoClient
  BY DEF NoCall
<1> HIDE DEF g
<1>3. CASE done[f.target] /\ TearDown(t, f)
  <2>1. /\ Sole(t)
        /\ g.todo = {} => pc'[t] = g.ret /\ call'[t] = NoCall
        /\ g.todo # {} => /\ pc'[t] = IF t = Main THEN "closeAll" ELSE "send"
                          /\ call'[t] = g
    BY <1>3, ResumeAt DEF TearDown, g
  <2>2. Phase(t)' = f.ret
    BY <1>1, <2>1 DEF Phase, CallPcs
  <2> QED
    BY <1>1, <1>2, <1>3, <2>1, <2>2 DEF TearDown
<1>4. CASE ~done[f.target]
  <2>1. /\ pc' = [pc EXCEPT ![t] = "closeDone"] /\ call' = [call EXCEPT ![t] = f]
        /\ ctxDone' = ctxDone /\ conn' = conn
    BY <1>4 DEF CloseSelect
  <2>2. Sole(t) /\ pc'[t] = "closeDone" /\ call'[t] = f
    BY <2>1 DEF Sole, TypeOK
  <2> QED
    BY <1>4, <2>1, <2>2 DEF Phase, CallPcs
<1> QED
  BY <1>3, <1>4 DEF CloseSelect

----------------------------------------------------------------------------
(* What one thread's step leaves as it was *)

(* A connection whose queue and last events stay has got what it had.       *)
LEMMA OthersGot ==
    ASSUME NEW a \in Clients, send'[a] = send[a], last'[a] = last[a]
    PROVE  /\ Got(a)' = Got(a)
           /\ \A t \in Threads : GotFrom(a, t)' = GotFrom(a, t)
           /\ \A p \in Posters : Numbers(a, p)' = Numbers(a, p)
           /\ \A p \in Posters : InOrder(a, p)' <=> InOrder(a, p)
           /\ \A d \in Clients : Knows(a, d)' <=> Knows(a, d)
<1>1. Got(a)' = Got(a)
  BY DEF Got
<1>2. \A t : GotFrom(a, t)' = GotFrom(a, t)
  BY <1>1 DEF GotFrom
<1>3. \A p : Numbers(a, p)' = Numbers(a, p)
  BY <1>2 DEF Numbers
<1>4. \A p : InOrder(a, p)' <=> InOrder(a, p)
  BY DEF InOrder
<1>5. \A d : Knows(a, d)' <=> Knows(a, d)
  BY <1>2 DEF Knows
<1> QED
  BY <1>1, <1>2, <1>3, <1>4, <1>5

(* A step that touches no stream.                                           *)
LEMMA SameStreams ==
    ASSUME UNCHANGED <<send, last>>, NEW c \in Clients
    PROVE  /\ Got(c)' = Got(c)
           /\ \A t \in Threads : GotFrom(c, t)' = GotFrom(c, t)
           /\ \A p \in Posters : Numbers(c, p)' = Numbers(c, p)
           /\ \A p \in Posters : InOrder(c, p)' <=> InOrder(c, p)
           /\ \A d \in Clients : Knows(c, d)' <=> Knows(c, d)
<1>1. send'[c] = send[c] /\ last'[c] = last[c]
  OBVIOUS
<1> QED
  BY <1>1, OthersGot

LEMMA FrameByOne ==
    ASSUME FrameInv, NEW t \in Threads, Sole(t), FrameOK(t)',
           \A p \in Posters \ {t} : posted'[p] = posted[p]
    PROVE  FrameInv'
<1> SUFFICES ASSUME NEW u \in Threads \ {t} PROVE FrameOK(u)'
  BY DEF FrameInv
<1>1. pc'[u] = pc[u] /\ call'[u] = call[u] /\ Phase(u)' = Phase(u) /\ FrameOK(u)
  BY SoleKeeps DEF Sole, FrameInv
<1>2. u \in Posters => NewMessage(u, posted[u])' = NewMessage(u, posted[u])
  BY DEF NewMessage
<1> QED
  BY <1>1, <1>2 DEF FrameOK, Sends

LEMMA UpgradedByOne ==
    ASSUME UpgradedInv, NEW t \in Threads, Sole(t),
           \A c \in Clients : conn[c] # "none" => conn'[c] # "none",
           \A c \in Clients \ {t} : conn[c] = "none" => conn'[c] = "none",
           \A c \in Clients : Registered(c)' => Registered(c) \/ conn[c] # "none",
           \A c \in Clients : Due(t, c)' => conn'[c] # "none" /\ Phase(c)' \notin Outside,
           t \in Clients => /\ Phase(t)' \in Outside => Phase(t) \in Outside
                            /\ Phase(t)' = "start" => conn'[t] = "none"
                            /\ Phase(t)' \notin {"start", "ended"} => conn'[t] # "none"
    PROVE  UpgradedInv'
<1> SUFFICES ASSUME NEW c \in Clients PROVE UpgradedOK(c)'
  BY DEF UpgradedInv
<1>1. UpgradedOK(c) /\ c \in Threads
  BY ClientPlaces DEF UpgradedInv
<1>2. ASSUME NEW u \in Threads, Due(u, c)'
      PROVE  conn'[c] # "none" /\ Phase(c)' \notin Outside
  <2>1. CASE u = t
    BY <1>2, <2>1
  <2>2. CASE u # t
    <3>1. conn[c] # "none" /\ Phase(c) \notin Outside
      BY <1>1, <1>2, <2>2, SoleKeeps DEF UpgradedOK
    <3>2. Phase(c)' \notin Outside
      BY <1>1, <3>1, SoleKeeps
    <3> QED
      BY <3>1, <3>2
  <2> QED
    BY <2>1, <2>2
<1>3. /\ Phase(c)' = "start" => conn'[c] = "none"
      /\ Phase(c)' \notin {"start", "ended"} => conn'[c] # "none"
  <2>1. CASE c = t
    BY <2>1
  <2>2. CASE c # t
    BY <1>1, <2>2, SoleKeeps DEF UpgradedOK
  <2> QED
    BY <2>1, <2>2
<1>4. Registered(c)' => conn'[c] # "none"
  BY <1>1 DEF UpgradedOK
<1> QED
  BY <1>2, <1>3, <1>4 DEF UpgradedOK

LEMMA SettledByOne ==
    ASSUME SettledInv, NEW t \in Threads, Sole(t),
           \A c \in Clients \ {t} :
              /\ done[c] => done'[c]
              /\ done'[c] => ctxDone'[c] /\ conn'[c] = "closed"
              /\ ctxDone[c] => ctxDone'[c]
              /\ conn[c] = "none" => conn'[c] = "none"
              /\ panicked[c] => panicked'[c]
              /\ Registered(c)' => Registered(c),
           t \in Clients => SettledOK(t)'
    PROVE  SettledInv'
<1> SUFFICES ASSUME NEW c \in Clients \ {t} PROVE SettledOK(c)'
  BY DEF SettledInv
<1>1. SettledOK(c) /\ c \in Threads
  BY ClientPlaces DEF SettledInv
<1>2. pc'[c] = pc[c] /\ call'[c] = call[c] /\ Phase(c)' = Phase(c)
  BY <1>1, SoleKeeps DEF Sole
<1> QED
  BY <1>1, <1>2 DEF SettledOK

LEMMA GotByOne ==
    ASSUME GotInv, NEW t \in Threads, Sole(t), UNCHANGED <<send, last>>,
           \A c \in Clients \ {t} : conn'[c] = "none" => conn[c] = "none",
           t \in Clients => GotOK(t)'
    PROVE  GotInv'
<1> SUFFICES ASSUME NEW c \in Clients \ {t} PROVE GotOK(c)'
  BY DEF GotInv
<1>1. GotOK(c) /\ c \in Threads /\ Main \in Threads
  BY ClientPlaces DEF GotInv, Threads
<1>2. call'[c] = call[c] /\ Phase(c)' = Phase(c) /\ send' = send /\ last' = last
  BY <1>1, SoleKeeps DEF Sole
<1>3. Got(c)' = Got(c) /\ GotFrom(c, Main)' = GotFrom(c, Main)
  BY <1>1, SameStreams
<1> QED
  BY <1>1, <1>2, <1>3 DEF GotOK

LEMMA RoomsKept ==
    ASSUME EventsStayInRoom, UNCHANGED <<send, last>>
    PROVE  EventsStayInRoom'
BY SameStreams DEF EventsStayInRoom, Threads

LEMMA LearnByOne ==
    ASSUME LearnInv, NEW t \in Threads, Sole(t),
           \A c, d \in Clients : conn'[c] = "open" /\ Knows(c, d) => Knows(c, d)',
           \A c \in Clients \ {t} : Registered(c)' => Registered(c),
           \A c \in Clients \ {t} : conn'[c] = "open" => conn[c] = "open",
           \A d \in Clients \ {t} : t \in Clients =>
              (Meet(t, d)' => Learns(t, d)') /\ (Meet(d, t)' => Learns(d, t)')
    PROVE  LearnInv'
<1> SUFFICES ASSUME NEW c \in Clients, NEW d \in Clients, Meet(c, d)'
             PROVE  Learns(c, d)'
  BY DEF LearnInv
<1>1. c \in Threads /\ d \in Threads /\ c # d
  BY ClientPlaces DEF Meet
<1>2. CASE c = t \/ d = t
  BY <1>1, <1>2
<1>3. CASE c # t /\ d # t
  <2>1. /\ call'[c] = call[c]
        /\ Phase(c)' = Phase(c) /\ Phase(d)' = Phase(d)
        /\ Due(c, c)' <=> Due(c, c)
        /\ Due(d, c)' <=> Due(d, c)
    BY <1>1, <1>3, SoleKeeps DEF Sole
  <2>2. Meet(c, d)
    BY <1>3, <2>1 DEF Meet, Active
  <2>3. Learns(c, d)
    BY <2>2 DEF LearnInv
  <2>4. Knows(c, d) => Knows(c, d)'
    BY DEF Meet
  <2> QED
    BY <2>1, <2>3, <2>4 DEF Learns
<1> QED
  BY <1>2, <1>3

(* The numbers c got of p's messages, when neither p nor c's stream moves.  *)
LEMMA GapSame ==
    ASSUME NEW c \in Clients, NEW p \in Posters, GapOK(c, p),
           Numbers(c, p)' = Numbers(c, p), InOrder(c, p) => InOrder(c, p)',
           posted'[p] = posted[p], Due(p, c)' <=> Due(p, c),
           Registered(c)' => Registered(c)
    PROVE  GapOK(c, p)'
BY DEF GapOK, UpTo

LEMMA GapByOne ==
    ASSUME GapInv, NEW t \in Threads, Sole(t),
           \A p \in Posters \ {t} :
              posted'[p] = posted[p] /\ (panicked[p] => panicked'[p]),
           \A c \in Clients, p \in Posters \ {t} : conn'[c] = "open" =>
              /\ conn[c] = "open"
              /\ Numbers(c, p)' = Numbers(c, p)
              /\ InOrder(c, p) => InOrder(c, p)'
              /\ Registered(c)' => Registered(c),
           t \in Posters =>
              \A c \in Clients : ~panicked'[t] /\ conn'[c] = "open" => GapOK(c, t)'
    PROVE  GapInv'
<1> SUFFICES ASSUME NEW c \in Clients, NEW p \in Posters, ~panicked'[p], conn'[c] = "open"
             PROVE  GapOK(c, p)'
  BY DEF GapInv
<1>1. CASE p = t
  BY <1>1
<1>2. CASE p # t
  <2>1. p \in Threads \ {t}
    BY <1>2 DEF Threads
  <2>2. Due(p, c)' <=> Due(p, c)
    BY <2>1, SoleKeeps
  <2>3. GapOK(c, p)
    BY <1>2 DEF GapInv
  <2> QED
    BY <1>2, <2>2, <2>3, GapSame
<1> QED
  BY <1>1, <1>2

----------------------------------------------------------------------------
(* The steps of a connection's own goroutine *)

(* A connection's step of its own touches no stream and no other connection. *)
LEMMA ClientStep ==
    ASSUME StreamInv, NEW c \in Clients, Sole(c),
           UNCHANGED <<send, last, panicked, posted, done>>,
           \A d \in Clients \ {c} : /\ conn'[d] = conn[d] /\ ctxDone'[d] = ctxDone[d]
                                    /\ Registered(d)' <=> Registered(d),
           conn[c] # "none" => conn'[c] # "none",
           Registered(c)' => Registered(c) \/ conn[c] # "none",
           Phase(c)' = "start" => conn'[c] = "none",
           Phase(c)' \notin {"start", "ended"} => conn'[c] # "none",
           Phase(c)' \in Outside => Phase(c) \in Outside,
           \A d \in Clients : Due(c, d)' => conn'[d] # "none" /\ Phase(d)' \notin Outside,
           FrameOK(c)', SettledOK(c)', GotOK(c)',
           \A d \in Clients \ {c} :
              (Meet(c, d)' => Learns(c, d)') /\ (Meet(d, c)' => Learns(d, c)'),
           \A p \in Posters : ~panicked[p] /\ conn'[c] = "open" => GapOK(c, p)'
    PROVE  StreamInv'
<1>1. /\ c \in Threads /\ send' = send /\ last' = last
      /\ panicked' = panicked /\ posted' = posted /\ done' = done
  BY ClientPlaces
<1>2. /\ FrameInv /\ UpgradedInv /\ SettledInv /\ GotInv
      /\ EventsStayInRoom /\ LearnInv /\ GapInv
  BY DEF StreamInv
<1>3. FrameInv'
  BY <1>1, <1>2, FrameByOne
<1>4. UpgradedInv'
  BY <1>1, <1>2, UpgradedByOne
<1>5. SettledInv'
  BY <1>1, <1>2, SettledByOne DEF SettledInv, SettledOK
<1>6. GotInv'
  BY <1>1, <1>2, GotByOne
<1>7. EventsStayInRoom'
  BY <1>1, <1>2, RoomsKept
<1>8. LearnInv'
  <2>1. \A a, b \in Clients : Knows(a, b) => Knows(a, b)'
    BY <1>1, SameStreams
  <2>2. \A d \in Clients \ {c} : conn'[d] = "open" => conn[d] = "open"
    OBVIOUS
  <2> QED
    BY <1>1, <1>2, <2>1, <2>2, LearnByOne
<1>9. GapInv'
  <2> SUFFICES ASSUME NEW d \in Clients \ {c}, NEW p \in Posters,
                      ~panicked[p], conn'[d] = "open"
               PROVE  GapOK(d, p)'
    BY <1>1 DEF GapInv
  <2>1. p \in Threads \ {c}
    BY ThreadsAssumption DEF Threads
  <2>2. Due(p, d)' <=> Due(p, d)
    BY <1>1, <2>1, SoleKeeps
  <2>3. GapOK(d, p)
    BY <1>2 DEF GapInv
  <2>4. Numbers(d, p)' = Numbers(d, p) /\ (InOrder(d, p)' <=> InOrder(d, p))
    BY <1>1, SameStreams
  <2> QED
    BY <1>1, <2>2, <2>3, <2>4, GapSame
<1> QED
  BY <1>3, <1>4, <1>5, <1>6, <1>7, <1>8, <1>9 DEF StreamInv

(* Once upgraded, it neither opens a socket nor, past Join, registers.      *)
LEMMA RunStep ==
    ASSUME StreamInv, NEW c \in Clients, Sole(c),
           UNCHANGED <<send, last, panicked, posted, done>>,
           \A d \in Clients \ {c} : /\ conn'[d] = conn[d] /\ ctxDone'[d] = ctxDone[d]
                                    /\ Registered(d)' <=> Registered(d),
           conn[c] # "none", conn'[c] \in {conn[c], "closed"},
           Registered(c)' => Registered(c),
           Phase(c)' \notin Outside,
           \A d \in Clients : Due(c, d)' => conn[d] # "none" /\ Phase(d)' \notin Outside,
           FrameOK(c)', SettledOK(c)', GotOK(c)',
           \A d \in Clients \ {c} :
              (Meet(c, d)' => Learns(c, d)') /\ (Meet(d, c)' => Learns(d, c)')
    PROVE  StreamInv'
<1>1. /\ \A d \in Clients : conn[d] # "none" => conn'[d] # "none"
      /\ Phase(c)' # "start"
  BY DEF Outside
<1>2. ASSUME NEW p \in Posters, ~panicked[p], conn'[c] = "open" PROVE GapOK(c, p)'
  <2>1. c \in Threads /\ p \in Threads \ {c} /\ send' = send /\ last' = last
        /\ posted' = posted
    BY ClientPlaces, ThreadsAssumption DEF Threads
  <2>2. Due(p, c)' <=> Due(p, c)
    BY <2>1, SoleKeeps
  <2>3. GapOK(c, p)
    BY <1>2 DEF GapInv, StreamInv
  <2>4. Numbers(c, p)' = Numbers(c, p) /\ (InOrder(c, p)' <=> InOrder(c, p))
    BY <2>1, SameStreams
  <2> QED
    BY <2>1, <2>2, <2>3, <2>4, GapSame
<1> QED
  BY <1>1, <1>2, ClientStep

(* A connection outside the hub has got nothing.                            *)
LEMMA NothingGot ==
    ASSUME TypeOK, NEW c \in Clients, GotOK(c), Got(c) \subseteq {NoEvent},
           UNCHANGED <<send, last>>
    PROVE  /\ \A t \in Threads : GotFrom(c, t) = {}
           /\ \A p \in Posters : GapOK(c, p)'
<1>1. NoEvent.type = "none"
  BY DEF NoEvent, Ev
<1>2. \A t : GotFrom(c, t) = {}
  BY <1>1 DEF GotFrom
<1>3. ASSUME NEW i \in 1 .. Len(send[c]) PROVE FALSE
  <2>1. send[c][i] \in Got(c) /\ send[c][i].type # "none"
    BY DEF GotOK, Got
  <2> QED
    BY <1>1, <2>1
<1>4. ASSUME NEW p \in Posters PROVE GapOK(c, p)'
  <2>1. Numbers(c, p)' = {}
    BY <1>2, SameStreams DEF Numbers, Threads
  <2>2. InOrder(c, p)'
    BY <1>3 DEF InOrder
  <2> QED
    BY <2>1, <2>2 DEF GapOK, UpTo
<1> QED
  BY <1>2, <1>4

(* A connection in its own code is in no call.                              *)
LEMMA OutOfCall ==
    ASSUME StreamInv, NEW c \in Clients, pc[c] \in RunPcs
    PROVE  /\ c \in Threads /\ Phase(c) = pc[c] /\ call[c] = NoCall
           /\ \A d \in Clients : ~Due(c, d)
<1>1. c \in Threads /\ Phase(c) = pc[c] /\ pc[c] \notin CallPcs
  BY ClientPlaces, OwnPhase, OwnPlaces
<1>2. call[c] = NoCall
  BY <1>1 DEF StreamInv, FrameInv, FrameOK
<1> QED
  BY <1>1, <1>2 DEF Due, NoCall, CallPcs

LEMMA UpgradeStream ==
    ASSUME IInv, StreamInv, NEW c \in Clients, Upgrade(c)
    PROVE  StreamInv'
<1>1. TypeOK /\ HubInv /\ UpgradedOK(c) /\ SettledOK(c) /\ GotOK(c)
  BY DEF IInv, StreamInv, UpgradedInv, SettledInv, GotInv
<1>2. PICK q \in {"join", "ended"} : /\ pc' = [pc EXCEPT ![c] = q]
                                     /\ q = "join" => conn' = [conn EXCEPT ![c] = "open"]
                                     /\ q = "ended" => conn' = conn
  BY DEF Upgrade
<1>3. /\ c \in Threads /\ Phase(c) = "start" /\ call[c] = NoCall
      /\ \A d \in Clients : ~Due(c, d)
  BY OutOfCall DEF Upgrade, RunPcs
<1>4. UNCHANGED <<rooms, send, last, panicked, posted, done, ctxDone, call>>
  BY DEF Upgrade, hubVars, histVars, pumpVars
<1>5. pc'[c] = q /\ call'[c] = NoCall /\ Sole(c)
  BY <1>1, <1>2, <1>3, <1>4 DEF TypeOK, Sole
<1>6. Phase(c)' = q /\ \A d \in Clients : ~Due(c, d)'
  BY <1>5 DEF Phase, CallPcs, Due, NoCall
<1>7. ~Registered(c) /\ conn[c] = "none" /\ \A d \in Clients : Registered(d)' <=> Registered(d)
  BY <1>1, <1>3, <1>4 DEF HubInv, JoinToLeave, Outside, Registered, UpgradedOK
<1>8. /\ q = "join" => conn'[c] = "open"
      /\ q = "ended" => conn'[c] = "none"
      /\ \A d \in Clients \ {c} : conn'[d] = conn[d] /\ ctxDone'[d] = ctxDone[d]
  BY <1>1, <1>2, <1>4, <1>7 DEF TypeOK
<1>9. FrameOK(c)'
  BY <1>5 DEF FrameOK, NoCall, CallPcs
<1>10. SettledOK(c)'
  BY <1>1, <1>4, <1>6, <1>7, <1>8 DEF SettledOK
<1>11. Got(c) \subseteq {NoEvent}
  BY <1>1, <1>3 DEF GotOK, Outside
<1>12. (\A t \in Threads : GotFrom(c, t) = {}) /\ \A p \in Posters : GapOK(c, p)'
  BY <1>1, <1>4, <1>11, NothingGot
<1>13. GotOK(c)'
  <2>1. Main \in Threads
    BY DEF Threads
  <2>2. Got(c)' = Got(c) /\ GotFrom(c, Main)' = {}
    BY <1>4, <1>12, <2>1, SameStreams
  <2> QED
    BY <1>1, <1>4, <1>11, <2>2 DEF GotOK
<1>14. \A d \in Clients : ~Meet(c, d)' /\ ~Meet(d, c)'
  BY <1>6 DEF Meet, Active
<1> QED
  BY <1>3, <1>4, <1>5, <1>6, <1>7, <1>8, <1>9, <1>10, <1>12, <1>13, <1>14, ClientStep
     DEF Outside

LEMMA JoinAdmitStream ==
    ASSUME IInv, StreamInv, NEW c \in Clients, Join(c), JoinAdmit(c)
    PROVE  StreamInv'
<1>1. TypeOK /\ HubInv /\ UpgradedOK(c) /\ SettledOK(c) /\ GotOK(c)
  BY DEF IInv, StreamInv, UpgradedInv, SettledInv, GotInv
<1>2. /\ c \in Threads /\ Phase(c) = "join" /\ call[c] = NoCall
      /\ \A d \in Clients : ~Due(c, d)
  BY OutOfCall DEF Join, RunPcs
<1>3. UNCHANGED <<send, last, panicked, posted, done, ctxDone, conn, call>>
  BY DEF Join, JoinAdmit, histVars, pumpVars
<1>4. pc'[c] = "presence" /\ call'[c] = NoCall /\ Sole(c)
  BY <1>1, <1>2, <1>3 DEF TypeOK, Sole, JoinAdmit
<1>5. Phase(c)' = "presence" /\ \A d \in Clients : ~Due(c, d)'
  BY <1>4 DEF Phase, CallPcs, Due, NoCall
<1>6. conn[c] # "none"
  BY <1>1, <1>2 DEF UpgradedOK
<1>7. \A d \in Clients \ {c} : Registered(d)' <=> Registered(d)
  BY <1>1, PlacementAssumption DEF TypeOK, JoinAdmit, Registered
<1>8. FrameOK(c)'
  BY <1>4 DEF FrameOK, NoCall, CallPcs
<1>9. SettledOK(c)'
  BY <1>1, <1>3, <1>5 DEF SettledOK
<1>10. Got(c) \subseteq {NoEvent}
  BY <1>1, <1>2 DEF GotOK, Outside
<1>11. (\A t \in Threads : GotFrom(c, t) = {}) /\ \A p \in Posters : GapOK(c, p)'
  BY <1>1, <1>3, <1>10, NothingGot
<1>12. GotOK(c)'
  <2>1. Main \in Threads
    BY DEF Threads
  <2>2. Got(c)' = Got(c) /\ GotFrom(c, Main)' = {}
    BY <1>3, <1>11, <2>1, SameStreams
  <2> QED
    BY <1>1, <1>3, <1>10, <2>2 DEF GotOK
<1>13. \A d \in Clients : Learns(c, d)' /\ Learns(d, c)'
  BY <1>5 DEF Learns
<1> QED
  BY <1>3, <1>4, <1>5, <1>6, <1>7, <1>8, <1>9, <1>11, <1>12, <1>13, ClientStep DEF Outside

(* A connection refused by Join, or whose read failed, closes itself.       *)
LEMMA CloseItselfStream ==
    ASSUME IInv, StreamInv, NEW c \in Clients, NEW r \in {"leave", "finish"},
           pc[c] \in {"join", "read"}, r = "finish" => pc[c] = "join",
           CloseItself(c, r), UNCHANGED <<rooms, send, last, panicked, posted, done>>
    PROVE  StreamInv'
<1>1. TypeOK /\ HubInv /\ UpgradedOK(c) /\ SettledOK(c) /\ GotOK(c)
  BY DEF IInv, StreamInv, UpgradedInv, SettledInv, GotInv
<1>2. c \in Threads /\ Phase(c) = pc[c] /\ r \in OwnPcs(c) /\ c \notin Posters
  BY OutOfCall, ClientPlaces, ThreadsAssumption DEF RunPcs
<1> DEFINE f == [NoCall EXCEPT !.target = c, !.ret = r]
<1>3. f \in Frame /\ f.ret = r /\ f.target = c /\ f.todo = {}
  BY <1>2, CloseFrame, OwnPlaces
<1>4. CloseSelect(c, f)
  BY DEF CloseItself
<1> HIDE DEF f
<1>5. /\ Sole(c) /\ Phase(c)' = r /\ call'[c].todo = {}
      /\ \/ /\ ctxDone' = [ctxDone EXCEPT ![c] = TRUE]
            /\ conn' = [conn EXCEPT ![c] = "closed"]
            /\ call'[c] = NoCall /\ pc'[c] = r /\ done[c]
         \/ /\ ctxDone' = ctxDone /\ conn' = conn /\ ~done[c]
            /\ pc'[c] = "closeDone" /\ call'[c].target = c
  BY <1>1, <1>2, <1>3, <1>4, CloseSelectAt
<1>6. conn[c] # "none" /\ conn'[c] \in {conn[c], "closed"}
  BY <1>1, <1>2, <1>5 DEF UpgradedOK, TypeOK
<1>7. \A d \in Clients \ {c} : conn'[d] = conn[d] /\ ctxDone'[d] = ctxDone[d]
  BY <1>1, <1>5 DEF TypeOK
<1>8. \A d \in Clients : Registered(d)' <=> Registered(d)
  BY DEF Registered
<1>9. /\ Phase(c)' \notin Outside
      /\ \A d \in Clients : Due(c, d)' => conn[d] # "none" /\ Phase(d)' \notin Outside
  BY <1>5, <1>6 DEF Due, NoCall, Outside
<1>10. FrameOK(c)'
  BY <1>2, <1>5 DEF FrameOK, CallPcs
<1>11. SettledOK(c)'
  <2>1. done'[c] => ctxDone'[c] /\ conn'[c] = "closed"
    BY <1>1, <1>5 DEF SettledOK, TypeOK
  <2>2. r = "finish" => ~Registered(c)'
    BY <1>1, <1>2, <1>8 DEF HubInv, JoinToLeave, Outside
  <2>3. done'[c] \/ (pc'[c] = "closeDone" /\ call'[c].target = c)
    BY <1>5
  <2> QED
    BY <1>5, <2>1, <2>2, <2>3 DEF SettledOK
<1>12. GotOK(c)'
  BY <1>1, <1>5, <1>6, SameStreams DEF GotOK, Outside, Threads
<1>13. \A d \in Clients : ~Meet(c, d)' /\ ~Meet(d, c)'
  BY <1>5 DEF Meet, Active
<1> QED
  BY <1>5, <1>6, <1>7, <1>8, <1>9, <1>10, <1>11, <1>12, <1>13, RunStep

LEMMA JoinStream ==
    ASSUME IInv, StreamInv, NEW c \in Clients, Join(c)
    PROVE  StreamInv'
<1>1. CASE JoinAdmit(c)
  BY <1>1, JoinAdmitStream
<1>2. CASE JoinRefuse(c)
  BY <1>2, CloseItselfStream DEF Join, JoinRefuse, hubVars, histVars, pumpVars
<1> QED
  BY <1>1, <1>2 DEF Join

LEMMA ReadErrorStream ==
    ASSUME IInv, StreamInv, NEW c \in Clients, ReadError(c)
    PROVE  StreamInv'
BY CloseItselfStream DEF ReadError, hubVars, histVars, pumpVars

(* A step of a connection between calls, in its own code.                   *)
LEMMA OwnStream ==
    ASSUME IInv, StreamInv, NEW c \in Clients, NEW q \in {"read", "farewell", "ended"},
           pc[c] \in {"serve", "leave", "finish"},
           q = "read" <=> pc[c] = "serve",
           pc' = [pc EXCEPT ![c] = q],
           UNCHANGED <<call, send, last, panicked, posted, done, conn>>,
           ctxDone' \in {ctxDone, [ctxDone EXCEPT ![c] = TRUE]},
           q = "ended" => pc[c] = "finish" /\ ctxDone'[c],
           q = "farewell" => ~Registered(c)',
           Registered(c)' => Registered(c),
           \A d \in Clients \ {c} : Registered(d)' <=> Registered(d)
    PROVE  StreamInv'
<1>1. TypeOK /\ UpgradedOK(c) /\ SettledOK(c) /\ GotOK(c) /\ LearnInv
  BY DEF IInv, StreamInv, UpgradedInv, SettledInv, GotInv
<1>2. /\ c \in Threads /\ Phase(c) = pc[c] /\ call[c] = NoCall
      /\ \A d \in Clients : ~Due(c, d)
  BY OutOfCall DEF RunPcs
<1>3. pc'[c] = q /\ call'[c] = NoCall /\ Sole(c)
  BY <1>1, <1>2 DEF TypeOK, Sole
<1>4. Phase(c)' = q /\ \A d \in Clients : ~Due(c, d)'
  BY <1>3 DEF Phase, CallPcs, Due, NoCall
<1>5. conn[c] # "none" /\ conn' = conn
  BY <1>1, <1>2 DEF UpgradedOK
<1>6. \A d \in Clients : ctxDone[d] => ctxDone'[d]
  BY <1>1 DEF TypeOK
<1>7. \A d \in Clients \ {c} : ctxDone'[d] = ctxDone[d]
  BY <1>1 DEF TypeOK
<1>8. FrameOK(c)'
  BY <1>3 DEF FrameOK, NoCall, CallPcs
<1>9. SettledOK(c)'
  BY <1>1, <1>2, <1>4, <1>5, <1>6 DEF SettledOK
<1>10. GotOK(c)'
  BY <1>1, <1>4, SameStreams DEF GotOK, Outside, Threads
<1>11. ASSUME NEW d \in Clients \ {c}
       PROVE  (Meet(c, d)' => Learns(c, d)') /\ (Meet(d, c)' => Learns(d, c)')
  <2>1. CASE q # "read"
    BY <1>4, <2>1 DEF Meet, Active
  <2>2. CASE q = "read"
    <3>1. d \in Threads \ {c} /\ Phase(c) = "serve"
      BY <1>2, <2>2, ClientPlaces
    <3>2. Phase(d)' = Phase(d) /\ call'[d] = call[d]
          /\ (Due(d, c)' <=> Due(d, c)) /\ (Due(d, d)' <=> Due(d, d))
      BY <1>2, <1>3, <3>1, SoleKeeps DEF Sole
    <3>3. /\ Knows(c, d)' <=> Knows(c, d)
          /\ Knows(d, c)' <=> Knows(d, c)
      BY SameStreams
    <3>4. (Meet(c, d)' => Meet(c, d)) /\ (Meet(d, c)' => Meet(d, c))
      BY <1>5, <3>1, <3>2 DEF Meet, Active
    <3>5. (Meet(c, d) => Learns(c, d)) /\ (Meet(d, c) => Learns(d, c))
      BY <1>1 DEF LearnInv
    <3> QED
      BY <1>2, <3>1, <3>2, <3>3, <3>4, <3>5 DEF Learns
  <2> QED
    BY <2>1, <2>2
<1> QED
  BY <1>3, <1>4, <1>5, <1>7, <1>8, <1>9, <1>10, <1>11, RunStep DEF Outside

LEMMA ServeStream ==
    ASSUME IInv, StreamInv, NEW c \in Clients, Serve(c)
    PROVE  StreamInv'
<1>1. \A d \in Clients : Registered(d)' <=> Registered(d)
  BY DEF Serve, hubVars, Registered
<1> QED
  BY <1>1, OwnStream DEF Serve, histVars

LEMMA LeaveStream ==
    ASSUME IInv, StreamInv, NEW c \in Clients, Leave(c)
    PROVE  StreamInv'
<1>1. ~Registered(c)' /\ \A d \in Clients \ {c} : Registered(d)' <=> Registered(d)
  <2>1. rooms \in [Rooms -> SUBSET Clients] /\ \A d \in Clients : RoomOf[d] \in Rooms
    BY PlacementAssumption DEF IInv, TypeOK
  <2>2. rooms' \in {rooms, [rooms EXCEPT ![RoomOf[c]] = rooms[RoomOf[c]] \ {c}]}
        /\ (rooms' = rooms => rooms[RoomOf[c]] = {} \/ c \notin rooms[RoomOf[c]])
    <3>1. CASE rooms[RoomOf[c]] = {}
      BY <3>1 DEF Leave
    <3>2. CASE rooms[RoomOf[c]] # {}
      BY <2>1, <3>2 DEF Leave
    <3> QED
      BY <3>1, <3>2
  <2> QED
    BY <2>1, <2>2 DEF Registered
<1> QED
  BY <1>1, OwnStream DEF Leave, histVars, pumpVars

LEMMA FinishStream ==
    ASSUME IInv, StreamInv, NEW c \in Clients, Finish(c)
    PROVE  StreamInv'
<1>1. \A d \in Clients : Registered(d)' <=> Registered(d)
  BY DEF Finish, hubVars, Registered
<1>2. ctxDone'[c]
  BY DEF Finish, IInv, TypeOK
<1> QED
  BY <1>1, <1>2, OwnStream DEF Finish, histVars, pumpVars

(* A connection sends itself the presence list, or broadcasts to its room.  *)
LEMMA CallStream ==
    ASSUME IInv, StreamInv, NEW c \in Clients, NEW e \in Event, NEW S \in SUBSET Clients,
           NEW r \in {"announce", "serve", "read", "finish"},
           Resume(c, [NoCall EXCEPT !.event = e, !.todo = S, !.ret = r]),
           UNCHANGED <<rooms, send, last, panicked, posted, done, ctxDone, conn>>,
           \/ /\ pc[c] = "presence" /\ r = "announce"
              /\ S = {c} /\ e = NewPresenceState(Presence(RoomOf[c]))
           \/ /\ S = rooms[RoomOf[c]] /\ e.type # "none" /\ e.from = c
              /\ <<pc[c], r>> \in {<<"announce", "serve">>, <<"read", "read">>,
                                   <<"farewell", "finish">>}
    PROVE  StreamInv'
<1>1. /\ TypeOK /\ HubInv /\ UpgradedInv /\ LearnInv
      /\ UpgradedOK(c) /\ SettledOK(c) /\ GotOK(c)
  BY DEF IInv, StreamInv, UpgradedInv, SettledInv, GotInv
<1>2. /\ c \in Threads \ {Main} /\ c \notin Posters /\ r \in OwnPcs(c) /\ r \notin CallPcs
      /\ Phase(c) = pc[c] /\ pc[c] \in RunPcs
      /\ \A d \in Clients : ~Due(c, d)
  BY OutOfCall, ClientPlaces, ThreadsAssumption DEF RunPcs, CallPcs
<1>3. /\ Sole(c) /\ Phase(c)' = r /\ pc'[c] \in {r, "send"}
      /\ call'[c].target = NoClient /\ call'[c].todo = S
      /\ S = {} => pc'[c] = r /\ call'[c] = NoCall
      /\ S # {} => pc'[c] = "send" /\ call'[c].event = e /\ call'[c].ret = r
  <2>1. c \in Threads \ {Main} /\ r \in OwnPcs(c) /\ TypeOK
    BY <1>1, <1>2
  <2> DEFINE f == [NoCall EXCEPT !.event = e, !.todo = S, !.ret = r]
  <2>2. Resume(c, f)
    OBVIOUS
  <2>3. f.event = e /\ f.todo = S /\ f.ret = r /\ f.target = NoClient
    BY DEF NoCall
  <2> HIDE DEF f
  <2> QED
    BY <2>1, <2>2, <2>3, StartAt
<1>4. conn[c] # "none" /\ pc'[c] # "closeDone" /\ r # "start"
  BY <1>1, <1>2, <1>3 DEF UpgradedOK
<1>5. \A d \in Clients : Registered(d)' <=> Registered(d)
  BY DEF Registered
<1>6. \A d \in S : RoomOf[d] = RoomOf[c] /\ conn[d] # "none"
  <2>1. CASE S = {c}
    BY <1>4, <2>1
  <2>2. CASE S = rooms[RoomOf[c]]
    <3>1. RoomOf[c] \in Rooms
      BY PlacementAssumption
    <3>2. \A d \in S : RoomOf[d] = RoomOf[c]
      BY <1>1, <2>2, <3>1 DEF HubInv, RoomsApart
    <3>3. \A d \in S : Registered(d)
      BY <2>2, <3>2 DEF Registered
    <3> QED
      BY <1>1, <3>2, <3>3 DEF UpgradedInv, UpgradedOK
  <2> QED
    BY <2>1, <2>2
<1>7. /\ r \notin Outside
      /\ \A d \in Clients : Due(c, d)' => d \in S /\ Phase(d)' \notin Outside
  <2>1. r \notin Outside
    BY DEF Outside
  <2> SUFFICES ASSUME NEW d \in Clients, Due(c, d)'
               PROVE  d \in S /\ Phase(d)' \notin Outside
    BY <2>1
  <2>2. d \in S
    BY <1>3, <1>4 DEF Due
  <2>3. CASE d = c
    BY <1>3, <2>1, <2>2, <2>3
  <2>4. CASE d # c
    <3>1. Registered(d)
      BY <1>6, <2>2, <2>4 DEF Registered
    <3>2. Phase(d) \notin Outside
      BY <1>1, <3>1 DEF HubInv, JoinToLeave
    <3>3. d \in Threads \ {c} /\ c \in Threads /\ Sole(c)
      BY <1>2, <1>3, <2>4, ClientPlaces
    <3>4. Phase(d)' = Phase(d)
      BY <3>3, SoleKeeps
    <3> QED
      BY <2>2, <3>2, <3>4
  <2> QED
    BY <2>3, <2>4
<1>8. FrameOK(c)'
  <2>1. S # {} => Sends(c, call[c].event)'
    <3>1. CASE r = "announce"
      <4>1. e.type = "presence.state" /\ e.from = Main /\ S = {c}
        BY <3>1 DEF NewPresenceState, Ev
      <4> QED
        BY <1>2, <1>3, <3>1, <4>1 DEF Sends
    <3>2. CASE r # "announce"
      BY <1>2, <1>3, <3>2 DEF Sends
    <3> QED
      BY <3>1, <3>2
  <2>2. pc'[c] \notin CallPcs => call'[c] = NoCall
    BY <1>3 DEF CallPcs
  <2> QED
    BY <1>2, <1>3, <1>6, <2>1, <2>2 DEF FrameOK
<1>9. SettledOK(c)'
  BY <1>1, <1>2, <1>3, <1>5 DEF SettledOK
<1>10. GotOK(c)'
  <2>1. Main \in Threads /\ r \notin Outside \cup {"presence"}
    BY DEF Threads, Outside
  <2>2. r = "announce" => GotFrom(c, Main) = {}
    BY <1>1, <1>2 DEF GotOK
  <2> QED
    BY <1>1, <1>3, <2>1, <2>2, SameStreams DEF GotOK
<1>11. ASSUME NEW d \in Clients \ {c}
       PROVE  (Meet(c, d)' => Learns(c, d)') /\ (Meet(d, c)' => Learns(d, c)')
  <2>1. d \in Threads \ {c}
    BY ClientPlaces
  <2>2. Phase(d)' = Phase(d) /\ call'[d] = call[d]
        /\ (Due(d, c)' <=> Due(d, c)) /\ (Due(d, d)' <=> Due(d, d))
    <3>1. Sole(c) /\ c \in Threads
      BY <1>2, <1>3
    <3>2. pc'[d] = pc[d] /\ call'[d] = call[d]
      BY <2>1, <3>1 DEF Sole
    <3> QED
      BY <3>2 DEF Phase, Due
  <2>3. (Knows(c, d)' <=> Knows(c, d)) /\ (Knows(d, c)' <=> Knows(d, c))
    BY SameStreams
  <2>4. CASE r = "announce"
    <3>1. e.online = {UserOf[a] : a \in rooms[RoomOf[c]]} /\ S = {c}
      BY <2>4 DEF NewPresenceState, Ev, Presence
    <3>2. Due(c, c)' /\ call'[c].event = e
      BY <1>3, <3>1 DEF Due
    <3>3. Meet(c, d)' => UserOf[d] \in e.online
      BY <1>5, <3>1 DEF Meet, Active, Registered
    <3> QED
      BY <1>3, <2>4, <3>2, <3>3 DEF Learns
  <2>5. CASE pc[c] = "announce"
    <3>1. r = "serve" /\ S = rooms[RoomOf[c]]
      BY <2>5
    <3>2. Meet(d, c)' => Due(c, d)'
      BY <1>3, <1>5, <3>1 DEF Meet, Active, Registered, Due
    <3>3. Meet(c, d)' => Meet(c, d)
      BY <1>2, <1>3, <1>5, <2>2, <2>5, <3>1 DEF Meet, Active
    <3>4. Meet(c, d) => Learns(c, d)
      BY <1>1 DEF LearnInv
    <3> QED
      BY <1>2, <1>3, <2>2, <2>3, <2>5, <3>1, <3>2, <3>3, <3>4 DEF Learns
  <2>6. CASE r = "read"
    <3>1. Phase(c) = "read"
      BY <1>2, <2>6
    <3>2. (Meet(c, d)' => Meet(c, d)) /\ (Meet(d, c)' => Meet(d, c))
      BY <1>3, <1>5, <2>2, <2>6, <3>1 DEF Meet, Active
    <3>3. (Meet(c, d) => Learns(c, d)) /\ (Meet(d, c) => Learns(d, c))
      BY <1>1 DEF LearnInv
    <3> QED
      BY <2>2, <2>3, <3>1, <3>2, <3>3 DEF Learns
  <2>7. CASE r = "finish"
    BY <1>3, <2>7 DEF Meet, Active
  <2> QED
    BY <2>4, <2>5, <2>6, <2>7
<1> QED
  BY <1>3, <1>4, <1>5, <1>6, <1>7, <1>8, <1>9, <1>10, <1>11, RunStep

(* The event of a connection's own broadcast.                               *)
LEMMA OwnEvent ==
    ASSUME NEW c \in Clients,
           NEW k \in {"presence.join", "presence.leave", "typing"}
    PROVE  Ev(k, c) \in Event /\ Ev(k, c).type = k /\ Ev(k, c).from = c
BY ClientPlaces, EventType DEF Ev, EventTypes

LEMMA RoomClients ==
    ASSUME TypeOK, NEW t \in Clients \cup Posters
    PROVE  rooms[RoomOf[t]] \in SUBSET Clients
BY PlacementAssumption DEF TypeOK

LEMMA SendPresenceStream ==
    ASSUME IInv, StreamInv, NEW c \in Clients, SendPresence(c)
    PROVE  StreamInv'
<1>1. NewPresenceState(Presence(RoomOf[c])) \in Event
  <2>1. Presence(RoomOf[c]) \in SUBSET Users
    BY RoomClients, PlacementAssumption DEF IInv, Presence
  <2>2. "presence.state" \in EventTypes /\ Main \in Threads
    BY DEF EventTypes, Threads
  <2> HIDE DEF Presence
  <2> QED
    BY <2>1, <2>2, EventType DEF NewPresenceState, Ev
<1> QED
  BY <1>1, CallStream DEF SendPresence, hubVars, histVars, pumpVars

LEMMA AnnounceStream ==
    ASSUME IInv, StreamInv, NEW c \in Clients, Announce(c)
    PROVE  StreamInv'
BY OwnEvent, RoomClients, CallStream
   DEF Announce, Broadcast, IInv, hubVars, histVars, pumpVars

LEMMA TypingStream ==
    ASSUME IInv, StreamInv, NEW c \in Clients, Typing(c)
    PROVE  StreamInv'
BY OwnEvent, RoomClients, CallStream
   DEF Typing, Broadcast, IInv, hubVars, histVars, pumpVars

LEMMA FarewellStream ==
    ASSUME IInv, StreamInv, NEW c \in Clients, Farewell(c)
    PROVE  StreamInv'
BY OwnEvent, RoomClients, CallStream
   DEF Farewell, Broadcast, IInv, hubVars, histVars, pumpVars

----------------------------------------------------------------------------
(* Posts, the shutdown, and the steps of a thread inside a call             *)

(* A step of a thread that is no connection and touches no connection.      *)
LEMMA OutsiderStep ==
    ASSUME StreamInv, NEW t \in Threads, t \notin Clients, Sole(t),
           UNCHANGED <<send, last, panicked, done, ctxDone, conn>>,
           \A p \in Posters \ {t} : posted'[p] = posted[p],
           \A c \in Clients : Registered(c)' => Registered(c),
           \A c \in Clients : Due(t, c)' => conn[c] # "none" /\ Phase(c) \notin Outside,
           FrameOK(t)',
           t \in Posters =>
              \A c \in Clients : ~panicked[t] /\ conn[c] = "open" => GapOK(c, t)'
    PROVE  StreamInv'
<1>1. /\ send' = send /\ last' = last /\ panicked' = panicked /\ done' = done
      /\ ctxDone' = ctxDone /\ conn' = conn
  OBVIOUS
<1>2. /\ FrameInv /\ UpgradedInv /\ SettledInv /\ GotInv
      /\ EventsStayInRoom /\ LearnInv /\ GapInv
  BY DEF StreamInv
<1>3. FrameInv'
  BY <1>2, FrameByOne
<1>4. UpgradedInv'
  <2>1. \A c \in Clients : Phase(c)' = Phase(c)
    BY ClientPlaces, SoleKeeps
  <2> QED
    BY <1>1, <1>2, <2>1, UpgradedByOne
<1>5. SettledInv'
  BY <1>1, <1>2, SettledByOne DEF SettledInv, SettledOK
<1>6. GotInv'
  BY <1>1, <1>2, GotByOne
<1>7. EventsStayInRoom'
  BY <1>1, <1>2, RoomsKept
<1>8. LearnInv'
  <2>1. \A a, b \in Clients : Knows(a, b) => Knows(a, b)'
    BY <1>1, SameStreams
  <2> QED
    BY <1>1, <1>2, <2>1, LearnByOne
<1>9. GapInv'
  <2>1. \A c \in Clients, p \in Posters :
           Numbers(c, p)' = Numbers(c, p) /\ (InOrder(c, p)' <=> InOrder(c, p))
    BY <1>1, SameStreams
  <2> QED
    BY <1>1, <1>2, <2>1, GapByOne
<1> QED
  BY <1>3, <1>4, <1>5, <1>6, <1>7, <1>8, <1>9 DEF StreamInv

(* The clients of a room are connections the hub has let in.                *)
LEMMA RoomAdmitted ==
    ASSUME IInv, StreamInv, NEW r \in Rooms, NEW c \in rooms[r]
    PROVE  /\ c \in Clients /\ RoomOf[c] = r /\ Registered(c)
           /\ conn[c] # "none" /\ Phase(c) \notin Outside
<1>1. c \in Clients /\ RoomOf[c] = r
  BY DEF IInv, TypeOK, HubInv, RoomsApart
<1>2. Registered(c)
  BY <1>1 DEF Registered
<1>3. Phase(c) \notin Outside
  BY <1>1, <1>2 DEF IInv, HubInv, JoinToLeave
<1>4. conn[c] # "none"
  BY <1>1, <1>2 DEF StreamInv, UpgradedInv, UpgradedOK
<1> QED
  BY <1>1, <1>2, <1>3, <1>4

LEMMA PostStream ==
    ASSUME IInv, StreamInv, NEW p \in Posters, Post(p)
    PROVE  StreamInv'
<1> DEFINE k == posted[p] + 1
           S == rooms[RoomOf[p]]
           f == [NoCall EXCEPT !.event = NewMessage(p, k), !.todo = S, !.ret = "idle"]
<1>1. /\ TypeOK /\ FrameInv /\ GapInv /\ EventsStayInRoom
      /\ posted \in [Posters -> Nat] /\ RoomOf[p] \in Rooms
  BY PlacementAssumption DEF IInv, StreamInv, TypeOK
<1>2. /\ p \in Threads \ {Main} /\ p \notin Clients /\ p \in Clients \cup Posters
      /\ "idle" \in OwnPcs(p) /\ "idle" \notin CallPcs
  BY ThreadsAssumption DEF Threads, OwnPcs, CallPcs
<1>3. Resume(p, f)
  BY DEF Post, Broadcast
<1>4. f.event = NewMessage(p, k) /\ f.todo = S /\ f.ret = "idle" /\ f.target = NoClient
  BY DEF NoCall
<1> HIDE DEF f
<1>5. /\ Sole(p) /\ pc'[p] \in {"idle", "send"} /\ call'[p].todo = S
      /\ S = {} => pc'[p] = "idle" /\ call'[p] = NoCall
      /\ S # {} => pc'[p] = "send" /\ call'[p].event = NewMessage(p, k)
  BY <1>1, <1>2, <1>3, <1>4, StartAt
<1>6. /\ posted'[p] = k /\ k \in Nat /\ k > 0 /\ k - 1 = posted[p]
      /\ \A q \in Posters \ {p} : posted'[q] = posted[q]
  BY <1>1 DEF Post
<1>7. UNCHANGED <<rooms, send, last, panicked, done, ctxDone, conn>>
  BY DEF Post, hubVars, pumpVars
<1>8. \A c \in S : /\ c \in Clients /\ RoomOf[c] = RoomOf[p]
                   /\ conn[c] # "none" /\ Phase(c) \notin Outside
  BY <1>1, RoomAdmitted
<1>9. \A c \in Clients : (Due(p, c)' <=> c \in S) /\ (Registered(c)' <=> Registered(c))
  BY <1>5, <1>7 DEF Due, Registered
<1>10. FrameOK(p)'
  <2>1. S # {} => Sends(p, call[p].event)'
    BY <1>2, <1>5, <1>6 DEF Sends, NewMessage
  <2>2. pc'[p] \notin CallPcs => call'[p] = NoCall
    BY <1>5 DEF CallPcs
  <2> QED
    BY <1>2, <1>5, <1>8, <2>1, <2>2 DEF FrameOK
<1>11. ASSUME NEW c \in Clients, ~panicked[p], conn[c] = "open"
       PROVE  GapOK(c, p)'
  <2>1. GapOK(c, p)
    BY <1>1, <1>11 DEF GapInv
  <2>2. ~Due(p, c)
    <3>1. call[p] = NoCall /\ pc[p] # "closeDone"
      BY <1>1, <1>2 DEF Post, FrameInv, FrameOK
    <3> QED
      BY <3>1 DEF Due, NoCall
  <2>3. Numbers(c, p)' = Numbers(c, p) /\ (InOrder(c, p)' <=> InOrder(c, p))
    BY <1>7, SameStreams
  <2>4. \A m \in Numbers(c, p)' : m \in 1 .. posted'[p]
    <3>1. \A m \in Numbers(c, p) : m \in 1 .. posted[p]
      BY <2>1 DEF GapOK
    <3> QED
      BY <1>6, <2>3, <3>1
  <2>5. c \in S => UpTo(c, p, posted[p] - 1)'
    <3>1. c \in S => Registered(c)
      BY <1>8 DEF Registered
    <3> QED
      BY <1>6, <2>1, <2>2, <2>3, <3>1 DEF GapOK, UpTo
  <2>6. Registered(c)' /\ ~Due(p, c)' => UpTo(c, p, posted[p])'
    <3>1. Registered(c) /\ c \notin S => RoomOf[p] # RoomOf[c]
      BY DEF Registered
    <3>2. RoomOf[p] # RoomOf[c] => Numbers(c, p) = {}
      BY <1>1, <1>2 DEF EventsStayInRoom, Numbers
    <3> QED
      BY <1>9, <2>3, <3>1, <3>2 DEF UpTo
  <2> QED
    BY <1>9, <2>1, <2>3, <2>4, <2>5, <2>6 DEF GapOK, UpTo
<1> QED
  BY <1>2, <1>5, <1>6, <1>7, <1>8, <1>9, <1>10, <1>11, OutsiderStep

LEMMA HubCloseStream ==
    ASSUME IInv, StreamInv, HubClose
    PROVE  StreamInv'
<1> DEFINE S == UNION {rooms[r] : r \in Rooms}
           f == [NoCall EXCEPT !.todo = S, !.ret = "returned"]
<1>1. Main \in Threads /\ Main \notin Clients /\ Main \notin Posters /\ TypeOK
  BY ThreadsAssumption DEF Threads, IInv
<1>2. Resume(Main, f)
  BY DEF HubClose
<1>3. f.todo = S /\ f.ret = "returned"
  BY DEF NoCall
<1> HIDE DEF f
<1>4. /\ Sole(Main) /\ pc'[Main] \in {"returned", "closeAll"} /\ call'[Main].todo = S
      /\ S = {} => call'[Main] = NoCall
      /\ S # {} => pc'[Main] = "closeAll"
  <2>1. /\ Sole(Main)
        /\ f.todo = {} => pc'[Main] = f.ret /\ call'[Main] = NoCall
        /\ f.todo # {} => pc'[Main] = "closeAll" /\ call'[Main] = f
    BY <1>1, <1>2, ResumeAt
  <2>2. NoCall.todo = {}
    BY DEF NoCall
  <2> QED
    BY <1>3, <2>1, <2>2
<1>5. UNCHANGED <<send, last, panicked, posted, done, ctxDone, conn>>
  BY DEF HubClose, histVars, pumpVars
<1>6. \A c \in S : conn[c] # "none" /\ Phase(c) \notin Outside
  BY RoomAdmitted
<1>7. \A c \in Clients : Due(Main, c)' => c \in S
  BY <1>4 DEF Due
<1>8. \A c \in Clients : ~Registered(c)'
  BY PlacementAssumption DEF HubClose, Registered
<1>9. FrameOK(Main)'
  BY <1>1, <1>4 DEF FrameOK, Sends, CallPcs
<1> QED
  BY <1>1, <1>4, <1>5, <1>6, <1>7, <1>8, <1>9, OutsiderStep

(* A thread that goes on with its call, having closed a client or found it  *)
(* closed, and delivered nothing.                                           *)
LEMMA GoOnStep ==
    ASSUME StreamInv, NEW t \in Threads, Sole(t), pc[t] \in CallPcs, Phase(t)' = Phase(t),
           UNCHANGED <<rooms, send, last, panicked, posted>>,
           \A c \in Clients : /\ conn'[c] \in {conn[c], "closed"}
                              /\ conn[c] = "none" => conn'[c] = "none"
                              /\ ctxDone[c] => ctxDone'[c]
                              /\ done[c] => done'[c]
                              /\ done'[c] => ctxDone'[c] /\ conn'[c] = "closed",
           \A c \in Clients : Due(t, c)' => Due(t, c),
           \A c \in Clients : conn'[c] = "open" /\ Due(t, c) => Due(t, c)',
           call'[t].todo \subseteq call[t].todo,
           \A c \in Clients : Due(t, c)' => call'[t].event = call[t].event,
           FrameOK(t)',
           t \in Clients /\ pc[t] = "closeDone" /\ call[t].target = t
              => done'[t] \/ (pc'[t] = "closeDone" /\ call'[t].target = t)
    PROVE  StreamInv'
<1>1. /\ rooms' = rooms /\ send' = send /\ last' = last /\ panicked' = panicked
      /\ posted' = posted /\ Sole(t)
      /\ \A c \in Clients : Registered(c)' <=> Registered(c)
  BY DEF Registered
<1>2. /\ FrameInv /\ UpgradedInv /\ SettledInv /\ GotInv
      /\ EventsStayInRoom /\ LearnInv /\ GapInv
  BY DEF StreamInv
<1>3. FrameInv'
  BY <1>1, <1>2, FrameByOne
<1>4. \A c \in Clients : Phase(c)' = Phase(c)
  BY <1>1, ClientPlaces, SoleKeeps
<1>5. UpgradedInv'
  <2>1. \A c \in Clients : conn[c] # "none" => conn'[c] # "none"
    OBVIOUS
  <2>2. \A c \in Clients : Due(t, c)' => conn'[c] # "none" /\ Phase(c)' \notin Outside
    BY <1>2, <1>4, <2>1 DEF UpgradedInv, UpgradedOK
  <2>3. t \in Clients => UpgradedOK(t)
    BY <1>2 DEF UpgradedInv
  <2>4. t \in Clients => /\ Phase(t)' = "start" => conn'[t] = "none"
                         /\ Phase(t)' \notin {"start", "ended"} => conn'[t] # "none"
    BY <2>1, <2>3 DEF UpgradedOK
  <2> QED
    BY <1>1, <1>2, <1>4, <2>1, <2>2, <2>4, UpgradedByOne
<1>6. SettledInv'
  <2>1. t \in Clients => SettledOK(t)'
    <3> SUFFICES ASSUME t \in Clients PROVE SettledOK(t)'
      OBVIOUS
    <3>1. SettledOK(t)
      BY <1>2 DEF SettledInv
    <3> QED
      BY <1>1, <3>1 DEF SettledOK
  <2> QED
    BY <1>1, <1>2, <2>1, SettledByOne
<1>7. GotInv'
  <2>1. t \in Clients => GotOK(t)'
    <3> SUFFICES ASSUME t \in Clients PROVE GotOK(t)'
      OBVIOUS
    <3>1. GotOK(t) /\ Main \in Threads
      BY <1>2 DEF GotInv, Threads
    <3>2. Got(t)' = Got(t) /\ GotFrom(t, Main)' = GotFrom(t, Main)
      BY <1>1, <3>1, SameStreams
    <3> QED
      BY <1>1, <3>1, <3>2 DEF GotOK
  <2> QED
    BY <1>1, <1>2, <2>1, GotByOne
<1>8. EventsStayInRoom'
  BY <1>1, <1>2, RoomsKept
<1>9. LearnInv'
  <2>1. \A a, b \in Clients : Knows(a, b)' <=> Knows(a, b)
    BY <1>1, SameStreams
  <2>2. ASSUME t \in Clients, NEW d \in Clients \ {t}
        PROVE  (Meet(t, d)' => Learns(t, d)') /\ (Meet(d, t)' => Learns(d, t)')
    <3>1. /\ Phase(d)' = Phase(d) /\ call'[d] = call[d]
          /\ (Due(d, t)' <=> Due(d, t)) /\ (Due(d, d)' <=> Due(d, d))
      <4>1. d \in Threads \ {t}
        BY ClientPlaces
      <4> QED
        BY <1>1, <2>2, <4>1, SoleKeeps DEF Sole
    <3>2. /\ Meet(t, d)' => Meet(t, d) /\ conn'[t] = "open"
          /\ Meet(d, t)' => Meet(d, t) /\ conn'[d] = "open"
      BY <1>1, <1>4, <2>2 DEF Meet, Active
    <3>3. (Meet(t, d) => Learns(t, d)) /\ (Meet(d, t) => Learns(d, t))
      BY <1>2, <2>2 DEF LearnInv
    <3>4. Meet(t, d)' => Learns(t, d)'
      BY <1>4, <2>1, <2>2, <3>1, <3>2, <3>3 DEF Learns
    <3>5. Meet(d, t)' => Learns(d, t)'
      BY <1>4, <2>1, <2>2, <3>1, <3>2, <3>3 DEF Learns
    <3> QED
      BY <3>4, <3>5
  <2>3. \A c \in Clients : conn'[c] = "open" => conn[c] = "open"
    OBVIOUS
  <2> QED
    BY <1>1, <1>2, <2>1, <2>2, <2>3, LearnByOne
<1>10. GapInv'
  <2>1. \A c \in Clients, p \in Posters :
           Numbers(c, p)' = Numbers(c, p) /\ (InOrder(c, p)' <=> InOrder(c, p))
    BY <1>1, SameStreams
  <2>2. \A c \in Clients : conn'[c] = "open" => conn[c] = "open"
    OBVIOUS
  <2>3. ASSUME t \in Posters, NEW c \in Clients, ~panicked'[t], conn'[c] = "open"
        PROVE  GapOK(c, t)'
    <3>1. GapOK(c, t)
      BY <1>1, <1>2, <2>2, <2>3 DEF GapInv
    <3>2. Due(t, c)' <=> Due(t, c)
      BY <2>3
    <3> QED
      BY <1>1, <2>1, <2>3, <3>1, <3>2, GapSame
  <2> QED
    BY <1>1, <1>2, <2>1, <2>2, <2>3, GapByOne
<1> QED
  BY <1>3, <1>5, <1>6, <1>7, <1>8, <1>9, <1>10 DEF StreamInv

(* The frame a thread goes on with: fewer clients, the same event.          *)
LEMMA FrameGoesOn ==
    ASSUME TypeOK, FrameInv, NEW t \in Threads, pc[t] \in CallPcs,
           Phase(t)' = Phase(t), posted' = posted,
           pc'[t] \notin CallPcs => call'[t] = NoCall,
           pc'[t] = "send" => t # Main,
           call'[t].todo \subseteq call[t].todo,
           call'[t].todo # {} => call'[t].event = call[t].event /\ call'[t].ret = call[t].ret
    PROVE  FrameOK(t)'
<1>1. FrameOK(t) /\ call[t].todo \in SUBSET Clients
  BY InCall DEF FrameInv, Frame
<1>2. call'[t].todo # {} => Sends(t, call[t].event)'
  BY <1>1 DEF FrameOK, Sends, NewMessage
<1> QED
  BY <1>1, <1>2 DEF FrameOK

(* Closing a client again changes nothing of it.                            *)
LEMMA SelectStream ==
    ASSUME IInv, StreamInv, NEW t \in Threads, NEW c \in call[t].todo,
           pc[t] \in {"send", "closeAll"},
           CloseSelect(t, [call[t] EXCEPT !.todo = @ \ {c}, !.target = c]),
           UNCHANGED <<rooms, send, last, panicked, posted, done>>
    PROVE  StreamInv'
<1> DEFINE f == [call[t] EXCEPT !.todo = @ \ {c}, !.target = c]
<1>1. TypeOK /\ FrameInv /\ SettledInv /\ pc[t] \in CallPcs /\ "closeDone" \in CallPcs
  BY DEF IInv, StreamInv, CallPcs
<1>2. call[t] \in Frame /\ call[t].ret \in OwnPcs(t) /\ Phase(t) = call[t].ret
  BY <1>1, InCall
<1>3. /\ c \in Clients /\ f \in Frame /\ f.ret = call[t].ret /\ f.target = c
      /\ f.event = call[t].event /\ f.todo = call[t].todo \ {c}
  BY <1>2 DEF Frame
<1>4. CloseSelect(t, f)
  OBVIOUS
<1> HIDE DEF f
<1>5. /\ Sole(t) /\ Phase(t)' = call[t].ret
      /\ \/ /\ done[c]
            /\ ctxDone' = [ctxDone EXCEPT ![c] = TRUE]
            /\ conn' = [conn EXCEPT ![c] = "closed"]
            /\ call'[t].todo = f.todo /\ call'[t].target = NoClient
            /\ f.todo = {} => pc'[t] = f.ret /\ call'[t] = NoCall
            /\ f.todo # {} => /\ pc'[t] = IF t = Main THEN "closeAll" ELSE "send"
                              /\ call'[t].event = f.event /\ call'[t].ret = f.ret
         \/ /\ ~done[c] /\ ctxDone' = ctxDone /\ conn' = conn
            /\ pc'[t] = "closeDone" /\ call'[t] = f
  BY <1>1, <1>2, <1>3, <1>4, CloseSelectAt
<1>6. \A d \in Clients : conn'[d] = conn[d] /\ (ctxDone'[d] <=> ctxDone[d])
  <2>1. CASE done[c]
    <3>1. ctxDone[c] /\ conn[c] = "closed"
      BY <1>1, <1>3, <2>1 DEF SettledInv, SettledOK
    <3>2. conn \in [Clients -> {"none", "open", "closed"}] /\ ctxDone \in [Clients -> BOOLEAN]
      BY <1>1 DEF TypeOK
    <3>3. /\ ctxDone' = [ctxDone EXCEPT ![c] = TRUE]
          /\ conn' = [conn EXCEPT ![c] = "closed"]
      BY <1>5, <2>1
    <3>4. \A d \in Clients : conn'[d] = conn[d]
      BY <3>1, <3>2, <3>3
    <3>5. \A d \in Clients : ctxDone'[d] <=> ctxDone[d]
      BY <3>1, <3>2, <3>3
    <3> QED
      BY <3>4, <3>5
  <2>2. CASE ~done[c]
    BY <1>5, <2>2
  <2> QED
    BY <2>1, <2>2
<1>7. call[t].ret \notin CallPcs
  BY <1>2, OwnPlaces
<1>8. /\ call'[t].todo = call[t].todo \ {c}
      /\ call'[t].todo # {} => call'[t].event = call[t].event /\ call'[t].ret = call[t].ret
      /\ pc'[t] = "closeDone" => ~done[c] /\ call'[t] = f
      /\ pc'[t] # "closeDone" => done[c]
  BY <1>3, <1>5, <1>7 DEF CallPcs
<1>9. FrameOK(t)'
  <2>1. pc'[t] \notin CallPcs => call'[t] = NoCall
    BY <1>1, <1>3, <1>5 DEF CallPcs
  <2>2. pc'[t] = "send" => t # Main
    BY <1>3, <1>5, <1>7 DEF CallPcs
  <2> QED
    BY <1>1, <1>2, <1>5, <1>8, <2>1, <2>2, FrameGoesOn
<1>10. \A d \in Clients : Due(t, d)' => Due(t, d) /\ call'[t].event = call[t].event
  BY <1>3, <1>8 DEF Due
<1>11. \A d \in Clients : conn'[d] = "open" /\ Due(t, d) => Due(t, d)'
  <2> SUFFICES ASSUME NEW d \in Clients, conn[d] = "open", Due(t, d) PROVE Due(t, d)'
    BY <1>6
  <2>1. d \in call[t].todo
    BY DEF Due
  <2>2. d = c => ~done[c]
    BY <1>1 DEF SettledInv, SettledOK
  <2> QED
    BY <1>3, <1>8, <2>1, <2>2 DEF Due
<1>12. \A d \in Clients : done[d] => ctxDone[d] /\ conn[d] = "closed"
  BY <1>1 DEF SettledInv, SettledOK
<1>13. pc[t] # "closeDone"
  OBVIOUS
<1> QED
  BY <1>1, <1>2, <1>5, <1>6, <1>8, <1>9, <1>10, <1>11, <1>12, <1>13, GoOnStep

LEMMA CloseEachStream == ASSUME IInv, StreamInv, CloseEach PROVE StreamInv'
<1>1. PICK c \in call[Main].todo :
         CloseSelect(Main, [call[Main] EXCEPT !.todo = @ \ {c}, !.target = c])
  BY DEF CloseEach
<1>2. Main \in Threads
  BY DEF Threads
<1> QED
  BY <1>1, <1>2, SelectStream DEF CloseEach, hubVars, histVars, pumpVars

(* A client is closed once for all.                                         *)
LEMMA CloseOkStream ==
    ASSUME IInv, StreamInv, NEW t \in Threads, CloseDone(t), CloseOk(t)
    PROVE  StreamInv'
<1> DEFINE c == call[t].target
           f == [call[t] EXCEPT !.target = NoClient]
<1>1. /\ TypeOK /\ FrameInv /\ SettledInv /\ UpgradedInv
      /\ pc[t] \in CallPcs /\ pc[t] = "closeDone"
  BY DEF IInv, StreamInv, CloseDone, CallPcs
<1>2. /\ call[t] \in Frame /\ call[t].ret \in OwnPcs(t) /\ Phase(t) = call[t].ret
      /\ c \in Clients
  BY <1>1, InCall DEF TypeOK, PcOK, Frame
<1>3. /\ f.ret = call[t].ret /\ f.event = call[t].event /\ f.todo = call[t].todo
      /\ f.target = NoClient
  BY <1>2 DEF Frame
<1>4. /\ ctxDone' = [ctxDone EXCEPT ![c] = TRUE]
      /\ conn' = [conn EXCEPT ![c] = "closed"]
      /\ done' = [done EXCEPT ![c] = TRUE]
      /\ Resume(t, f)
  BY DEF CloseOk, TearDown
<1>5. UNCHANGED <<rooms, send, last, panicked, posted>>
  BY DEF CloseDone, CloseOk, hubVars, histVars, pumpVars
<1> HIDE DEF f
<1>6. /\ Sole(t)
      /\ f.todo = {} => pc'[t] = f.ret /\ call'[t] = NoCall
      /\ f.todo # {} => /\ pc'[t] = IF t = Main THEN "closeAll" ELSE "send"
                        /\ call'[t] = f
  BY <1>1, <1>4, ResumeAt
<1>7. call[t].ret \notin CallPcs
  BY <1>2, OwnPlaces
<1>8. /\ call'[t].todo = call[t].todo /\ pc'[t] # "closeDone"
      /\ call'[t].todo # {} => call'[t].event = call[t].event /\ call'[t].ret = call[t].ret
      /\ Phase(t)' = Phase(t)
      /\ pc'[t] \notin CallPcs => call'[t] = NoCall
      /\ pc'[t] = "send" => t # Main
  <2>1. NoCall.todo = {}
    BY DEF NoCall
  <2> QED
    BY <1>2, <1>3, <1>6, <1>7, <2>1 DEF Phase, CallPcs
<1>9. FrameOK(t)'
  BY <1>1, <1>5, <1>8, FrameGoesOn
<1>10. \A d \in Clients : Due(t, d)' => Due(t, d) /\ call'[t].event = call[t].event
  BY <1>8 DEF Due
<1>11. conn[c] # "none"
  BY <1>1, <1>2 DEF UpgradedInv, UpgradedOK, Due
<1>12. /\ done'[c] /\ ctxDone'[c] /\ conn'[c] = "closed"
       /\ \A d \in Clients \ {c} : /\ done'[d] = done[d] /\ ctxDone'[d] = ctxDone[d]
                                   /\ conn'[d] = conn[d]
  BY <1>1, <1>2, <1>4 DEF TypeOK
<1> HIDE DEF c
<1>13. \A d \in Clients : /\ conn'[d] \in {conn[d], "closed"}
                          /\ conn[d] = "none" => conn'[d] = "none"
                          /\ ctxDone[d] => ctxDone'[d]
                          /\ done[d] => done'[d]
                          /\ done'[d] => ctxDone'[d] /\ conn'[d] = "closed"
  BY <1>1, <1>2, <1>11, <1>12 DEF SettledInv, SettledOK
<1>14. \A d \in Clients : conn'[d] = "open" /\ Due(t, d) => Due(t, d)'
  BY <1>8, <1>12 DEF Due, c
<1>15. t = c => done'[t]
  BY <1>12
<1> QED
  BY <1>1, <1>2, <1>5, <1>6, <1>8, <1>9, <1>10, <1>13, <1>14, <1>15, GoOnStep DEF c

(* A panic ends the call: nothing is promised of what its thread had yet to *)
(* deliver, and a connection is unwound to its last deferred calls.         *)
LEMMA ClosePanicStream ==
    ASSUME IInv, StreamInv, NEW t \in Threads, CloseDone(t), ClosePanic(t)
    PROVE  StreamInv'
<1>1. /\ TypeOK /\ FrameInv /\ UpgradedInv /\ SettledInv /\ GotInv
      /\ EventsStayInRoom /\ LearnInv /\ GapInv
      /\ pc[t] \in CallPcs
  BY DEF IInv, StreamInv, CloseDone, CallPcs
<1>2. /\ pc' = [pc EXCEPT ![t] = Unwound(t)] /\ call' = [call EXCEPT ![t] = NoCall]
      /\ panicked' = [panicked EXCEPT ![t] = TRUE]
      /\ UNCHANGED <<rooms, posted, send, last, done, ctxDone, conn>>
  BY DEF ClosePanic, CloseDone, hubVars, histVars, pumpVars
<1>3. Sole(t) /\ pc'[t] = Unwound(t) /\ call'[t] = NoCall
  BY <1>1, <1>2 DEF TypeOK, Sole
<1>4. Unwound(t) \notin CallPcs /\ (t \in Clients => Unwound(t) \in {"leave", "finish"})
  BY ThreadsAssumption DEF Unwound, CallPcs, Threads
<1>5. Phase(t)' = Unwound(t)
  BY <1>3, <1>4 DEF Phase
<1>6. \A c \in Clients : ~Due(t, c)' /\ (Registered(c)' <=> Registered(c))
  BY <1>2, <1>3, <1>4 DEF Due, NoCall, CallPcs, Registered
<1>7. panicked'[t] /\ \A u \in Threads : panicked[u] => panicked'[u]
  BY <1>1, <1>2 DEF TypeOK
<1>8. FrameInv'
  <2>1. FrameOK(t)'
    BY <1>3, <1>4 DEF FrameOK, NoCall, CallPcs
  <2> QED
    BY <1>1, <1>2, <1>3, <2>1, FrameByOne
<1>9. UpgradedInv'
  <2>1. t \in Clients => conn[t] # "none" /\ Phase(t)' \notin Outside \cup {"start", "ended"}
    <3> SUFFICES ASSUME t \in Clients
                 PROVE  conn[t] # "none" /\ Phase(t)' \notin Outside \cup {"start", "ended"}
      OBVIOUS
    <3>1. FrameOK(t) /\ UpgradedOK(t)
      BY <1>1 DEF FrameInv, UpgradedInv
    <3>2. conn[t] # "none"
      BY <1>1, <3>1 DEF FrameOK, UpgradedOK
    <3> QED
      BY <1>4, <1>5, <3>2 DEF Outside
  <2> QED
    BY <1>1, <1>2, <1>3, <1>6, <2>1, UpgradedByOne
<1>10. SettledInv'
  <2>1. t \in Clients => SettledOK(t)'
    BY <1>1, <1>2, <1>4, <1>5, <1>7 DEF SettledInv, SettledOK
  <2>2. \A c \in Clients : panicked[c] => panicked'[c]
    BY <1>7, ClientPlaces
  <2>3. \A c \in Clients : done[c] => ctxDone[c] /\ conn[c] = "closed"
    BY <1>1 DEF SettledInv, SettledOK
  <2> QED
    BY <1>1, <1>2, <1>3, <1>6, <2>1, <2>2, <2>3, SettledByOne
<1>11. GotInv'
  <2>1. t \in Clients => GotOK(t)'
    <3> SUFFICES ASSUME t \in Clients PROVE GotOK(t)'
      OBVIOUS
    <3>1. GotOK(t) /\ Main \in Threads
      BY <1>1 DEF GotInv, Threads
    <3>2. Got(t)' = Got(t) /\ GotFrom(t, Main)' = GotFrom(t, Main)
      BY <1>2, <3>1, SameStreams
    <3>3. Phase(t)' \notin Outside \cup {"presence", "announce"}
      BY <1>4, <1>5 DEF Outside
    <3> QED
      BY <1>2, <3>1, <3>2, <3>3 DEF GotOK
  <2> QED
    BY <1>1, <1>2, <1>3, <2>1, GotByOne
<1>12. EventsStayInRoom'
  BY <1>1, <1>2, RoomsKept
<1>13. LearnInv'
  <2>1. \A a, b \in Clients : Knows(a, b) => Knows(a, b)'
    BY <1>2, SameStreams
  <2>2. t \in Clients => \A d \in Clients : ~Meet(t, d)' /\ ~Meet(d, t)'
    BY <1>4, <1>5 DEF Meet, Active
  <2> QED
    BY <1>1, <1>2, <1>3, <1>6, <2>1, <2>2, LearnByOne
<1>14. GapInv'
  <2>1. \A c \in Clients, p \in Posters :
           Numbers(c, p)' = Numbers(c, p) /\ (InOrder(c, p)' <=> InOrder(c, p))
    BY <1>2, SameStreams
  <2>2. \A p \in Posters : panicked[p] => panicked'[p]
    BY <1>7 DEF Threads
  <2> QED
    BY <1>1, <1>2, <1>3, <1>6, <1>7, <2>1, <2>2, GapByOne
<1> QED
  BY <1>8, <1>9, <1>10, <1>11, <1>12, <1>13, <1>14 DEF StreamInv

LEMMA CloseDoneStream ==
    ASSUME IInv, StreamInv, NEW t \in Threads, CloseDone(t)
    PROVE  StreamInv'
BY ClosePanicStream, CloseOkStream DEF CloseDone

----------------------------------------------------------------------------
(* The write pump and the peer                                              *)

(* A connection whose socket the pump or the peer closes, or whose pump     *)
(* stops: its stream may lose events, never gain one.                       *)
LEMMA SocketStep ==
    ASSUME StreamInv, NEW c \in Clients,
           UNCHANGED <<rooms, pc, call, panicked, posted, done, ctxDone>>,
           \A d \in Clients \ {c} : conn'[d] = conn[d],
           conn'[c] \in {conn[c], "closed"}, conn[c] = "none" => conn'[c] = "none",
           EventsStayInRoom', GotInv',
           \A a, d \in Clients : conn'[a] = "open" /\ Knows(a, d) => Knows(a, d)',
           \A a \in Clients, p \in Posters :
              ~panicked[p] /\ conn'[a] = "open" => GapOK(a, p)'
    PROVE  StreamInv'
<1>1. /\ FrameInv /\ UpgradedInv /\ SettledInv /\ LearnInv
      /\ Main \in Threads /\ Main \notin Clients /\ Sole(Main)
  BY ThreadsAssumption DEF StreamInv, Threads, Sole
<1>2. \A t \in Threads : Phase(t)' = Phase(t)
  BY DEF Phase
<1>3. \A d \in Clients : (Registered(d)' <=> Registered(d)) /\ (Due(Main, d)' <=> Due(Main, d))
  BY DEF Registered, Due
<1>4. \A d \in Clients : conn'[d] \in {conn[d], "closed"} /\ (conn[d] = "none" <=> conn'[d] = "none")
  OBVIOUS
<1>5. FrameInv'
  <2>1. FrameOK(Main)'
    BY <1>1, <1>2 DEF FrameInv, FrameOK, Sends, NewMessage
  <2> QED
    BY <1>1, <2>1, FrameByOne
<1>6. UpgradedInv'
  <2>1. \A d \in Clients : Due(Main, d)' => conn'[d] # "none" /\ Phase(d)' \notin Outside
    BY <1>1, <1>2, <1>3, <1>4, ClientPlaces DEF UpgradedInv, UpgradedOK
  <2> QED
    BY <1>1, <1>3, <1>4, <2>1, UpgradedByOne
<1>7. SettledInv'
  <2>1. \A d \in Clients : done'[d] => ctxDone'[d] /\ conn'[d] = "closed"
    BY <1>1, <1>4 DEF SettledInv, SettledOK
  <2> QED
    BY <1>1, <1>3, <1>4, <2>1, SettledByOne
<1>8. LearnInv'
  BY <1>1, <1>3, <1>4, LearnByOne
<1>9. GapInv'
  BY DEF GapInv
<1> QED
  BY <1>5, <1>6, <1>7, <1>8, <1>9 DEF StreamInv

(* The stream is left alone.                                                *)
LEMMA QuietSocketStream ==
    ASSUME IInv, StreamInv, NEW c \in Clients, PumpStop(c) \/ PeerDisconnect(c)
    PROVE  StreamInv'
<1>1. /\ UNCHANGED <<rooms, pc, call, panicked, posted, done, ctxDone, send, last>>
      /\ conn \in [Clients -> {"none", "open", "closed"}]
  BY DEF PumpStop, PeerDisconnect, hubVars, histVars, pumpVars, IInv, TypeOK
<1>2. /\ \A d \in Clients \ {c} : conn'[d] = conn[d]
      /\ conn'[c] \in {conn[c], "closed"} /\ (conn[c] = "none" => conn'[c] = "none")
  BY <1>1 DEF PumpStop, PeerDisconnect
<1>3. EventsStayInRoom'
  BY <1>1, RoomsKept DEF StreamInv
<1>4. GotInv'
  <2>1. Main \in Threads /\ Main \notin Clients /\ Sole(Main) /\ GotInv
    BY <1>1, ThreadsAssumption DEF StreamInv, Threads, Sole
  <2>2. \A d \in Clients : conn'[d] = "none" => conn[d] = "none"
    BY <1>2
  <2> QED
    BY <1>1, <2>1, <2>2, GotByOne
<1>5. \A a, d \in Clients : Knows(a, d) => Knows(a, d)'
  BY <1>1, SameStreams
<1>6. ASSUME NEW a \in Clients, NEW p \in Posters, ~panicked[p], conn'[a] = "open"
      PROVE  GapOK(a, p)'
  <2>1. GapOK(a, p)
    BY <1>2, <1>6 DEF StreamInv, GapInv
  <2>2. Numbers(a, p)' = Numbers(a, p) /\ (InOrder(a, p)' <=> InOrder(a, p))
    BY <1>1, SameStreams
  <2> QED
    BY <1>1, <2>1, <2>2, GapSame DEF Registered, Due
<1> QED
  BY <1>1, <1>2, <1>3, <1>4, <1>5, <1>6, SocketStep

(* The stream of a connection whose head is taken from its queue.           *)
LEMMA TailGot ==
    ASSUME TypeOK, NEW c \in Clients, send[c] # <<>>, send' = [send EXCEPT ![c] = Tail(@)]
    PROVE  /\ Len(send[c]) \in Nat \ {0}
           /\ Len(send'[c]) = Len(send[c]) - 1
           /\ \A i \in 1 .. Len(send'[c]) : send'[c][i] = send[c][i + 1]
           /\ \A i \in 1 .. Len(send[c]) : send[c][i] \in Event
           /\ Head(send[c]) = send[c][1]
           /\ \A d \in Clients \ {c} : send'[d] = send[d]
<1>1. send[c] \in Seq(Event) /\ send'[c] = Tail(send[c])
      /\ \A d \in Clients \ {c} : send'[d] = send[d]
  BY DEF TypeOK
<1> DEFINE s == send[c]
<1>2. s \in Seq(Event) /\ s # <<>>
  BY <1>1
<1> HIDE DEF s
<1>3. /\ Len(s) \in Nat \ {0} /\ Len(Tail(s)) = Len(s) - 1
      /\ \A i \in 1 .. Len(Tail(s)) : Tail(s)[i] = s[i + 1]
      /\ \A i \in 1 .. Len(s) : s[i] \in Event
      /\ Head(s) = s[1]
  BY <1>2
<1> QED
  BY <1>1, <1>3 DEF s

(* What a stream that only loses events keeps.                              *)
LEMMA LessGot ==
    ASSUME TypeOK, GotInv, EventsStayInRoom, NEW c \in Clients,
           UNCHANGED <<pc, call>>, Got(c)' \subseteq Got(c),
           \A i \in 1 .. Len(send'[c]) : send'[c][i].type # "none",
           \A t \in Threads : \/ last'[c][t] = NoEvent
                              \/ last'[c][t].from = t /\ last'[c][t].type # "none",
           \A d \in Clients \ {c} : send'[d] = send[d] /\ last'[d] = last[d],
           \A d \in Clients : conn'[d] = "none" => conn[d] = "none"
    PROVE  GotInv' /\ EventsStayInRoom'
<1>1. \A t \in Threads : Phase(t)' = Phase(t)
  BY DEF Phase
<1>2. \A t : GotFrom(c, t)' \subseteq GotFrom(c, t)
  BY DEF GotFrom
<1>3. ASSUME NEW d \in Clients PROVE GotOK(d)'
  <2>1. GotOK(d) /\ Phase(d)' = Phase(d) /\ call'[d] = call[d] /\ Main \in Threads
    BY <1>1, ClientPlaces DEF GotInv, Threads
  <2>2. CASE d = c
    BY <1>2, <2>1, <2>2 DEF GotOK
  <2>3. CASE d # c
    <3>1. /\ Got(d)' = Got(d) /\ GotFrom(d, Main)' = GotFrom(d, Main)
          /\ send'[d] = send[d] /\ last'[d] = last[d]
      BY <2>1, <2>3, OthersGot
    <3> QED
      BY <2>1, <3>1 DEF GotOK
  <2> QED
    BY <2>2, <2>3
<1>4. EventsStayInRoom'
  <2> SUFFICES ASSUME NEW d \in Clients, NEW t \in Clients \cup Posters,
                      GotFrom(d, t)' # {}
               PROVE  RoomOf[t] = RoomOf[d]
    BY DEF EventsStayInRoom
  <2>1. GotFrom(d, t) # {}
    <3>1. CASE d = c
      BY <1>2, <3>1
    <3>2. CASE d # c
      BY <3>2, OthersGot DEF Threads
    <3> QED
      BY <3>1, <3>2
  <2> QED
    BY <2>1 DEF EventsStayInRoom
<1> QED
  BY <1>3, <1>4 DEF GotInv

(* A failed write loses the head of the queue, and the socket with it.      *)
LEMMA PumpFailStream ==
    ASSUME IInv, StreamInv, NEW c \in Clients, PumpFail(c)
    PROVE  StreamInv'
<1>1. /\ UNCHANGED <<rooms, pc, call, panicked, posted, done, ctxDone, last>>
      /\ send[c] # <<>> /\ send' = [send EXCEPT ![c] = Tail(@)]
      /\ conn' = [conn EXCEPT ![c] = "closed"]
  BY DEF PumpFail, hubVars, histVars
<1>2. TypeOK /\ GotOK(c) /\ GotInv /\ EventsStayInRoom /\ GapInv
  BY DEF IInv, StreamInv, GotInv
<1>3. /\ Len(send[c]) \in Nat \ {0} /\ Len(send'[c]) = Len(send[c]) - 1
      /\ \A i \in 1 .. Len(send'[c]) : send'[c][i] = send[c][i + 1]
      /\ \A d \in Clients \ {c} : send'[d] = send[d]
  BY <1>1, <1>2, TailGot
<1>4. /\ conn'[c] = "closed" /\ \A d \in Clients \ {c} : conn'[d] = conn[d]
  BY <1>1, <1>2 DEF TypeOK
<1>5. conn[c] # "none"
  <2>1. send[c][1] \in Got(c) /\ send[c][1].type # "none"
    BY <1>2, <1>3 DEF GotOK, Got
  <2>2. NoEvent.type = "none"
    BY DEF NoEvent, Ev
  <2> QED
    BY <1>2, <2>1, <2>2 DEF GotOK
<1>6. /\ Got(c)' \subseteq Got(c)
      /\ \A i \in 1 .. Len(send'[c]) : send'[c][i].type # "none"
  <2>1. \A i \in 1 .. Len(send'[c]) : i + 1 \in 1 .. Len(send[c])
    BY <1>3
  <2>2. \A i \in 1 .. Len(send'[c]) : send'[c][i].type # "none"
    BY <1>2, <1>3, <2>1 DEF GotOK
  <2>3. \A t \in Threads : last'[c][t] \in Got(c)
    BY <1>1 DEF Got
  <2>4. \A i \in 1 .. Len(send'[c]) : send'[c][i] \in Got(c)
    BY <1>3, <2>1 DEF Got
  <2>5. \A e \in Got(c)' : \/ \E t \in Threads : e = last'[c][t]
                           \/ \E i \in 1 .. Len(send'[c]) : e = send'[c][i]
    BY DEF Got
  <2> QED
    BY <2>2, <2>3, <2>4, <2>5
<1>7. GotInv' /\ EventsStayInRoom'
  BY <1>1, <1>2, <1>3, <1>4, <1>6, LessGot DEF GotOK
<1>8. \A a, d \in Clients : conn'[a] = "open" /\ Knows(a, d) => Knows(a, d)'
  BY <1>1, <1>3, <1>4, OthersGot
<1>9. ASSUME NEW a \in Clients, NEW p \in Posters, ~panicked[p], conn'[a] = "open"
      PROVE  GapOK(a, p)'
  <2>1. a # c /\ conn[a] = "open" /\ send'[a] = send[a] /\ last'[a] = last[a]
    BY <1>1, <1>3, <1>4, <1>9
  <2>2. GapOK(a, p)
    BY <1>2, <1>9, <2>1 DEF GapInv
  <2>3. Numbers(a, p)' = Numbers(a, p) /\ (InOrder(a, p)' <=> InOrder(a, p))
    BY <2>1, OthersGot
  <2> QED
    BY <1>1, <2>2, <2>3, GapSame DEF Registered, Due
<1> QED
  BY <1>1, <1>4, <1>5, <1>7, <1>8, <1>9, SocketStep

(* A write moves the head of the queue to the peer: of what was got it      *)
(* loses at most the last event of the head's sender.                       *)
LEMMA WriteGot ==
    ASSUME IInv, StreamInv, NEW c \in Clients, PumpWrite(c), NEW h, h = send[c][1]
    PROVE  /\ UNCHANGED <<rooms, pc, call, panicked, posted, done, ctxDone, conn>>
           /\ Len(send[c]) \in Nat \ {0} /\ Len(send'[c]) = Len(send[c]) - 1
           /\ \A i \in 1 .. Len(send'[c]) : /\ i + 1 \in 1 .. Len(send[c])
                                            /\ send'[c][i] = send[c][i + 1]
           /\ \A d \in Clients \ {c} : send'[d] = send[d] /\ last'[d] = last[d]
           /\ h \in Event /\ h.from \in Threads /\ h.type # "none" /\ h \in Got(c)
           /\ last'[c][h.from] = h
           /\ \A t \in Threads \ {h.from} : last'[c][t] = last[c][t]
           /\ h \in Got(c)' /\ Got(c)' \subseteq Got(c)
           /\ \A e \in Got(c) : e \in Got(c)' \/ e = last[c][h.from]
<1>1. /\ UNCHANGED <<rooms, pc, call, panicked, posted, done, ctxDone, conn>>
      /\ send[c] # <<>> /\ send' = [send EXCEPT ![c] = Tail(@)]
      /\ last' = [last EXCEPT ![c][Head(send[c]).from] = Head(send[c])]
  BY DEF PumpWrite, hubVars, histVars
<1>2. TypeOK /\ GotOK(c) /\ last \in [Clients -> [Threads -> Event]]
  BY DEF IInv, StreamInv, GotInv, TypeOK
<1>3. /\ Len(send[c]) \in Nat \ {0} /\ Len(send'[c]) = Len(send[c]) - 1
      /\ \A i \in 1 .. Len(send'[c]) : send'[c][i] = send[c][i + 1]
      /\ \A i \in 1 .. Len(send[c]) : send[c][i] \in Event
      /\ Head(send[c]) = h
      /\ \A d \in Clients \ {c} : send'[d] = send[d]
  BY <1>1, <1>2, TailGot
<1>4. \A i \in 1 .. Len(send'[c]) : i + 1 \in 1 .. Len(send[c])
  BY <1>3
<1>5. h \in Event /\ h.from \in Threads /\ h.type # "none" /\ h \in Got(c)
  <2>1. 1 \in 1 .. Len(send[c])
    BY <1>3
  <2> QED
    BY <1>2, <1>3, <2>1 DEF GotOK, Got, Event
<1>6. /\ last'[c][h.from] = h
      /\ \A t \in Threads \ {h.from} : last'[c][t] = last[c][t]
      /\ \A d \in Clients \ {c} : last'[d] = last[d]
  <2>1. last' = [last EXCEPT ![c][h.from] = h]
    BY <1>1, <1>3
  <2> QED
    BY <1>2, <1>5, <2>1
<1>7. h \in Got(c)'
  BY <1>5, <1>6 DEF Got
<1>8. Got(c)' \subseteq Got(c)
  <2> SUFFICES ASSUME NEW e \in Got(c)' PROVE e \in Got(c)
    OBVIOUS
  <2>1. ASSUME NEW t \in Threads, e = last'[c][t] PROVE e \in Got(c)
    BY <1>5, <1>6, <2>1 DEF Got
  <2>2. ASSUME NEW i \in 1 .. Len(send'[c]), e = send'[c][i] PROVE e \in Got(c)
    BY <1>3, <1>4, <2>2 DEF Got
  <2> QED
    BY <2>1, <2>2 DEF Got
<1>9. ASSUME NEW e \in Got(c) PROVE e \in Got(c)' \/ e = last[c][h.from]
  <2>1. ASSUME NEW t \in Threads, e = last[c][t]
        PROVE  e \in Got(c)' \/ e = last[c][h.from]
    BY <1>6, <2>1 DEF Got
  <2>2. ASSUME NEW i \in 1 .. Len(send[c]), e = send[c][i] PROVE e \in Got(c)'
    <3>1. CASE i = 1
      BY <1>7, <2>2, <3>1
    <3>2. CASE i # 1
      <4>1. i - 1 \in 1 .. Len(send'[c]) /\ (i - 1) + 1 = i
        BY <1>3, <3>2
      <4>2. e = send'[c][i - 1]
        BY <1>3, <2>2, <4>1
      <4> QED
        BY <4>1, <4>2 DEF Got
    <3> QED
      BY <3>1, <3>2
  <2> QED
    BY <2>1, <2>2 DEF Got
<1> QED
  BY <1>1, <1>3, <1>4, <1>5, <1>6, <1>7, <1>8, <1>9

(* The order of a poster's messages, and the numbers got, across a write.   *)
LEMMA WriteGap ==
    ASSUME IInv, StreamInv, NEW c \in Clients, PumpWrite(c), NEW p \in Posters, GapOK(c, p)
    PROVE  GapOK(c, p)'
<1> DEFINE h == send[c][1]
<1>0. h = send[c][1]
  OBVIOUS
<1> HIDE DEF h
<1>1. /\ UNCHANGED <<rooms, pc, call, panicked, posted, done, ctxDone, conn>>
      /\ Len(send[c]) \in Nat \ {0} /\ Len(send'[c]) = Len(send[c]) - 1
      /\ \A i \in 1 .. Len(send'[c]) : /\ i + 1 \in 1 .. Len(send[c])
                                       /\ send'[c][i] = send[c][i + 1]
      /\ h \in Event /\ h.from \in Threads /\ h.type # "none" /\ h \in Got(c)
      /\ last'[c][h.from] = h
      /\ \A t \in Threads \ {h.from} : last'[c][t] = last[c][t]
      /\ h \in Got(c)' /\ Got(c)' \subseteq Got(c)
      /\ \A e \in Got(c) : e \in Got(c)' \/ e = last[c][h.from]
  <2>1. IInv /\ StreamInv /\ PumpWrite(c) /\ c \in Clients
    OBVIOUS
  <2> QED
    BY ONLY <1>0, <2>1, WriteGot
<1>2. TypeOK /\ GotOK(c) /\ p \in Threads /\ posted[p] \in Nat
  BY DEF IInv, StreamInv, GotInv, Threads, TypeOK
<1>3. /\ InOrder(c, p)
      /\ \A k, m \in Numbers(c, p) : k .. m \subseteq Numbers(c, p)
      /\ \A k \in Numbers(c, p) : k \in 1 .. posted[p]
  BY DEF GapOK
<1>4. Numbers(c, p)' \subseteq Numbers(c, p)
  BY <1>1 DEF Numbers, GotFrom
<1>5. (Due(p, c)' <=> Due(p, c)) /\ (Registered(c)' <=> Registered(c)) /\ posted' = posted
  BY <1>1 DEF Due, Registered
<1>6. CASE h.from # p
  <2>1. last'[c][p] = last[c][p]
    BY <1>1, <1>2, <1>6
  <2>2. ASSUME NEW e \in GotFrom(c, p) PROVE e \in GotFrom(c, p)'
    <3>1. e \in Got(c) /\ e.type # "none" /\ e.from = p
      BY DEF GotFrom
    <3>2. CASE e = last[c][h.from]
      <4>1. last[c][h.from] = NoEvent \/ last[c][h.from].from = h.from
        BY <1>1, <1>2 DEF GotOK
      <4> QED
        BY <1>6, <3>1, <3>2, <4>1 DEF NoEvent, Ev
    <3> QED
      BY <1>1, <3>1, <3>2 DEF GotFrom
  <2>3. Numbers(c, p)' = Numbers(c, p)
    BY <1>4, <2>2 DEF Numbers
  <2>4. InOrder(c, p)'
    <3> SUFFICES ASSUME NEW i \in 1 .. Len(send'[c]), send'[c][i].from = p
                 PROVE  /\ last'[c][p].n < send'[c][i].n
                        /\ \A j \in 1 .. i - 1 :
                              send'[c][j].from = p => send'[c][j].n < send'[c][i].n
      BY DEF InOrder
    <3>1. i + 1 \in 1 .. Len(send[c]) /\ send'[c][i] = send[c][i + 1]
      BY <1>1
    <3>2. \A j \in 1 .. i - 1 : /\ j \in 1 .. Len(send'[c])
                                /\ j + 1 \in 1 .. (i + 1) - 1
      BY <1>1
    <3>3. \A j \in 1 .. i - 1 : send'[c][j] = send[c][j + 1]
      BY <1>1, <3>2
    <3> QED
      BY <1>3, <2>1, <3>1, <3>2, <3>3 DEF InOrder
  <2> QED
    BY <1>3, <1>5, <2>3, <2>4, GapSame
<1>7. CASE h.from = p
  <2> DEFINE l == last[c][p]
  <2>1. /\ 1 \in 1 .. Len(send[c])
        /\ \A i \in 1 .. Len(send[c]) : send[c][i].n \in Nat
        /\ l.n \in Nat /\ h.n \in Nat
    <3>1. send[c] \in Seq(Event) /\ l \in Event
      BY <1>2 DEF TypeOK
    <3>2. \A i \in 1 .. Len(send[c]) : send[c][i] \in Event
      BY <3>1
    <3>3. \A e \in Event : e.n \in Nat
      BY DEF Event
    <3> HIDE DEF l
    <3> QED
      BY <1>1, <3>1, <3>2, <3>3
  <2>2. l.n < h.n
    BY <1>0, <1>3, <1>7, <2>1 DEF InOrder
  <2>3. h.n \in Numbers(c, p)'
    BY <1>1, <1>7 DEF Numbers, GotFrom
  <2>4. \A m \in Numbers(c, p) : m \in Numbers(c, p)' \/ m = l.n
    <3>1. \A e \in GotFrom(c, p) : e \in GotFrom(c, p)' \/ e = l
      BY <1>1, <1>7 DEF GotFrom
    <3> QED
      BY <3>1 DEF Numbers
  <2>5. \A i \in 1 .. Len(send'[c]) : send'[c][i].from = p => h.n < send'[c][i].n
    <3> SUFFICES ASSUME NEW i \in 1 .. Len(send'[c]), send'[c][i].from = p
                 PROVE  h.n < send'[c][i].n
      OBVIOUS
    <3>1. /\ i + 1 \in 1 .. Len(send[c]) /\ send'[c][i] = send[c][i + 1]
          /\ 1 \in 1 .. (i + 1) - 1
      BY <1>1
    <3> QED
      BY <1>0, <1>3, <1>7, <3>1 DEF InOrder
  <2>6. \A m \in Numbers(c, p)' : m >= h.n
    <3> SUFFICES ASSUME NEW e \in Got(c)', e.type # "none", e.from = p PROVE e.n >= h.n
      BY DEF Numbers, GotFrom
    <3>1. ASSUME NEW t \in Threads, e = last'[c][t] PROVE e = h
      <4>1. CASE t = p
        BY <1>1, <1>7, <3>1, <4>1
      <4>2. CASE t # p
        <5>1. e = last[c][t]
          BY <1>1, <1>7, <3>1, <4>2
        <5>2. e = NoEvent \/ e.from = t
          BY <1>2, <5>1 DEF GotOK
        <5> QED
          BY <4>2, <5>2 DEF NoEvent, Ev
      <4> QED
        BY <4>1, <4>2
    <3>2. ASSUME NEW i \in 1 .. Len(send'[c]), e = send'[c][i] PROVE e.n >= h.n
      <4>1. e.n \in Nat /\ h.n < e.n
        BY <1>1, <2>1, <2>5, <3>2
      <4> QED
        BY <2>1, <4>1
    <3> QED
      BY <2>1, <3>1, <3>2 DEF Got
  <2>7. InOrder(c, p)'
    <3> SUFFICES ASSUME NEW i \in 1 .. Len(send'[c]), send'[c][i].from = p
                 PROVE  /\ last'[c][p].n < send'[c][i].n
                        /\ \A j \in 1 .. i - 1 :
                              send'[c][j].from = p => send'[c][j].n < send'[c][i].n
      BY DEF InOrder
    <3>1. i + 1 \in 1 .. Len(send[c]) /\ send'[c][i] = send[c][i + 1]
      BY <1>1
    <3>2. \A j \in 1 .. i - 1 : /\ j \in 1 .. Len(send'[c])
                                /\ j + 1 \in 1 .. (i + 1) - 1
      BY <1>1
    <3>3. \A j \in 1 .. i - 1 : send'[c][j] = send[c][j + 1]
      BY <1>1, <3>2
    <3>4. last'[c][p].n < send'[c][i].n
      BY <1>1, <1>7, <2>5
    <3> QED
      BY <1>3, <3>1, <3>2, <3>3, <3>4 DEF InOrder
  <2>8. ASSUME NEW k \in Numbers(c, p)', NEW m \in Numbers(c, p)', NEW x \in k .. m
        PROVE  x \in Numbers(c, p)'
    <3>1. x \in Numbers(c, p)
      BY <1>3, <1>4
    <3>2. k \in 1 .. posted[p] /\ m \in 1 .. posted[p] /\ k >= h.n
      BY <1>3, <1>4, <2>6
    <3>3. x # l.n
      BY <2>1, <2>2, <3>2
    <3> QED
      BY <2>4, <3>1, <3>3
  <2>9. ASSUME NEW k, UpTo(c, p, k) PROVE k \in Numbers(c, p)' /\ \A m \in Numbers(c, p)' : m <= k
    <3>1. k \in Numbers(c, p) /\ \A m \in Numbers(c, p) : m <= k
      BY <1>4, <2>3, <2>9 DEF UpTo
    <3>2. k \in 1 .. posted[p] /\ h.n <= k
      BY <1>3, <1>4, <2>3, <3>1
    <3>3. k # l.n
      BY <2>1, <2>2, <3>2
    <3> QED
      BY <1>4, <2>4, <3>1, <3>3
  <2>10. /\ Due(p, c) => UpTo(c, p, posted[p] - 1)
         /\ Registered(c) /\ ~Due(p, c) => UpTo(c, p, posted[p])
    BY DEF GapOK
  <2>11. \A k \in Numbers(c, p)' : k \in 1 .. posted[p]
    BY <1>3, <1>4
  <2>12. /\ Due(p, c)' => UpTo(c, p, posted[p] - 1)'
         /\ Registered(c)' /\ ~Due(p, c)' => UpTo(c, p, posted[p])'
    BY <1>5, <2>9, <2>10 DEF UpTo
  <2> QED
    BY <1>5, <2>7, <2>8, <2>11, <2>12 DEF GapOK
<1> QED
  BY <1>6, <1>7

LEMMA PumpWriteStream ==
    ASSUME IInv, StreamInv, NEW c \in Clients, PumpWrite(c)
    PROVE  StreamInv'
<1> DEFINE h == send[c][1]
<1>0. h = send[c][1]
  OBVIOUS
<1> HIDE DEF h
<1>1. /\ UNCHANGED <<rooms, pc, call, panicked, posted, done, ctxDone, conn>>
      /\ Len(send'[c]) = Len(send[c]) - 1
      /\ \A i \in 1 .. Len(send'[c]) : /\ i + 1 \in 1 .. Len(send[c])
                                       /\ send'[c][i] = send[c][i + 1]
      /\ \A d \in Clients \ {c} : send'[d] = send[d] /\ last'[d] = last[d]
      /\ h.from \in Threads /\ h.type # "none" /\ h \in Got(c)
      /\ last'[c][h.from] = h
      /\ \A t \in Threads \ {h.from} : last'[c][t] = last[c][t]
      /\ h \in Got(c)' /\ Got(c)' \subseteq Got(c)
      /\ \A e \in Got(c) : e \in Got(c)' \/ e = last[c][h.from]
  BY <1>0, WriteGot
<1>2. /\ TypeOK /\ GotOK(c) /\ GotInv /\ EventsStayInRoom /\ GapInv
      /\ Main \in Threads
  BY DEF IInv, StreamInv, GotInv, Threads
<1>3. /\ \A i \in 1 .. Len(send'[c]) : send'[c][i].type # "none"
      /\ \A t \in Threads : \/ last'[c][t] = NoEvent
                            \/ last'[c][t].from = t /\ last'[c][t].type # "none"
  <2>1. \A i \in 1 .. Len(send'[c]) : send'[c][i].type # "none"
    BY <1>1, <1>2 DEF GotOK
  <2>2. ASSUME NEW t \in Threads
        PROVE  \/ last'[c][t] = NoEvent
               \/ last'[c][t].from = t /\ last'[c][t].type # "none"
    <3>1. CASE t = h.from
      BY <1>1, <3>1
    <3>2. CASE t # h.from
      BY <1>1, <1>2, <3>2 DEF GotOK
    <3> QED
      BY <3>1, <3>2
  <2> QED
    BY <2>1, <2>2
<1>4. GotInv' /\ EventsStayInRoom'
  BY <1>1, <1>2, <1>3, LessGot
<1>5. ASSUME NEW t \in Threads, NEW e \in GotFrom(c, t)
      PROVE  e \in GotFrom(c, t)' \/ (h.from = t /\ h \in GotFrom(c, t) /\ h \in GotFrom(c, t)')
  <2>1. e \in Got(c) /\ e.type # "none" /\ e.from = t
    BY DEF GotFrom
  <2>2. CASE e = last[c][h.from]
    <3>1. last[c][h.from] = NoEvent \/ last[c][h.from].from = h.from
      BY <1>1, <1>2 DEF GotOK
    <3>2. h.from = t
      BY <2>1, <2>2, <3>1 DEF NoEvent, Ev
    <3> QED
      BY <1>1, <3>2 DEF GotFrom
  <2>3. CASE e \in Got(c)'
    BY <2>1, <2>3 DEF GotFrom
  <2> QED
    BY <1>1, <2>1, <2>2, <2>3
<1>6. ASSUME NEW a \in Clients, NEW d \in Clients, Knows(a, d) PROVE Knows(a, d)'
  <2>1. CASE a = c
    <3>1. ASSUME NEW e \in GotFrom(c, d) PROVE GotFrom(c, d)' # {}
      BY <1>5, ClientPlaces
    <3>2. ASSUME NEW e \in GotFrom(c, Main) PROVE e \in GotFrom(c, Main)'
      <4>1. CASE h \in GotFrom(c, Main) /\ h \in GotFrom(c, Main)'
        BY <1>2, <4>1 DEF GotOK
      <4> QED
        BY <1>2, <1>5, <4>1
    <3> QED
      BY <1>6, <2>1, <3>1, <3>2 DEF Knows
  <2>2. CASE a # c
    BY <1>1, <1>6, <2>2, OthersGot
  <2> QED
    BY <2>1, <2>2
<1>7. ASSUME NEW a \in Clients, NEW p \in Posters, ~panicked[p], conn'[a] = "open"
      PROVE  GapOK(a, p)'
  <2>1. GapOK(a, p)
    BY <1>1, <1>2, <1>7 DEF GapInv
  <2>2. CASE a = c
    BY <2>1, <2>2, WriteGap
  <2>3. CASE a # c
    <3>1. Numbers(a, p)' = Numbers(a, p) /\ (InOrder(a, p)' <=> InOrder(a, p))
      BY <1>1, <2>3, OthersGot
    <3> QED
      BY <1>1, <2>1, <3>1, GapSame DEF Registered, Due
  <2> QED
    BY <2>2, <2>3
<1> QED
  BY <1>1, <1>4, <1>6, <1>7, SocketStep

----------------------------------------------------------------------------
(* Delivery                                                                 *)

(* The event a thread puts in a client's queue, and what the client then    *)
(* has got.                                                                 *)
LEMMA EnqueueGot ==
    ASSUME IInv, StreamInv, NEW t \in Threads, SendNow(t),
           NEW c \in call[t].todo, Enqueue(t, c), NEW e, e = call[t].event
    PROVE  /\ UNCHANGED <<rooms, panicked, posted, done, ctxDone, conn, last>>
           /\ c \in Clients /\ RoomOf[c] = RoomOf[t] /\ t # Main
           /\ conn[c] # "none" /\ Phase(c) \notin Outside
           /\ Sole(t) /\ Phase(t)' = Phase(t) /\ Phase(t) = call[t].ret /\ FrameOK(t)'
           /\ call'[t].todo = call[t].todo \ {c}
           /\ \A d \in Clients : /\ Due(t, d) <=> d \in call[t].todo
                                 /\ Due(t, d)' <=> d \in call[t].todo \ {c}
           /\ call'[t].todo # {} => call'[t].event = e
           /\ Len(send[c]) \in Nat /\ Len(send'[c]) = Len(send[c]) + 1
           /\ \A i \in 1 .. Len(send[c]) : send'[c][i] = send[c][i]
           /\ send'[c][Len(send[c]) + 1] = e
           /\ \A d \in Clients \ {c} : send'[d] = send[d]
           /\ e.type # "none"
           /\ \/ t \in Clients /\ t = c /\ call[t].ret = "announce" /\ e.from = Main
              \/ (t \in Clients => call[t].ret # "announce") /\ e.from = t
           /\ t \in Posters => posted[t] > 0 /\ e.n = posted[t] /\ e.from = t
           /\ Got(c)' = Got(c) \cup {e}
<1> DEFINE f == [call[t] EXCEPT !.todo = @ \ {c}]
<1>1. /\ TypeOK /\ FrameInv /\ UpgradedInv /\ FrameOK(t)
      /\ pc[t] \in CallPcs /\ pc[t] = "send"
  BY DEF IInv, StreamInv, FrameInv, SendNow, CallPcs
<1>2. call[t] \in Frame /\ call[t].ret \in OwnPcs(t) /\ Phase(t) = call[t].ret
  BY <1>1, InCall
<1>3. /\ c \in Clients /\ f.ret = call[t].ret
      /\ f.event = e /\ f.todo = call[t].todo \ {c} /\ f.target = call[t].target
  BY <1>2 DEF Frame
<1>4. /\ UNCHANGED <<rooms, panicked, posted, done, ctxDone, conn, last>>
      /\ send' = [send EXCEPT ![c] = Append(@, e)] /\ Resume(t, f)
  BY DEF SendNow, Enqueue, hubVars, histVars, pumpVars
<1> HIDE DEF f
<1>5. RoomOf[c] = RoomOf[t] /\ t # Main /\ Sends(t, e)
  BY <1>1 DEF FrameOK
<1>6. conn[c] # "none" /\ Phase(c) \notin Outside
  BY <1>1, <1>3 DEF UpgradedInv, UpgradedOK, Due
<1>7. /\ Sole(t)
      /\ f.todo = {} => pc'[t] = f.ret /\ call'[t] = NoCall
      /\ f.todo # {} => pc'[t] = "send" /\ call'[t] = f
  BY <1>1, <1>4, <1>5, ResumeAt
<1>8. call[t].ret \notin CallPcs
  BY <1>2, OwnPlaces
<1>9. /\ call'[t].todo = call[t].todo \ {c} /\ pc'[t] # "closeDone"
      /\ call'[t].todo # {} => call'[t].event = e /\ call'[t].ret = call[t].ret
      /\ Phase(t)' = Phase(t)
      /\ pc'[t] \notin CallPcs => call'[t] = NoCall
  <2>1. NoCall.todo = {}
    BY DEF NoCall
  <2> QED
    BY <1>2, <1>3, <1>7, <1>8, <2>1 DEF Phase, CallPcs
<1>10. FrameOK(t)'
  BY <1>1, <1>4, <1>5, <1>9, FrameGoesOn
<1>11. \A d \in Clients : /\ Due(t, d) <=> d \in call[t].todo
                          /\ Due(t, d)' <=> d \in call[t].todo \ {c}
  BY <1>1, <1>9 DEF Due
<1>12. /\ Len(send[c]) \in Nat /\ Len(send'[c]) = Len(send[c]) + 1
       /\ \A i \in 1 .. Len(send[c]) : send'[c][i] = send[c][i]
       /\ send'[c][Len(send[c]) + 1] = e
       /\ \A d \in Clients \ {c} : send'[d] = send[d]
  <2>1. /\ send[c] \in Seq(Event) /\ e \in Event /\ send'[c] = Append(send[c], e)
        /\ \A d \in Clients \ {c} : send'[d] = send[d]
    BY <1>1, <1>2, <1>3, <1>4 DEF TypeOK, Frame
  <2> QED
    BY <2>1
<1>13. /\ e.type # "none"
       /\ \/ t \in Clients /\ t = c /\ call[t].ret = "announce" /\ e.from = Main
          \/ (t \in Clients => call[t].ret # "announce") /\ e.from = t
       /\ t \in Posters => posted[t] > 0 /\ e.n = posted[t] /\ e.from = t
  <2>1. CASE t \in Posters
    <3>1. t \notin Clients
      BY <2>1, ThreadsAssumption
    <3>2. posted[t] > 0 /\ e.n = posted[t] /\ e.from = t /\ e.type = "message.new"
      BY <1>5, <2>1 DEF Sends, NewMessage, Ev
    <3> QED
      BY <3>1, <3>2
  <2>2. CASE t \in Clients
    <3>1. t \notin Posters
      BY <2>2, ThreadsAssumption
    <3> QED
      BY <1>5, <2>2, <3>1 DEF Sends
  <2> QED
    BY <1>5, <2>1, <2>2 DEF Threads
<1>14. Got(c)' = Got(c) \cup {e}
  <2>1. 1 .. Len(send'[c]) = (1 .. Len(send[c])) \cup {Len(send[c]) + 1}
    BY <1>12
  <2>2. last'[c] = last[c]
    BY <1>4
  <2> DEFINE L == {last[c][u] : u \in Threads}
             Q == {send[c][i] : i \in 1 .. Len(send[c])}
  <2>3. {send'[c][i] : i \in 1 .. Len(send'[c])} = Q \cup {e}
    <3>1. \A i \in 1 .. Len(send'[c]) : send'[c][i] \in Q \cup {e}
      BY <1>12, <2>1
    <3>2. \A x \in Q \cup {e} : \E i \in 1 .. Len(send'[c]) : x = send'[c][i]
      BY <1>12, <2>1
    <3> QED
      BY <3>1, <3>2
  <2>4. {last'[c][u] : u \in Threads} = L
    BY <2>2
  <2>5. Got(c) = L \cup Q /\ Got(c)' = L \cup (Q \cup {e})
    BY <2>3, <2>4 DEF Got
  <2> QED
    BY <2>5
<1> QED
  BY <1>2, <1>3, <1>4, <1>5, <1>6, <1>7, <1>9, <1>10, <1>11, <1>12, <1>13, <1>14

(* The numbers the client then has of the poster that is delivering: it had *)
(* got all up to the one before.                                            *)
LEMMA EnqueueGap ==
    ASSUME IInv, StreamInv, NEW p \in Posters, SendNow(p),
           NEW c \in call[p].todo, Enqueue(p, c), GapOK(c, p)
    PROVE  GapOK(c, p)'
<1> DEFINE e == call[p].event
           k == posted[p]
<1>0. e = call[p].event /\ p \in Threads
  BY DEF Threads
<1> HIDE DEF e
<1>1. /\ c \in Clients /\ posted' = posted /\ last' = last
      /\ Due(p, c) /\ ~Due(p, c)'
      /\ Len(send[c]) \in Nat /\ Len(send'[c]) = Len(send[c]) + 1
      /\ \A i \in 1 .. Len(send[c]) : send'[c][i] = send[c][i]
      /\ send'[c][Len(send[c]) + 1] = e
      /\ e.type # "none" /\ k > 0 /\ e.n = k /\ e.from = p
      /\ Got(c)' = Got(c) \cup {e}
  BY <1>0, EnqueueGot
<1>2. /\ TypeOK /\ GotOK(c) /\ k \in Nat
      /\ last[c][p] = NoEvent \/ (last[c][p].from = p /\ last[c][p].type # "none")
      /\ last[c][p] \in Got(c)
  <2>1. TypeOK /\ GotOK(c)
    BY <1>1 DEF IInv, StreamInv, GotInv
  <2>2. k \in Nat
    BY <2>1 DEF TypeOK
  <2> QED
    BY <1>0, <2>1, <2>2 DEF GotOK, Got
<1>3. GotFrom(c, p)' = GotFrom(c, p) \cup {e}
  BY <1>1 DEF GotFrom
<1>4. Numbers(c, p)' = Numbers(c, p) \cup {k}
  BY <1>1, <1>3 DEF Numbers
<1>5. /\ InOrder(c, p)
      /\ \A a, b \in Numbers(c, p) : a .. b \subseteq Numbers(c, p)
      /\ \A m \in Numbers(c, p) : m \in 1 .. k
      /\ Numbers(c, p) # {} => k - 1 \in Numbers(c, p)
      /\ \A m \in Numbers(c, p) : m <= k - 1
  BY <1>1 DEF GapOK, UpTo
<1>6. \A m \in Numbers(c, p) : m \in Nat /\ m >= 1 /\ m < k
  BY <1>2, <1>5
<1>7. InOrder(c, p)'
  <2> SUFFICES ASSUME NEW i \in 1 .. Len(send'[c]), send'[c][i].from = p
               PROVE  /\ last'[c][p].n < send'[c][i].n
                      /\ \A j \in 1 .. i - 1 :
                            send'[c][j].from = p => send'[c][j].n < send'[c][i].n
    BY DEF InOrder
  <2>1. CASE i \in 1 .. Len(send[c])
    <3>1. send'[c][i] = send[c][i]
          /\ \A j \in 1 .. i - 1 : send'[c][j] = send[c][j]
      BY <1>1, <2>1
    <3> QED
      BY <1>1, <1>5, <2>1, <3>1 DEF InOrder
  <2>2. CASE i = Len(send[c]) + 1
    <3>1. send'[c][i].n = k
      BY <1>1, <2>2
    <3>2. last'[c][p].n < k
      <4>1. CASE last[c][p] = NoEvent
        BY <1>1, <1>2, <4>1 DEF NoEvent, Ev
      <4>2. CASE last[c][p].from = p /\ last[c][p].type # "none"
        <5>1. last[c][p].n \in Numbers(c, p)
          BY <1>2, <4>2 DEF Numbers, GotFrom
        <5> QED
          BY <1>1, <1>6, <5>1
      <4> QED
        BY <1>2, <4>1, <4>2
    <3>3. ASSUME NEW j \in 1 .. i - 1, send'[c][j].from = p
          PROVE  send'[c][j].n < k
      <4>1. j \in 1 .. Len(send[c]) /\ send'[c][j] = send[c][j]
        BY <1>1, <2>2
      <4>2. send[c][j] \in Got(c) /\ send[c][j].type # "none"
        BY <1>2, <4>1 DEF GotOK, Got
      <4>3. send[c][j].n \in Numbers(c, p)
        BY <3>3, <4>1, <4>2 DEF Numbers, GotFrom
      <4> QED
        BY <1>6, <4>1, <4>3
    <3> QED
      BY <3>1, <3>2, <3>3
  <2> QED
    BY <1>1, <2>1, <2>2
<1>8. ASSUME NEW a \in Numbers(c, p)', NEW b \in Numbers(c, p)', NEW x \in a .. b
      PROVE  x \in Numbers(c, p)'
  <2>1. CASE b \in Numbers(c, p)
    <3>1. a \in Numbers(c, p)
      BY <1>2, <1>4, <1>6, <2>1
    <3> QED
      BY <1>4, <1>5, <2>1, <3>1
  <2>2. CASE b = k
    <3>1. CASE x = k
      BY <1>4, <3>1
    <3>2. CASE x # k
      <4>1. a \in Numbers(c, p) /\ x \in a .. (k - 1)
        BY <1>2, <1>4, <1>6, <2>2, <3>2
      <4>2. k - 1 \in Numbers(c, p)
        BY <1>5, <4>1
      <4> QED
        BY <1>4, <1>5, <4>1, <4>2
    <3> QED
      BY <3>1, <3>2
  <2> QED
    BY <1>4, <2>1, <2>2
<1>9. \A m \in Numbers(c, p)' : m \in 1 .. posted'[p]
  BY <1>1, <1>2, <1>4, <1>5
<1>10. UpTo(c, p, posted[p])'
  BY <1>1, <1>2, <1>4, <1>6 DEF UpTo
<1> QED
  BY <1>1, <1>7, <1>8, <1>9, <1>10 DEF GapOK

LEMMA EnqueueStream ==
    ASSUME IInv, StreamInv, NEW t \in Threads, SendNow(t),
           NEW c \in call[t].todo, Enqueue(t, c)
    PROVE  StreamInv'
<1> DEFINE e == call[t].event
<1>0. e = call[t].event
  OBVIOUS
<1> HIDE DEF e
<1>1. /\ UNCHANGED <<rooms, panicked, posted, done, ctxDone, conn, last>>
      /\ c \in Clients /\ RoomOf[c] = RoomOf[t] /\ t # Main
      /\ conn[c] # "none" /\ Phase(c) \notin Outside
      /\ Sole(t) /\ Phase(t)' = Phase(t) /\ Phase(t) = call[t].ret /\ FrameOK(t)'
      /\ call'[t].todo = call[t].todo \ {c}
      /\ \A d \in Clients : /\ Due(t, d) <=> d \in call[t].todo
                            /\ Due(t, d)' <=> d \in call[t].todo \ {c}
      /\ call'[t].todo # {} => call'[t].event = e
      /\ Len(send[c]) \in Nat /\ Len(send'[c]) = Len(send[c]) + 1
      /\ \A i \in 1 .. Len(send[c]) : send'[c][i] = send[c][i]
      /\ send'[c][Len(send[c]) + 1] = e
      /\ \A d \in Clients \ {c} : send'[d] = send[d]
      /\ e.type # "none"
      /\ \/ t \in Clients /\ t = c /\ call[t].ret = "announce" /\ e.from = Main
         \/ (t \in Clients => call[t].ret # "announce") /\ e.from = t
      /\ t \in Posters => e.from = t
      /\ Got(c)' = Got(c) \cup {e}
  BY <1>0, EnqueueGot
<1>2. /\ FrameInv /\ UpgradedInv /\ SettledInv /\ GotInv
      /\ EventsStayInRoom /\ LearnInv /\ GapInv
      /\ Main \in Threads /\ Main \notin Clients \cup Posters
  BY ThreadsAssumption DEF StreamInv, Threads
<1>3. /\ \A d \in Clients : Phase(d)' = Phase(d)
      /\ \A d \in Clients : Registered(d)' <=> Registered(d)
  BY <1>1, ClientPlaces, SoleKeeps DEF Registered
<1>4. \A u : GotFrom(c, u)' = GotFrom(c, u) \cup (IF e.from = u THEN {e} ELSE {})
  BY <1>1 DEF GotFrom
<1>5. FrameInv'
  BY <1>1, <1>2, FrameByOne
<1>6. UpgradedInv'
  <2>1. \A d \in Clients : Due(t, d)' => conn'[d] # "none" /\ Phase(d)' \notin Outside
    BY <1>1, <1>2, <1>3 DEF UpgradedInv, UpgradedOK
  <2>2. t \in Clients => /\ Phase(t)' = "start" => conn'[t] = "none"
                         /\ Phase(t)' \notin {"start", "ended"} => conn'[t] # "none"
    BY <1>1, <1>2 DEF UpgradedInv, UpgradedOK
  <2> QED
    BY <1>1, <1>2, <1>3, <2>1, <2>2, UpgradedByOne
<1>7. SettledInv'
  <2>1. t \in Clients => SettledOK(t)'
    <3> SUFFICES ASSUME t \in Clients PROVE SettledOK(t)'
      OBVIOUS
    <3>1. SettledOK(t) /\ pc[t] # "closeDone"
      BY <1>2 DEF SettledInv, SendNow
    <3> QED
      BY <1>1, <1>3, <3>1 DEF SettledOK
  <2>2. \A d \in Clients : done[d] => ctxDone[d] /\ conn[d] = "closed"
    BY <1>2 DEF SettledInv, SettledOK
  <2> QED
    BY <1>1, <1>2, <1>3, <2>1, <2>2, SettledByOne
<1>8. EventsStayInRoom'
  <2> SUFFICES ASSUME NEW d \in Clients, NEW u \in Clients \cup Posters,
                      GotFrom(d, u)' # {}
               PROVE  RoomOf[u] = RoomOf[d]
    BY DEF EventsStayInRoom
  <2>1. CASE GotFrom(d, u) # {}
    BY <1>2, <2>1 DEF EventsStayInRoom
  <2>2. CASE GotFrom(d, u) = {}
    <3>1. d = c
      BY <1>1, <2>2, OthersGot DEF Threads
    <3>2. e.from = u
      BY <1>4, <2>2, <3>1
    <3> QED
      BY <1>1, <1>2, <3>1, <3>2
  <2> QED
    BY <2>1, <2>2
<1>9. GotInv'
  <2> SUFFICES ASSUME NEW d \in Clients PROVE GotOK(d)'
    BY DEF GotInv
  <2>1. GotOK(d) /\ Phase(d)' = Phase(d) /\ d \in Threads
    BY <1>2, <1>3, ClientPlaces DEF GotInv
  <2>2. call'[d].todo \subseteq call[d].todo
    BY <1>1, <2>1 DEF Sole
  <2>3. CASE d # c
    <3>1. Got(d)' = Got(d) /\ GotFrom(d, Main)' = GotFrom(d, Main)
          /\ send'[d] = send[d] /\ last'[d] = last[d] /\ conn'[d] = conn[d]
      BY <1>1, <1>2, <2>3, OthersGot
    <3> QED
      BY <2>1, <2>2, <3>1 DEF GotOK
  <2>4. CASE d = c
    <3>1. \A i \in 1 .. Len(send'[d]) : send'[d][i].type # "none"
      <4> SUFFICES ASSUME NEW i \in 1 .. Len(send'[d]) PROVE send'[d][i].type # "none"
        OBVIOUS
      <4>1. i \in 1 .. Len(send[c]) \/ i = Len(send[c]) + 1
        BY <1>1, <2>4
      <4> QED
        BY <1>1, <2>1, <2>4, <4>1 DEF GotOK
    <3>2. CASE e.from = Main
      <4>1. t = c /\ Phase(d) = "announce" /\ c \in call[c].todo
        BY <1>1, <1>2, <2>4, <3>2 DEF Threads
      <4>2. GotFrom(d, Main) = {}
        BY <2>1, <2>4, <4>1 DEF GotOK
      <4>3. GotFrom(d, Main)' = {e}
        BY <1>4, <2>4, <3>2, <4>2
      <4>4. c \notin call'[c].todo
        BY <1>1, <4>1
      <4> QED
        BY <1>1, <2>1, <2>4, <3>1, <4>1, <4>3, <4>4 DEF GotOK, Outside
    <3>3. CASE e.from # Main
      <4>1. GotFrom(d, Main)' = GotFrom(d, Main)
        BY <1>4, <2>4, <3>3
      <4> QED
        BY <1>1, <2>1, <2>2, <2>4, <3>1, <4>1 DEF GotOK
    <3> QED
      BY <3>2, <3>3
  <2> QED
    BY <2>3, <2>4
<1>10. \A a, d \in Clients : Knows(a, d) => Knows(a, d)'
  <2> SUFFICES ASSUME NEW a \in Clients, NEW d \in Clients, Knows(a, d)
               PROVE  Knows(a, d)'
    OBVIOUS
  <2>1. CASE a = c
    BY <1>4, <2>1 DEF Knows
  <2>2. CASE a # c
    BY <1>1, <2>2, OthersGot
  <2> QED
    BY <2>1, <2>2
<1>11. LearnInv'
  <2>1. ASSUME t \in Clients, NEW d \in Clients \ {t}
        PROVE  (Meet(t, d)' => Learns(t, d)') /\ (Meet(d, t)' => Learns(d, t)')
    <3>1. /\ d \in Threads /\ call'[d] = call[d]
          /\ (Due(d, t)' <=> Due(d, t)) /\ (Due(d, d)' <=> Due(d, d))
      <4>1. d \in Threads \ {t}
        BY ClientPlaces
      <4> QED
        BY <1>1, <2>1, <4>1, SoleKeeps DEF Sole
    <3>2. (Meet(t, d)' => Meet(t, d)) /\ (Meet(d, t)' => Meet(d, t))
      BY <1>1, <1>3, <2>1 DEF Meet, Active
    <3>3. (Meet(t, d) => Learns(t, d)) /\ (Meet(d, t) => Learns(d, t))
      BY <1>2, <2>1 DEF LearnInv
    <3>4. Meet(t, d)' => Learns(t, d)'
      <4>1. CASE Phase(t) = "announce" /\ Due(t, t) /\ UserOf[d] \in call[t].event.online
        <5>1. e.from = Main /\ t = c
          BY <1>1, <2>1, <4>1
        <5>2. e \in GotFrom(t, Main)'
          BY <1>4, <5>1
        <5>3. Knows(t, d)'
          BY <1>0, <4>1, <5>2 DEF Knows
        <5> QED
          BY <5>3 DEF Learns
      <4>2. CASE ~(Phase(t) = "announce" /\ Due(t, t) /\ UserOf[d] \in call[t].event.online)
        BY <1>3, <1>10, <2>1, <3>1, <3>2, <3>3, <4>2 DEF Learns
      <4> QED
        BY <4>1, <4>2
    <3>5. Meet(d, t)' => Learns(d, t)'
      <4>1. CASE Phase(t) = "serve" /\ Due(t, d) /\ d = c
        <5>1. e.from = t
          BY <1>1, <4>1
        <5>2. GotFrom(d, t)' # {}
          BY <1>4, <4>1, <5>1
        <5> QED
          BY <5>2 DEF Learns, Knows
      <4>2. CASE ~(Phase(t) = "serve" /\ Due(t, d) /\ d = c)
        <5>1. Phase(t) = "serve" /\ Due(t, d) => Due(t, d)'
          BY <1>1, <2>1, <4>2
        <5> QED
          BY <1>3, <1>10, <2>1, <3>1, <3>2, <3>3, <5>1 DEF Learns
      <4> QED
        BY <4>1, <4>2
    <3> QED
      BY <3>4, <3>5
  <2> QED
    BY <1>1, <1>2, <1>3, <1>10, <2>1, LearnByOne
<1>12. GapInv'
  <2>1. ASSUME NEW a \in Clients, NEW p \in Posters \ {t}
        PROVE  Numbers(a, p)' = Numbers(a, p) /\ (InOrder(a, p) => InOrder(a, p)')
    <3>1. CASE a # c
      BY <1>1, <3>1, OthersGot
    <3>2. CASE a = c
      <4>1. e.from # p
        BY <1>1, <1>2
      <4>2. Numbers(c, p)' = Numbers(c, p)
        BY <1>4, <4>1 DEF Numbers
      <4>3. ASSUME InOrder(c, p) PROVE InOrder(c, p)'
        <5> SUFFICES ASSUME NEW i \in 1 .. Len(send'[c]), send'[c][i].from = p
                     PROVE  /\ last'[c][p].n < send'[c][i].n
                            /\ \A j \in 1 .. i - 1 :
                                  send'[c][j].from = p => send'[c][j].n < send'[c][i].n
          BY DEF InOrder
        <5>1. i \in 1 .. Len(send[c])
          BY <1>1, <4>1
        <5>2. send'[c][i] = send[c][i] /\ \A j \in 1 .. i - 1 : send'[c][j] = send[c][j]
          BY <1>1, <5>1
        <5> QED
          BY <1>1, <4>3, <5>1, <5>2 DEF InOrder
      <4> QED
        BY <3>2, <4>2, <4>3
    <3> QED
      BY <3>1, <3>2
  <2>2. ASSUME t \in Posters, NEW a \in Clients, ~panicked'[t], conn'[a] = "open"
        PROVE  GapOK(a, t)'
    <3>1. GapOK(a, t)
      BY <1>1, <1>2, <2>2 DEF GapInv
    <3>2. CASE a = c
      BY <2>2, <3>1, <3>2, EnqueueGap
    <3>3. CASE a # c
      <4>1. Numbers(a, t)' = Numbers(a, t) /\ (InOrder(a, t)' <=> InOrder(a, t))
        BY <1>1, <2>2, <3>3, OthersGot
      <4>2. Due(t, a)' <=> Due(t, a)
        BY <1>1, <3>3
      <4> QED
        BY <1>1, <1>3, <2>2, <3>1, <4>1, <4>2, GapSame
    <3> QED
      BY <3>2, <3>3
  <2> QED
    BY <1>1, <1>2, <1>3, <2>1, <2>2, GapByOne
<1> QED
  BY <1>5, <1>6, <1>7, <1>8, <1>9, <1>11, <1>12 DEF StreamInv

LEMMA SendNowStream ==
    ASSUME IInv, StreamInv, NEW t \in Threads, SendNow(t)
    PROVE  StreamInv'
<1> PICK c \in call[t].todo : Enqueue(t, c) \/ DropSlow(t, c)
  BY DEF SendNow
<1>1. CASE Enqueue(t, c)
  BY <1>1, EnqueueStream
<1>2. CASE DropSlow(t, c)
  BY <1>2, SelectStream DEF DropSlow, SendNow, hubVars, histVars, pumpVars
<1> QED
  BY <1>1, <1>2

----------------------------------------------------------------------------
(* The invariant                                                            *)

LEMMA InitStream == Init => StreamInv
<1> SUFFICES ASSUME Init PROVE StreamInv
  OBVIOUS
<1>1. \A c \in Clients : /\ c \in Threads /\ c # Main /\ pc[c] = "start" /\ Phase(c) = "start"
                         /\ ~Registered(c) /\ Got(c) \subseteq {NoEvent}
                         /\ ~done[c] /\ conn[c] = "none"
                         /\ send[c] = <<>> /\ \A t \in Threads : last[c][t] = NoEvent
  BY PlacementAssumption, ThreadsAssumption
     DEF Init, Registered, Phase, CallPcs, Threads, Got
<1>2. \A t \in Threads : /\ pc[t] \in {"start", "idle"} /\ call[t] = NoCall
                         /\ call[t].todo = {}
  BY DEF Init, NoCall
<1>3. NoEvent.type = "none"
  BY DEF NoEvent, Ev
<1>4. \A c \in Clients, t \in Threads : ~Due(t, c) /\ GotFrom(c, t) = {}
  BY <1>1, <1>2, <1>3 DEF Due, GotFrom
<1>5. FrameInv
  BY <1>2 DEF FrameInv, FrameOK, CallPcs
<1>6. UpgradedInv
  BY <1>1, <1>4 DEF UpgradedInv, UpgradedOK
<1>7. SettledInv
  BY <1>1 DEF SettledInv, SettledOK
<1>8. GotInv
  <2>1. Main \in Threads
    BY DEF Threads
  <2> QED
    BY <1>1, <1>4, <2>1 DEF GotInv, GotOK
<1>9. EventsStayInRoom
  BY <1>4 DEF EventsStayInRoom, Threads
<1>10. LearnInv
  BY <1>1 DEF LearnInv, Meet, Active
<1>11. GapInv
  BY <1>1 DEF GapInv
<1> QED
  BY <1>5, <1>6, <1>7, <1>8, <1>9, <1>10, <1>11 DEF StreamInv

LEMMA StutterStream == ASSUME StreamInv, UNCHANGED vars PROVE StreamInv'
<1>1. /\ UNCHANGED <<rooms, pc, call, panicked, posted, done, ctxDone, send, last, conn>>
  BY DEF vars
<1>2. Main \in Threads /\ Main \notin Clients \cup Posters
  BY ThreadsAssumption DEF Threads
<1>3. Sole(Main) /\ FrameOK(Main)'
  BY <1>1, <1>2 DEF Sole, StreamInv, FrameInv, FrameOK, Sends, Phase
<1>4. \A c \in Clients : Registered(c)' => Registered(c)
  BY <1>1 DEF Registered
<1>5. \A c \in Clients : Due(Main, c)' => conn[c] # "none" /\ Phase(c) \notin Outside
  BY <1>1, <1>2 DEF StreamInv, UpgradedInv, UpgradedOK, Due
<1> QED
  BY <1>1, <1>2, <1>3, <1>4, <1>5, OutsiderStep

LEMMA NextStream == IInv /\ StreamInv /\ [Next]_vars => StreamInv'
<1> SUFFICES ASSUME IInv, StreamInv, [Next]_vars PROVE StreamInv'
  OBVIOUS
<1>1. CASE UNCHANGED vars
  BY <1>1, StutterStream
<1>2. ASSUME NEW c \in Clients, Upgrade(c) PROVE StreamInv'
  BY <1>2, UpgradeStream
<1>3. ASSUME NEW c \in Clients, Run(c) PROVE StreamInv'
  BY <1>3, JoinStream, SendPresenceStream, AnnounceStream, ServeStream, ReadErrorStream,
     LeaveStream, FarewellStream, FinishStream DEF Run
<1>4. ASSUME NEW c \in Clients, Typing(c) PROVE StreamInv'
  BY <1>4, TypingStream
<1>5. ASSUME NEW c \in Clients, Pump(c) \/ PeerDisconnect(c) PROVE StreamInv'
  BY <1>5, PumpWriteStream, PumpFailStream, QuietSocketStream DEF Pump
<1>6. ASSUME NEW p \in Posters, Post(p) PROVE StreamInv'
  BY <1>6, PostStream
<1>7. CASE HubClose \/ CloseEach
  BY <1>7, HubCloseStream, CloseEachStream
<1>8. ASSUME NEW t \in Threads, Call(t) PROVE StreamInv'
  BY <1>8, SendNowStream, CloseDoneStream DEF Call
<1> QED
  BY <1>1, <1>2, <1>3, <1>4, <1>5, <1>6, <1>7, <1>8 DEF Next, Step

(* Streams, announcements and what ends with a connection, in every         *)
(* behaviour of the hub.                                                    *)
THEOREM StreamInvariant == Spec => []StreamInv
BY InitStream, NextStream, Invariant, PTL DEF Spec

(* A connection's goroutine that ends without a panic has left the hub,     *)
(* cancelled its context and closed its socket (client.go run).             *)
THEOREM EndsReleasedCorrect == Spec => []EndsReleased
<1>1. StreamInv => EndsReleased
  <2> SUFFICES ASSUME StreamInv, NEW c \in Clients,
                      pc[c] = "ended", ~panicked[c], conn[c] # "none"
               PROVE  ~Registered(c) /\ done[c] /\ ctxDone[c] /\ conn[c] = "closed"
    BY DEF EndsReleased
  <2>1. SettledOK(c) /\ Phase(c) = "ended" /\ pc[c] # "closeDone"
    BY DEF StreamInv, SettledInv, Phase, CallPcs
  <2> QED
    BY <2>1 DEF SettledOK
<1> QED
  BY <1>1, StreamInvariant, PTL

(* No connection gets an event of another room (Hub.Broadcast).             *)
THEOREM EventsStayInRoomCorrect == Spec => []EventsStayInRoom
<1>1. StreamInv => EventsStayInRoom
  BY DEF StreamInv
<1> QED
  BY <1>1, StreamInvariant, PTL

(* Two connections served in one room know of each other, in whatever order *)
(* they joined, read the presence list and announced themselves.            *)
THEOREM PresenceCompleteCorrect == Spec => []PresenceComplete
<1>1. StreamInv => PresenceComplete
  <2> SUFFICES ASSUME StreamInv, NEW c \in Clients, NEW d \in Clients,
                      c # d, RoomOf[c] = RoomOf[d], Serving(c), Serving(d)
               PROVE  Knows(c, d)
    BY DEF PresenceComplete
  <2>1. Meet(c, d) /\ Phase(c) = "read" /\ Phase(d) = "read"
    BY DEF Serving, Meet, Active
  <2>2. Learns(c, d)
    BY <2>1 DEF StreamInv, LearnInv
  <2> QED
    BY <2>1, <2>2 DEF Learns
<1> QED
  BY <1>1, StreamInvariant, PTL

(* A client that cannot keep up is dropped, never skipped (sendNow): the    *)
(* messages of a poster that an open connection has got are in order and    *)
(* without a gap, whatever the buffer size.                                 *)
THEOREM NoSilentGapCorrect == Spec => []NoSilentGap
<1>1. StreamInv => NoSilentGap
  BY DEF StreamInv, GapInv, GapOK, NoSilentGap
<1> QED
  BY <1>1, StreamInvariant, PTL

=============================================================================
