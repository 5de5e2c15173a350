------------------------------- MODULE Server -------------------------------
(* The process: run in cmd/server/main.go from the opening of the database  *)
(* to its deferred calls, server.Run's serving and draining, the middleware *)
(* chain that a request goes through (Recover, Observe), and the platform,  *)
(* which starts an instance again that failed and stops and wakes others as *)
(* it likes (fly.toml).  Handlers are in the other modules: here one        *)
(* answers, upgrades to a websocket, panics or hangs.                       *)
EXTENDS Migrate, FiniteSets

CONSTANTS
    Requests, Sockets,  \* requests, and those for the websocket route
    Home,               \* the instance a request is sent to
    MaxFaults           \* bound on signals, crashes and failures

ASSUME ServerAssumption ==
    /\ IsFiniteSet(Requests) /\ Sockets \subseteq Requests
    /\ Home \in [Requests -> Servers]
    /\ MaxFaults \in Nat

VARIABLES
    signalled,  \* instances told to end
    at,         \* per request: its place
    hijacked,   \* sockets that net/http has handed over
    inFlight,   \* per instance: the gauge
    counted,    \* per instance: completed requests, all routes together
    faults      \* how many faults there have been

process == <<pc, failed, signalled>>
serving == <<at, hijacked, inFlight, counted>>
migrate == <<base, memory, tx, lost>>
vars    == <<pc, table, schema, recorded, todo, doing, made, rows, failed,
             lost, signalled, at, hijacked, inFlight, counted, faults>>

Init ==
    /\ MigrateInit
    /\ pc = [i \in Servers |-> "down"]
    /\ failed = {}
    /\ signalled = {}
    /\ at = [q \in Requests |-> "new"]
    /\ hijacked = {}
    /\ inFlight = [i \in Servers |-> 0]
    /\ counted = [i \in Servers |-> 0]
    /\ faults = 0

Fault == faults < MaxFaults /\ faults' = faults + 1

----------------------------------------------------------------------------
(* The main goroutine *)

\* "the process exits and fly restarts it" (fly.toml:19-20); one that was told
\* to end stays so until somebody wants it (:27-29).
Off == {"down", "stopped"}

\* A new process: an empty registry, an open hub.
NewProcess(i) ==
    /\ GoTo(i, "open")
    /\ failed' = failed \ {i}
    /\ signalled' = signalled \ {i}
    /\ inFlight' = [inFlight EXCEPT ![i] = 0]
    /\ counted' = [counted EXCEPT ![i] = 0]
    /\ UNCHANGED <<migrate, at, hijacked, faults>>

Start(i) == pc[i] = "down" /\ NewProcess(i)
Wake(i)  == pc[i] = "stopped" /\ NewProcess(i)

\* config.Load, store.Open.
Open(i) ==
    /\ pc[i] = "open"
    /\ GoTo(i, "ensure table")
    /\ UNCHANGED <<failed, signalled, migrate, serving, faults>>

OpenFails(i) ==
    /\ pc[i] = "open"
    /\ Fault
    /\ GoTo(i, "down")
    /\ UNCHANGED <<failed, signalled, migrate, serving>>

\* NewTokenService returns an error: the hub has not been made.
SetupFails(i) ==
    /\ pc[i] = "listen"
    /\ Fault
    /\ failed' = failed \cup {i}
    /\ GoTo(i, "close db")
    /\ UNCHANGED <<signalled, migrate, serving>>

Listen(i) ==
    /\ pc[i] = "listen"
    /\ GoTo(i, "serving")
    /\ UNCHANGED <<failed, signalled, migrate, serving, faults>>

\* The address is taken, or Serve returns of itself: nothing is drained.
ServeFails(i) ==
    /\ pc[i] \in {"listen", "serving"}
    /\ Fault
    /\ failed' = failed \cup {i}
    /\ GoTo(i, "close hub")
    /\ UNCHANGED <<signalled, migrate, serving>>

\* SIGINT or SIGTERM.
Signal(i) ==
    /\ pc[i] = "serving"
    /\ Fault
    /\ signalled' = signalled \cup {i}
    /\ GoTo(i, "draining")
    /\ UNCHANGED <<failed, migrate, serving>>

Inside == {"running", "joined", "answered", "released"}

\* The requests that srv.Shutdown waits for.
Waited(i) ==
    {q \in Requests : Home[q] = i /\ at[q] \in Inside /\ q \notin hijacked}

\* Mutant: the hub is closed and the process ends without waiting.
DrainNothing(i) ==
    /\ pc[i] = "draining"
    /\ GoTo(i, "close hub")
    /\ UNCHANGED <<failed, signalled, migrate, serving, faults>>

Drained(i) ==
    /\ pc[i] = "draining" /\ Waited(i) = {}
    /\ GoTo(i, "close hub")
    /\ UNCHANGED <<failed, signalled, migrate, serving, faults>>

\* Mutant: Shutdown is given a context that does not end.
DrainForever(i) ==
    /\ pc[i] = "draining" /\ Waited(i) # {}
    /\ UNCHANGED vars

\* ShutdownTimeout: Shutdown gives up and run returns its error.
DrainTimeout(i) ==
    /\ pc[i] = "draining" /\ Waited(i) # {}
    /\ failed' = failed \cup {i}
    /\ GoTo(i, "close hub")
    /\ UNCHANGED <<signalled, migrate, serving, faults>>

\* run's deferred calls, last first: hub.Close ends the sockets that joined; ...
CloseHub(i) ==
    /\ pc[i] = "close hub"
    /\ at' = [q \in Requests |->
                IF Home[q] = i /\ at[q] = "joined" THEN "answered" ELSE at[q]]
    /\ GoTo(i, "close db")
    /\ UNCHANGED <<failed, signalled, migrate, hijacked, inFlight, counted, faults>>

\* ... the limiters' sweepers stop; db.Close; ...
CloseDb(i) ==
    /\ pc[i] = "close db"
    /\ GoTo(i, "exit")
    /\ UNCHANGED <<failed, signalled, migrate, serving, faults>>

\* ... and what still runs ends with the process.
End(i, off) ==
    /\ GoTo(i, off)
    /\ at' = [q \in Requests |->
                IF Home[q] = i /\ at[q] # "new" THEN "gone" ELSE at[q]]
    /\ Rollback(i)
    /\ UNCHANGED <<failed, signalled, base, memory, lost, hijacked, inFlight, counted>>

Exit(i) ==
    /\ pc[i] = "exit"
    /\ End(i, IF i \in signalled THEN "stopped" ELSE "down")
    /\ UNCHANGED faults

\* Killed: by a fault, or by a platform that stops waiting or stops it early.
Crash(i) ==
    /\ pc[i] \notin Off
    /\ Fault
    /\ \E off \in Off : End(i, off)

Migrates(i) == MigrateStep(i) /\ UNCHANGED <<signalled, serving, faults>>

Main(i) ==
    \/ Start(i) \/ Open(i) \/ Migrates(i) \/ Listen(i)
    \/ Drained(i) \/ DrainTimeout(i) \/ CloseHub(i) \/ CloseDb(i) \/ Exit(i)

Faults(i) ==
    \/ OpenFails(i) \/ SetupFails(i) \/ ServeFails(i) \/ Signal(i) \/ Crash(i)
    \/ MigrateFault(i) /\ Fault /\ UNCHANGED <<signalled, serving>>

----------------------------------------------------------------------------
(* A request, on its goroutine *)

MoveTo(q, p) == at' = [at EXCEPT ![q] = p]

\* Recover, then Observe: IncInFlight, and the handler begins.  While the
\* server drains, connections accepted before may still send their request.
Arrive(q) ==
    /\ at[q] = "new" /\ pc[Home[q]] \in {"serving", "draining"}
    /\ MoveTo(q, "running")
    /\ inFlight' = [inFlight EXCEPT ![Home[q]] = @ + 1]
    /\ UNCHANGED <<process, migrate, hijacked, counted, faults>>

\* The handler answers: what was asked for, or an error.
Answer(q) ==
    /\ at[q] = "running" /\ q \notin hijacked
    /\ MoveTo(q, "answered")
    /\ UNCHANGED <<process, migrate, hijacked, inFlight, counted, faults>>

\* serveWS: websocket.Accept takes the connection away from net/http ...
Upgrade(q) ==
    /\ q \in Sockets /\ at[q] = "running" /\ q \notin hijacked
    /\ hijacked' = hijacked \cup {q}
    /\ UNCHANGED <<process, migrate, at, inFlight, counted, faults>>

HubClosed(i) == pc[i] \in {"close db", "exit"}

\* Mutant: the hub takes clients after it was closed.
JoinAlways(q) ==
    /\ at[q] = "running" /\ q \in hijacked
    /\ MoveTo(q, "joined")
    /\ UNCHANGED <<process, migrate, hijacked, inFlight, counted, faults>>

\* ... and client.run joins the hub, which refuses once it is closed, or when
\* the user has too many connections.
Join(q) ==
    /\ at[q] = "running" /\ q \in hijacked
    /\ \/ ~HubClosed(Home[q]) /\ MoveTo(q, "joined")
       \/ MoveTo(q, "answered")
    /\ UNCHANGED <<process, migrate, hijacked, inFlight, counted, faults>>

\* The peer goes, or the connection fails.
Leave(q) ==
    /\ at[q] = "joined"
    /\ MoveTo(q, "answered")
    /\ UNCHANGED <<process, migrate, hijacked, inFlight, counted, faults>>

\* Mutant: the gauge is released for plain requests only.
ReleasePlain(q) ==
    /\ at[q] = "answered"
    /\ MoveTo(q, "released")
    /\ inFlight' = [inFlight EXCEPT ![Home[q]] = IF q \in hijacked THEN @ ELSE @ - 1]
    /\ UNCHANGED <<process, migrate, hijacked, counted, faults>>

\* ServeHTTP returns to Observe: the gauge is released, ...
Release(q) ==
    /\ at[q] = "answered"
    /\ MoveTo(q, "released")
    /\ inFlight' = [inFlight EXCEPT ![Home[q]] = @ - 1]
    /\ UNCHANGED <<process, migrate, hijacked, counted, faults>>

\* ... then the request is counted.
Count(q) ==
    /\ at[q] = "released"
    /\ MoveTo(q, "done")
    /\ counted' = [counted EXCEPT ![Home[q]] = @ + 1]
    /\ UNCHANGED <<process, migrate, hijacked, inFlight, faults>>

\* A panic in the handler unwinds through Observe, which defers nothing, to
\* Recover, which answers 500 (or lets http.ErrAbortHandler pass).
Panic(q) ==
    /\ at[q] \in {"running", "joined", "answered"}
    /\ MoveTo(q, "panicked")
    /\ UNCHANGED <<process, migrate, hijacked, inFlight, counted, faults>>

Serve(q) ==
    \/ Arrive(q) \/ Answer(q) \/ Upgrade(q) \/ Join(q) \/ Leave(q)
    \/ Release(q) \/ Count(q) \/ Panic(q)

Next ==
    \/ \E i \in Servers : Main(i) \/ Faults(i) \/ Wake(i)
    \/ \E q \in Requests : Serve(q)

\* Go schedules the main goroutine, its statements end, Shutdown times out,
\* and the platform starts a process again that ended of itself.  Nobody need
\* wake a stopped one, and handlers may hang.
Fairness == \A i \in Servers : WF_vars(Main(i))

Spec == Init /\ [][Next]_vars /\ Fairness

----------------------------------------------------------------------------
Places ==
    Off \cup {"open", "listen", "serving", "draining", "close hub", "close db",
     "exit"} \cup Migrating

(* Every variable has its type.                                             *)
TypeOK ==
    /\ pc \in [Servers -> Places]
    /\ table \in BOOLEAN
    /\ schema \subseteq Versions /\ recorded \subseteq Versions
    /\ todo \in [Servers -> SUBSET Versions]
    /\ doing \in [Servers -> Versions \cup {Table}]
    /\ made \in [Servers -> SUBSET Versions]
    /\ rows \in [Servers -> SUBSET Versions]
    /\ failed \subseteq Servers /\ signalled \subseteq Servers
    /\ lost \in [Servers -> SUBSET (Versions \cup {Table})]
    /\ at \in [Requests -> {"new", "done", "panicked", "gone"} \cup Inside]
    /\ hijacked \subseteq Sockets
    /\ inFlight \in [Servers -> Int]
    /\ counted \in [Servers -> Nat]
    /\ faults \in 0 .. MaxFaults

(* A handler runs only where every migration its binary embeds is applied,  *)
(* although other instances, some of an older binary, come and go, and this *)
(* one may have lost the race to apply them.                                *)
ServesComplete ==
    \A q \in Requests : at[q] \in Inside => Embedded(Home[q]) \subseteq schema

(* A clean exit cuts nobody off: once run has stopped waiting without an    *)
(* error, no request that net/http still owns is left, so that none meets a *)
(* closed database ("shuts down gracefully", server.go:23).                 *)
CleanDrain ==
    \A i \in Servers :
        pc[i] \in {"close hub", "close db", "exit"} /\ i \notin failed => Waited(i) = {}

(* "so they don't outlive the HTTP drain" (main.go:83-84): when the hub has *)
(* been closed no websocket is joined to it, not even one that was upgraded *)
(* during the drain, which does not wait for it.                            *)
SocketsEnd ==
    \A q \in Requests : HubClosed(Home[q]) => at[q] # "joined"

AtPlaces(i, S) == {q \in Requests : Home[q] = i /\ at[q] \in S}

(* The gauge is the requests in a handler and, until the process ends, one  *)
(* for each that panicked: nothing else is lost or counted twice, sockets   *)
(* that were upgraded and hub closes included.  (metrics.go:53 asks for a   *)
(* defer; observe.go:71 does without, so a panic is not counted either.)    *)
GaugeAccounts ==
    \A i \in Servers : pc[i] \notin Off =>
        /\ inFlight[i] = Cardinality(AtPlaces(i, {"running", "joined", "answered", "panicked"}))
        /\ counted[i] = Cardinality(AtPlaces(i, {"done"}))

(* Races between instances, failures and crashes delay a start, and never   *)
(* prevent it: once they are over every instance serves for good, but for   *)
(* those that the platform has stopped and nobody wakes.                    *)
AllServe == \A i \in Servers : <>[](pc[i] \in {"serving", "stopped"})

(* A signal ends the process although requests hang and sockets stay.       *)
SignalEnds == \A i \in Servers : pc[i] = "draining" ~> pc[i] \in Off
=============================================================================
