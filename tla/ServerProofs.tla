---------------------------- MODULE ServerProofs ----------------------------
(* Proofs of the safety properties of Server, for any number of instances,  *)
(* of binaries with any number of migrations, of requests and of faults.    *)
EXTENDS Server, FiniteSetTheorems, TLAPS

----------------------------------------------------------------------------
(* The inductive invariant *)

(* What a migrating instance has, made and knows, against the schema.       *)
Local(i) ==
    /\ made[i] \subseteq {doing[i]} /\ made[i] \cap schema = {}
    /\ rows[i] \subseteq {doing[i]}
    /\ pc[i] \notin {"record", "commit"} => made[i] = {}
    /\ pc[i] # "commit" => rows[i] = {}
    /\ pc[i] = "record" => made[i] = {doing[i]} \/ doing[i] \in schema
    /\ pc[i] = "commit" => made[i] = {doing[i]} /\ rows[i] = {doing[i]}
    /\ pc[i] \in Applying => doing[i] \in todo[i] /\ \A w \in todo[i] : doing[i] <= w
    /\ pc[i] \in {"next"} \cup Applying =>
         /\ todo[i] \subseteq Embedded(i) /\ Embedded(i) \ todo[i] \subseteq schema
         /\ todo[i] \cap lost[i] = {}
    /\ lost[i] \ {Table} \subseteq schema
    /\ Table \in lost[i] => table = TRUE
    /\ pc[i] = "create table" => Table \notin lost[i]
    /\ pc[i] \in {"listen", "serving", "draining"} => Embedded(i) \subseteq schema

Locals == \A i \in Servers : Local(i)

\* No two open transactions make the same tables.
Apart == \A i, j \in Servers : i # j => made[i] \cap made[j] = {}

\* Before it listens, and when it is off, an instance has no requests.
Starting == Off \cup {"open", "listen"} \cup Migrating
Quiet ==
    \A q \in Requests : pc[Home[q]] \in Starting => at[q] \in {"new", "gone"}

IInv ==
    /\ TypeOK /\ SchemaInOrder /\ Locals /\ Apart
    /\ Quiet /\ ServesComplete /\ CleanDrain /\ SocketsEnd /\ GaugeAccounts

----------------------------------------------------------------------------
(* Facts about the constants *)

LEMMA VersionFacts ==
    /\ \A i \in Servers : Latest[i] \in Nat /\ Embedded(i) \subseteq Versions
    /\ \A v \in Versions : v \in Nat /\ v # Table /\ v >= 1
    /\ \A i \in Servers : \A v \in Embedded(i) : v \in Nat /\ 1 <= v /\ v <= Latest[i]
BY MigrateAssumption DEF Embedded, Versions, Table

LEMMA RequestSets ==
    \A S \in SUBSET Requests : IsFiniteSet(S) /\ Cardinality(S) \in Nat
BY ServerAssumption, FS_Subset, FS_CardinalityType

LEMMA Homes == \A q \in Requests : Home[q] \in Servers
BY ServerAssumption

LEMMA InitInv == Init => IInv
<1> SUFFICES ASSUME Init PROVE IInv
  OBVIOUS
<1> USE DEF Init, MigrateInit
<1>1. TypeOK
  <2>1. table \in BOOLEAN
    OBVIOUS
  <2>3. faults \in 0 .. MaxFaults
    BY ServerAssumption
  <2>2. pc \in [Servers -> Places]
    BY DEF Places, Off
  <2> QED BY <2>1, <2>2, <2>3 DEF TypeOK
<1>2. SchemaInOrder /\ Apart
  BY DEF SchemaInOrder, Apart
<1>3. Locals
  BY DEF Locals, Local, Applying
<1>4. Quiet /\ ServesComplete /\ CleanDrain /\ SocketsEnd
  BY Homes DEF Quiet, ServesComplete, CleanDrain, SocketsEnd, Inside, HubClosed
<1>5. GaugeAccounts
  BY DEF GaugeAccounts, Off
<1> QED BY <1>1, <1>2, <1>3, <1>4, <1>5 DEF IInv

----------------------------------------------------------------------------
(* Type correctness *)

LEMMA MigrateType ==
    ASSUME TypeOK, Locals, NEW i \in Servers, MigrateStep(i) \/ MigrateFault(i), UNCHANGED <<signalled, serving>>,
           faults' \in 0 .. MaxFaults
    PROVE  TypeOK'
<1> USE DEF TypeOK
<1>0. UNCHANGED <<signalled, at, hijacked, inFlight, counted>>
  BY DEF serving
<1>2. Migrating \subseteq Places /\ {"close db", "listen"} \subseteq Places
  BY DEF Places
<1>1. pc[i] \in Applying => doing[i] \in Versions
  BY DEF Locals, Local
<1>3. ASSUME Return(i), lost' \in [Servers -> SUBSET (Versions \cup {Table})] PROVE TypeOK'
  BY <1>0, <1>2, <1>3 DEF Return, GoTo, Rollback, base, memory
<1>4. ASSUME NEW v \in Versions \cup {Table}, Conflict(i, v) PROVE TypeOK'
  BY <1>3, <1>4 DEF Conflict
<1>5. CASE EnsureTable(i)
  BY <1>0, <1>2, <1>5 DEF EnsureTable, GoTo, Migrating, base, memory, tx
<1>6. CASE CreateTable(i)
  BY <1>0, <1>2, <1>4, <1>6 DEF CreateTable, GoTo, Migrating, memory, tx
<1>7. CASE ReadApplied(i)
  BY <1>0, <1>2, <1>7, VersionFacts DEF ReadApplied, GoTo, Migrating, base, tx
<1>8. CASE Begin(i)
  BY <1>0, <1>2, <1>8, ZenonT(40) DEF Begin, GoTo, Migrating, Applying, base, tx
<1>9. CASE Create(i)
  <2>1. CASE doing[i] \in schema /\ Conflict(i, doing[i])
    BY <1>4, <2>1
  <2>2. CASE /\ made' = [made EXCEPT ![i] = @ \cup {doing[i]}]
             /\ GoTo(i, "record")
             /\ UNCHANGED <<base, memory, rows, failed, lost>>
    BY <1>0, <1>1, <1>2, <1>9, <2>2, ZenonT(40) DEF Create, GoTo, Migrating, Applying, base, memory
  <2> QED BY <1>9, <2>1, <2>2 DEF Create
<1>10. CASE Record(i)
  <2>1. CASE doing[i] \in recorded /\ Conflict(i, doing[i])
    BY <1>4, <2>1
  <2>2. CASE /\ rows' = [rows EXCEPT ![i] = @ \cup {doing[i]}]
             /\ GoTo(i, "commit")
             /\ UNCHANGED <<base, memory, made, failed, lost>>
    BY <1>0, <1>1, <1>2, <1>10, <2>2, ZenonT(40) DEF Record, GoTo, Migrating, Applying, base, memory
  <2> QED BY <1>10, <2>1, <2>2 DEF Record
<1>11. CASE Commit(i)
  BY <1>0, <1>2, <1>11 DEF Commit, Committed, Rollback, GoTo, Migrating
<1>12. CASE CommitUntold(i)
  BY <1>0, <1>2, <1>12 DEF CommitUntold, Committed, Rollback, GoTo, memory
<1>13. CASE Migrated(i)
  BY <1>0, <1>2, <1>13 DEF Migrated, GoTo, base, memory, tx
<1>14. CASE Return(i) /\ UNCHANGED lost
  BY <1>3, <1>14
<1> QED BY <1>5, <1>6, <1>7, <1>8, <1>9, <1>10, <1>11, <1>12, <1>13, <1>14
        DEF MigrateStep, MigrateFault

\* The steps of a process and of a request that leave the migrations alone.
MainStep(i) ==
    \/ Start(i) \/ Wake(i) \/ Open(i) \/ OpenFails(i) \/ SetupFails(i) \/ Listen(i)
    \/ ServeFails(i) \/ Signal(i)
    \/ Drained(i) \/ DrainTimeout(i) \/ CloseHub(i) \/ CloseDb(i)

LEMMA ProcessEffect ==
    ASSUME NEW i \in Servers,
           MainStep(i)
    PROVE  /\ UNCHANGED migrate
           /\ pc[i] \in Off \cup {"open", "listen", "serving", "draining", "close hub", "close db"}
           /\ \/ pc[i] \in Off /\ GoTo(i, "open")
              \/ pc[i] = "open" /\ (GoTo(i, "ensure table") \/ GoTo(i, "down"))
              \/ pc[i] = "listen" /\ (GoTo(i, "serving") \/ GoTo(i, "close hub") \/ GoTo(i, "close db"))
              \/ pc[i] = "serving" /\ (GoTo(i, "draining") \/ GoTo(i, "close hub"))
              \/ pc[i] = "draining" /\ GoTo(i, "close hub")
              \/ pc[i] = "close hub" /\ GoTo(i, "close db")
              \/ pc[i] = "close db" /\ GoTo(i, "exit")
BY DEF MainStep, Start, Wake, NewProcess, Off, Open, OpenFails, SetupFails, Listen, ServeFails,
       Signal, Drained, DrainTimeout, CloseHub, CloseDb

LEMMA TypeStep == TypeOK /\ Locals /\ [Next]_vars => TypeOK'
<1> SUFFICES ASSUME TypeOK, Locals, [Next]_vars PROVE TypeOK'
  OBVIOUS
<1> USE DEF TypeOK
<1>0. {"open", "ensure table", "down", "stopped", "serving", "close hub", "draining", "close db", "exit"}
        \subseteq Places
  BY DEF Places, Off, Migrating
<1>00. Fault => faults' \in 0 .. MaxFaults
  BY ServerAssumption DEF Fault
<1>1. ASSUME NEW i \in Servers, MainStep(i)
      PROVE  TypeOK'
  <2>1. pc' \in [Servers -> Places]
    BY <1>0, <1>1, ProcessEffect, ZenonT(40) DEF GoTo
  <2>2. UNCHANGED <<table, schema, recorded, todo, doing, made, rows, lost>>
    BY <1>1, ProcessEffect DEF migrate, base, memory, tx
  <2>3. failed' \subseteq Servers /\ signalled' \subseteq Servers
    BY <1>1 DEF MainStep, Start, Wake, NewProcess, Open, OpenFails, SetupFails, Listen, ServeFails,
       Signal, Drained, DrainTimeout, CloseHub, CloseDb
  <2>4. faults' \in 0 .. MaxFaults
    BY <1>00, <1>1 DEF MainStep, Start, Wake, NewProcess, Open, OpenFails, SetupFails, Listen, ServeFails,
       Signal, Drained, DrainTimeout, CloseHub, CloseDb
  <2>5. at' \in [Requests -> {"new", "done", "panicked", "gone"} \cup Inside]
    BY <1>1 DEF MainStep, Start, Wake, NewProcess, Open, OpenFails, SetupFails, Listen, ServeFails,
       Signal, Drained, DrainTimeout, CloseHub, CloseDb, serving, Inside
  <2>6. hijacked' = hijacked /\ inFlight' \in [Servers -> Int] /\ counted' \in [Servers -> Nat]
    <3>1. CASE Start(i) \/ Wake(i)
      BY <3>1 DEF Start, Wake, NewProcess
    <3>2. CASE ~Start(i) /\ ~Wake(i)
      <4>1. UNCHANGED <<hijacked, inFlight, counted>>
        BY <1>1, <3>2 DEF MainStep, Open, OpenFails, SetupFails, Listen, ServeFails, Signal, Drained, DrainTimeout,
           CloseHub, CloseDb, serving
      <4> QED BY <4>1
    <3> QED BY <3>1, <3>2
  <2> QED BY <2>1, <2>2, <2>3, <2>4, <2>5, <2>6
<1>2. ASSUME NEW i \in Servers, Exit(i) \/ Crash(i) PROVE TypeOK'
  <2>0. PICK off \in Off : End(i, off)
    BY <1>2 DEF Exit, Crash, Off
  <2>1. pc' \in [Servers -> Places] /\ faults' \in 0 .. MaxFaults
    <3>1. off \in Places
      BY <1>0, <2>0 DEF Off
    <3>2. pc' = [pc EXCEPT ![i] = off]
      BY <2>0 DEF End, GoTo
    <3>3. faults' \in 0 .. MaxFaults
      BY <1>00, <1>2 DEF Exit, Crash
    <3> QED BY <3>1, <3>2, <3>3
  <2>2. UNCHANGED <<table, schema, recorded, todo, doing, failed, signalled, lost, hijacked, inFlight, counted>>
    BY <1>2 DEF Exit, Crash, End, base, memory
  <2>3. made' \in [Servers -> SUBSET Versions] /\ rows' \in [Servers -> SUBSET Versions]
    BY <1>2 DEF Exit, Crash, End, Rollback
  <2>4. at' \in [Requests -> {"new", "done", "panicked", "gone"} \cup Inside]
    BY <1>2 DEF Exit, Crash, End
  <2> QED BY <2>1, <2>2, <2>3, <2>4
<1>3. ASSUME NEW i \in Servers, Migrates(i) \/ (MigrateFault(i) /\ Fault /\ UNCHANGED <<signalled, serving>>)
      PROVE  TypeOK'
  BY <1>00, <1>3, MigrateType DEF Migrates
<1>4. ASSUME NEW q \in Requests, Serve(q) PROVE TypeOK'
  <2>1. UNCHANGED <<pc, failed, signalled, table, schema, recorded, todo, doing, made, rows, lost, faults>>
    BY <1>4 DEF Serve, Arrive, Answer, Upgrade, Join, Leave, Release, Count, Panic,
       process, migrate, base, memory, tx
  <2>2. hijacked' \subseteq Sockets
    BY <1>4 DEF Serve, Arrive, Answer, Upgrade, Join, Leave, Release, Count, Panic
  <2>3. at' \in [Requests -> {"new", "done", "panicked", "gone"} \cup Inside]
    BY <1>4 DEF Serve, Arrive, Answer, Upgrade, Join, Leave, Release, Count, Panic, MoveTo, Inside
  <2>4. inFlight' \in [Servers -> Int] /\ counted' \in [Servers -> Nat]
    BY <1>4, Homes DEF Serve, Arrive, Answer, Upgrade, Join, Leave, Release, Count, Panic
  <2> QED BY <2>1, <2>2, <2>3, <2>4
<1>5. CASE UNCHANGED vars
  BY <1>5 DEF vars
<1> QED BY <1>1, <1>2, <1>3, <1>4, <1>5 DEF Next, Main, Faults, MainStep

----------------------------------------------------------------------------
(* The migrations *)

MInv == SchemaInOrder /\ Locals /\ Apart

(* One lemma for the instance that steps, one for the others.               *)
LEMMA OthersKept ==
    ASSUME TypeOK, NEW j \in Servers, Local(j), schema \subseteq schema',
           table = TRUE => table' = TRUE, made[j] \cap schema' = {},
           made'[j] = made[j], rows'[j] = rows[j], doing'[j] = doing[j],
           todo'[j] = todo[j], lost'[j] = lost[j], pc'[j] = pc[j]
    PROVE  Local(j)'
BY DEF Local

LEMMA ReturnEffect ==
    ASSUME TypeOK, MInv, NEW i \in Servers, Return(i),
           lost' \in [Servers -> SUBSET (Versions \cup {Table})],
           \A j \in Servers \ {i} : lost'[j] = lost[j],
           lost'[i] \ {Table} \subseteq schema, Table \in lost'[i] => table = TRUE
    PROVE  MInv'
<1>1. /\ UNCHANGED <<base, memory>> /\ made'[i] = {} /\ rows'[i] = {} /\ pc'[i] = "close db"
      /\ \A j \in Servers \ {i} : made'[j] = made[j] /\ rows'[j] = rows[j] /\ pc'[j] = pc[j]
  BY DEF Return, Rollback, GoTo, TypeOK
<1>2. UNCHANGED <<table, schema, recorded, todo, doing>>
  BY <1>1 DEF base, memory
<1>3. Local(i)'
  BY <1>1, <1>2 DEF Local, Applying
<1>4. \A j \in Servers \ {i} : Local(j)'
  BY <1>1, <1>2, OthersKept, ZenonT(40) DEF MInv, Locals, Local
<1>5. Apart'
  BY <1>1 DEF Apart, MInv
<1>6. SchemaInOrder'
  BY <1>2 DEF SchemaInOrder, MInv
<1> QED BY <1>3, <1>4, <1>5, <1>6 DEF MInv, Locals

LEMMA ConflictEffect ==
    ASSUME TypeOK, MInv, NEW i \in Servers, NEW v \in Versions \cup {Table}, Conflict(i, v),
           v \in schema \/ (v = Table /\ table = TRUE)
    PROVE  MInv'
<1>1. /\ lost' \in [Servers -> SUBSET (Versions \cup {Table})]
      /\ \A j \in Servers \ {i} : lost'[j] = lost[j]
      /\ lost'[i] = lost[i] \cup {v}
  BY DEF Conflict, TypeOK
<1>2. lost'[i] \ {Table} \subseteq schema /\ (Table \in lost'[i] => table = TRUE)
  BY <1>1, VersionFacts DEF MInv, Locals, Local, TypeOK
<1> QED BY <1>1, <1>2, ReturnEffect DEF Conflict

\* A step of one instance that leaves the database alone.
LEMMA OwnStep ==
    ASSUME TypeOK, MInv, NEW i \in Servers,
           UNCHANGED <<base, lost>>,
           \A j \in Servers \ {i} : /\ pc'[j] = pc[j] /\ todo'[j] = todo[j] /\ doing'[j] = doing[j]
                                    /\ made'[j] = made[j] /\ rows'[j] = rows[j],
           made'[i] \subseteq made[i], Local(i)'
    PROVE  MInv'
<1>1. UNCHANGED <<table, schema, recorded, lost>>
  BY DEF base
<1>2. \A j \in Servers \ {i} : Local(j)'
  BY <1>1, OthersKept, ZenonT(40) DEF MInv, Locals, Local
<1>3. Apart'
  BY DEF Apart, MInv
<1>4. SchemaInOrder'
  BY <1>1 DEF SchemaInOrder, MInv
<1> QED BY <1>2, <1>3, <1>4 DEF MInv, Locals

LEMMA MigrateStepInv ==
    ASSUME TypeOK, MInv, NEW i \in Servers, MigrateStep(i) \/ MigrateFault(i)
    PROVE  MInv'
<1> USE DEF TypeOK
<1>0. Local(i) /\ SchemaInOrder
  BY DEF MInv, Locals
<1>00. pc[i] \in Applying => doing[i] \in Versions
  BY <1>0 DEF Local
<1>1. CASE EnsureTable(i)
  <2>1. UNCHANGED <<base, memory, tx, failed, lost>> /\ pc[i] = "ensure table"
        /\ pc'[i] = (IF table THEN "read" ELSE "create table")
        /\ \A j \in Servers \ {i} : pc'[j] = pc[j]
    BY <1>1 DEF EnsureTable, GoTo
  <2>2. UNCHANGED <<table, schema, recorded, todo, doing, made, rows, lost>>
    BY <2>1 DEF base, memory, tx
  <2>3. Local(i)'
    <3>1. pc'[i] = "create table" => Table \notin lost'[i]
      BY <1>0, <2>1, <2>2 DEF Local
    <3>2. pc'[i] \in {"read", "create table"}
      BY <2>1
    <3> QED BY <1>0, <2>1, <2>2, <3>1, <3>2 DEF Local, Applying
  <2> QED BY <2>1, <2>2, <2>3, OwnStep
<1>2. CASE CreateTable(i)
  <2>1. CASE table /\ Conflict(i, Table)
    BY <2>1, ConflictEffect
  <2>2. CASE ~table /\ table' = TRUE /\ GoTo(i, "read")
             /\ UNCHANGED <<schema, recorded, memory, tx, failed, lost>>
    <3>1. UNCHANGED <<schema, recorded, todo, doing, made, rows, lost>> /\ table' = TRUE
          /\ pc'[i] = "read" /\ pc[i] = "create table"
          /\ \A j \in Servers \ {i} : pc'[j] = pc[j]
      BY <1>2, <2>2 DEF memory, tx, GoTo, CreateTable
    <3>2. Local(i)'
      BY <1>0, <3>1 DEF Local, Applying
    <3>3. \A j \in Servers \ {i} : Local(j)'
      BY <3>1, OthersKept DEF MInv, Locals, Local
    <3> QED BY <3>1, <3>2, <3>3 DEF MInv, Locals, Apart, SchemaInOrder
  <2> QED BY <1>2, <2>1, <2>2 DEF CreateTable
<1>3. CASE ReadApplied(i)
  <2>1. UNCHANGED <<table, schema, recorded, doing, made, rows, lost>>
        /\ todo'[i] = Embedded(i) \ recorded /\ pc[i] = "read" /\ pc'[i] = "next"
        /\ \A j \in Servers \ {i} : pc'[j] = pc[j] /\ todo'[j] = todo[j]
    BY <1>3 DEF ReadApplied, GoTo, base, tx
  <2>2. Local(i)'
    BY <1>0, <2>1, VersionFacts DEF Local, Applying, SchemaInOrder
  <2> QED BY <2>1, <2>2, OwnStep DEF base
<1>4. CASE Begin(i)
  <2> PICK v \in todo[i] : /\ \A w \in todo[i] : v <= w
                           /\ doing' = [doing EXCEPT ![i] = v]
                           /\ GoTo(i, IF v \in schema THEN "record" ELSE "create")
    BY <1>4 DEF Begin
  <2>1. UNCHANGED <<table, schema, recorded, todo, made, rows, lost>>
        /\ pc[i] = "next" /\ pc'[i] = (IF v \in schema THEN "record" ELSE "create")
        /\ doing'[i] = v
        /\ \A j \in Servers \ {i} : pc'[j] = pc[j] /\ doing'[j] = doing[j]
    BY <1>4 DEF Begin, GoTo, base, tx
  <2>2. made[i] = {} /\ rows[i] = {} /\ pc'[i] \in {"record", "create"}
    BY <1>0, <2>1 DEF Local
  <2>3. Local(i)'
    BY <1>0, <2>1, <2>2 DEF Local, Applying
  <2> QED BY <2>1, <2>3, OwnStep DEF base
<1>5. CASE Create(i)
  <2> DEFINE v == doing[i]
  <2>0. pc[i] = "create" /\ v \in Versions /\ \A j \in Servers \ {i} : v \notin made[j]
    BY <1>00, <1>5 DEF Create, Applying
  <2>1. CASE v \in schema /\ Conflict(i, v)
    BY <2>0, <2>1, ConflictEffect
  <2>2. CASE /\ v \notin schema /\ made' = [made EXCEPT ![i] = @ \cup {v}]
             /\ GoTo(i, "record") /\ UNCHANGED <<base, memory, rows, failed, lost>>
    <3>1. UNCHANGED <<table, schema, recorded, todo, doing, rows, lost>>
          /\ pc'[i] = "record" /\ made'[i] = {v}
          /\ \A j \in Servers \ {i} : pc'[j] = pc[j] /\ made'[j] = made[j]
      BY <1>0, <2>0, <2>2 DEF GoTo, base, memory, Local
    <3>2. Local(i)'
      BY <1>0, <2>0, <2>2, <3>1 DEF Local, Applying
    <3>3. \A j \in Servers \ {i} : Local(j)'
      BY <3>1, OthersKept, ZenonT(40) DEF MInv, Locals, Local
    <3>4. Apart'
      BY <2>0, <3>1 DEF Apart, MInv
    <3> QED BY <3>1, <3>2, <3>3, <3>4 DEF MInv, Locals, SchemaInOrder
  <2> QED BY <1>5, <2>1, <2>2 DEF Create
<1>6. CASE Record(i)
  <2> DEFINE v == doing[i]
  <2>0. pc[i] = "record" /\ v \in Versions
    BY <1>00, <1>6 DEF Record, Applying
  <2>1. CASE v \in recorded /\ Conflict(i, v)
    BY <1>0, <2>0, <2>1, ConflictEffect DEF SchemaInOrder
  <2>2. CASE /\ v \notin recorded /\ rows' = [rows EXCEPT ![i] = @ \cup {v}]
             /\ GoTo(i, "commit") /\ UNCHANGED <<base, memory, made, failed, lost>>
    <3>1. UNCHANGED <<table, schema, recorded, todo, doing, made, lost>>
          /\ pc'[i] = "commit" /\ rows'[i] = {v}
          /\ \A j \in Servers \ {i} : pc'[j] = pc[j] /\ rows'[j] = rows[j]
      BY <1>0, <2>0, <2>2 DEF GoTo, base, memory, Local
    <3>2. Local(i)'
      BY <1>0, <2>0, <2>2, <3>1 DEF Local, Applying, SchemaInOrder
    <3> QED BY <3>1, <3>2, OwnStep DEF base
  <2> QED BY <1>6, <2>1, <2>2 DEF Record
<1>7. CASE Commit(i) \/ CommitUntold(i)
  <2> DEFINE v == doing[i]
  <2>0. /\ pc[i] = "commit" /\ made[i] = {v} /\ rows[i] = {v} /\ v \in Versions
        /\ v \notin schema /\ v \in todo[i] /\ \A w \in todo[i] : v <= w
        /\ Embedded(i) \ todo[i] \subseteq schema /\ v \in Embedded(i)
    BY <1>0, <1>00, <1>7 DEF Commit, CommitUntold, Local, Applying
  <2>1. /\ schema' = schema \cup {v} /\ recorded' = recorded \cup {v}
        /\ made'[i] = {} /\ rows'[i] = {} /\ UNCHANGED <<table, doing, lost>>
        /\ \/ pc'[i] = "next" /\ todo'[i] = todo[i] \ {v}
           \/ pc'[i] = "close db" /\ todo'[i] = todo[i]
        /\ \A j \in Servers \ {i} : /\ pc'[j] = pc[j] /\ todo'[j] = todo[j]
                                    /\ made'[j] = made[j] /\ rows'[j] = rows[j]
    <3>1. CASE Commit(i)
      BY <2>0, <3>1 DEF Commit, Committed, Rollback, GoTo
    <3>2. CASE CommitUntold(i)
      BY <2>0, <3>2 DEF CommitUntold, Committed, Rollback, GoTo, memory
    <3> QED BY <1>7, <3>1, <3>2
  <2>2. Local(i)'
    BY <1>0, <2>0, <2>1 DEF Local, Applying
  <2>3. \A j \in Servers \ {i} : Local(j)'
    <3>1. \A j \in Servers \ {i} : made[j] \cap schema' = {}
      BY <2>0, <2>1 DEF MInv, Apart, Locals, Local
    <3> QED BY <2>1, <3>1, OthersKept DEF MInv, Locals
  <2>4. Apart'
    BY <2>1 DEF Apart, MInv
  <2>5. SchemaInOrder'
    <3>1. \A w \in 1 .. v : w \in schema'
      <4> SUFFICES ASSUME NEW w \in 1 .. v PROVE w \in schema'
        OBVIOUS
      <4>1. w \in Embedded(i)
        BY <2>0, VersionFacts DEF Embedded
      <4>2. CASE w \in todo[i]
        <5>1. v \in Nat /\ v <= w /\ w <= v /\ w \in Nat
          BY <2>0, <4>2, VersionFacts
        <5>2. w = v
          <6> HIDE DEF v
          <6> QED BY <5>1
        <5> QED BY <2>1, <5>2
      <4>3. CASE w \notin todo[i]
        BY <2>0, <2>1, <4>1, <4>3
      <4> QED BY <4>2, <4>3
    <3> QED BY <1>0, <2>1, <3>1 DEF SchemaInOrder
  <2> QED BY <2>2, <2>3, <2>4, <2>5 DEF MInv, Locals
<1>8. CASE Migrated(i)
  <2>1. UNCHANGED <<table, schema, recorded, todo, doing, made, rows, lost>>
        /\ pc[i] = "next" /\ todo[i] = {} /\ pc'[i] = "listen"
        /\ \A j \in Servers \ {i} : pc'[j] = pc[j]
    BY <1>8 DEF Migrated, GoTo, base, memory, tx
  <2>2. Local(i)'
    BY <1>0, <2>1 DEF Local, Applying
  <2> QED BY <2>1, <2>2, OwnStep DEF base
<1>9. CASE Return(i) /\ UNCHANGED lost
  BY <1>0, <1>9, ReturnEffect DEF Local
<1> QED BY <1>1, <1>2, <1>3, <1>4, <1>5, <1>6, <1>7, <1>8, <1>9 DEF MigrateStep, MigrateFault

LEMMA MInvStep == TypeOK /\ MInv /\ [Next]_vars => MInv'
<1> SUFFICES ASSUME TypeOK, MInv, [Next]_vars PROVE MInv'
  OBVIOUS
<1>1. ASSUME NEW i \in Servers, MainStep(i)
      PROVE  MInv'
  <2>1. UNCHANGED <<table, schema, recorded, todo, doing, made, rows, lost>>
    BY <1>1, ProcessEffect DEF migrate, base, memory, tx
  <2>2. \A j \in Servers \ {i} : pc'[j] = pc[j]
    BY <1>1, ProcessEffect, ZenonT(40) DEF GoTo, TypeOK
  <2>3. /\ pc[i] \notin {"next", "create", "record", "commit"}
        /\ pc'[i] \notin {"next", "create", "record", "commit", "create table", "listen"}
        /\ pc'[i] \in {"serving", "draining"} => pc[i] \in {"listen", "serving"}
    BY <1>1, ProcessEffect, ZenonT(40) DEF GoTo, TypeOK, Off
  <2>4. Local(i)'
    BY <2>1, <2>3 DEF MInv, Locals, Local, Applying
  <2> QED BY <2>1, <2>2, <2>4, OwnStep DEF base
<1>2. ASSUME NEW i \in Servers, Exit(i) \/ Crash(i) PROVE MInv'
  <2>1. UNCHANGED <<table, schema, recorded, todo, doing, lost>>
        /\ made'[i] = {} /\ rows'[i] = {} /\ pc'[i] \in Off
        /\ \A j \in Servers \ {i} : pc'[j] = pc[j] /\ made'[j] = made[j] /\ rows'[j] = rows[j]
    BY <1>2 DEF Exit, Crash, End, Rollback, GoTo, Off, TypeOK, base, memory
  <2>2. Local(i)'
    BY <2>1 DEF MInv, Locals, Local, Applying, Off
  <2> QED BY <2>1, <2>2, OwnStep DEF base
<1>3. ASSUME NEW i \in Servers, Migrates(i) \/ (MigrateFault(i) /\ Fault /\ UNCHANGED <<signalled, serving>>)
      PROVE  MInv'
  BY <1>3, MigrateStepInv DEF Migrates
<1>4. ASSUME NEW q \in Requests, Serve(q) PROVE MInv'
  <2>1. UNCHANGED <<pc, table, schema, recorded, todo, doing, made, rows, lost>>
    BY <1>4 DEF Serve, Arrive, Answer, Upgrade, Join, Leave, Release, Count, Panic,
       process, migrate, base, memory, tx
  <2> QED BY <2>1 DEF MInv, SchemaInOrder, Locals, Local, Apart
<1>5. CASE UNCHANGED vars
  BY <1>5 DEF vars, MInv, SchemaInOrder, Locals, Local, Apart
<1> QED BY <1>1, <1>2, <1>3, <1>4, <1>5 DEF Next, Main, Faults, MainStep

----------------------------------------------------------------------------
(* The requests *)

(* A step of instance i that moves no request: what a place of its main     *)
(* goroutine promises about requests has to hold of the new place.          *)
LEMMA RequestsKept ==
    ASSUME TypeOK, TypeOK', IInv, NEW i \in Servers, UNCHANGED serving, schema \subseteq schema',
           \A j \in Servers \ {i} : pc'[j] = pc[j] /\ (j \in failed' <=> j \in failed),
           pc'[i] \in Starting => pc[i] \in Starting,
           \/ pc'[i] \notin {"close hub", "close db", "exit"}
           \/ pc[i] \in {"close hub", "close db", "exit"} /\ (i \in failed => i \in failed')
           \/ i \in failed'
           \/ Waited(i) = {},
           HubClosed(i)' => HubClosed(i) \/ pc[i] \in Starting,
           pc[i] \notin Off
    PROVE  Quiet' /\ ServesComplete' /\ CleanDrain' /\ SocketsEnd' /\ GaugeAccounts'
<1>0. UNCHANGED <<at, hijacked, inFlight, counted>>
  BY DEF serving
<1>1. Quiet'
  BY <1>0, Homes DEF Quiet, IInv
<1>2. ServesComplete'
  BY <1>0 DEF ServesComplete, IInv
<1>3. CleanDrain'
  BY <1>0 DEF CleanDrain, IInv, Waited
<1>4. SocketsEnd'
  BY <1>0, Homes DEF SocketsEnd, IInv, HubClosed, Quiet
<1>5. GaugeAccounts'
  BY <1>0, ZenonT(40) DEF GaugeAccounts, IInv, AtPlaces
<1> QED BY <1>1, <1>2, <1>3, <1>4, <1>5

LEMMA StartInv ==
    ASSUME TypeOK, TypeOK', IInv, NEW i \in Servers, Start(i) \/ Wake(i)
    PROVE  Quiet' /\ ServesComplete' /\ CleanDrain' /\ SocketsEnd' /\ GaugeAccounts'
<1>0. /\ UNCHANGED <<at, hijacked, schema>> /\ pc[i] \in Off /\ pc'[i] = "open"
      /\ inFlight'[i] = 0 /\ counted'[i] = 0 /\ failed' = failed \ {i}
      /\ \A j \in Servers \ {i} : /\ pc'[j] = pc[j] /\ inFlight'[j] = inFlight[j]
                                  /\ counted'[j] = counted[j]
  BY DEF Start, Wake, NewProcess, Off, GoTo, migrate, base, TypeOK
<1>1. Quiet'
  BY <1>0, Homes DEF Quiet, IInv, Starting
<1>2. ServesComplete' /\ CleanDrain' /\ SocketsEnd'
  BY <1>0, Homes DEF ServesComplete, CleanDrain, SocketsEnd, HubClosed, Waited, IInv
<1>3. GaugeAccounts'
  <2>1. AtPlaces(i, {"running", "joined", "answered", "panicked"})' = {}
        /\ AtPlaces(i, {"done"})' = {}
    BY <1>0 DEF AtPlaces, IInv, Quiet, Starting
  <2>2. ASSUME NEW j \in Servers \ {i}, NEW S PROVE AtPlaces(j, S)' = AtPlaces(j, S)
    BY <1>0 DEF AtPlaces
  <2>3. inFlight'[i] = Cardinality({}) /\ counted'[i] = Cardinality({})
    BY <1>0, FS_EmptySet
  <2>4. ASSUME NEW j \in Servers \ {i}, pc'[j] \notin Off
        PROVE  /\ inFlight'[j] = Cardinality(AtPlaces(j, {"running", "joined", "answered", "panicked"}))
               /\ counted'[j] = Cardinality(AtPlaces(j, {"done"}))
    BY <1>0, <2>4 DEF GaugeAccounts, IInv
  <2> QED BY <2>1, <2>2, <2>3, <2>4, ZenonT(40) DEF GaugeAccounts
<1> QED BY <1>1, <1>2, <1>3

LEMMA CloseHubInv ==
    ASSUME TypeOK, TypeOK', IInv, NEW i \in Servers, CloseHub(i)
    PROVE  Quiet' /\ ServesComplete' /\ CleanDrain' /\ SocketsEnd' /\ GaugeAccounts'
<1>0. /\ UNCHANGED <<failed, schema, hijacked, inFlight, counted>>
      /\ pc[i] = "close hub" /\ pc'[i] = "close db"
      /\ \A j \in Servers \ {i} : pc'[j] = pc[j]
      /\ \A q \in Requests :
           at'[q] = IF Home[q] = i /\ at[q] = "joined" THEN "answered" ELSE at[q]
  BY DEF CloseHub, GoTo, migrate, base, TypeOK
<1>1. Quiet'
  BY <1>0, Homes DEF Quiet, IInv, Starting, Off, Migrating, Applying
<1>2. ServesComplete'
  BY <1>0 DEF ServesComplete, IInv, Inside
<1>3. CleanDrain'
  BY <1>0 DEF CleanDrain, IInv, Waited, Inside
<1>4. SocketsEnd'
  BY <1>0, Homes DEF SocketsEnd, IInv, HubClosed
<1>5. GaugeAccounts'
  <2>1. \A j \in Servers : /\ AtPlaces(j, {"done"})' = AtPlaces(j, {"done"})
                           /\ AtPlaces(j, {"running", "joined", "answered", "panicked"})'
                                = AtPlaces(j, {"running", "joined", "answered", "panicked"})
    BY <1>0 DEF AtPlaces
  <2>2. \A j \in Servers : pc'[j] \notin Off => pc[j] \notin Off
    BY <1>0 DEF Off
  <2> QED BY <1>0, <2>1, <2>2 DEF GaugeAccounts, IInv
<1> QED BY <1>1, <1>2, <1>3, <1>4, <1>5

LEMMA EndInv ==
    ASSUME TypeOK, TypeOK', IInv, NEW i \in Servers, NEW off \in Off, End(i, off)
    PROVE  Quiet' /\ ServesComplete' /\ CleanDrain' /\ SocketsEnd' /\ GaugeAccounts'
<1>0. /\ UNCHANGED <<failed, schema, hijacked, inFlight, counted>> /\ pc'[i] \in Off
      /\ \A j \in Servers \ {i} : pc'[j] = pc[j]
      /\ \A q \in Requests :
           at'[q] = IF Home[q] = i /\ at[q] # "new" THEN "gone" ELSE at[q]
  BY DEF End, GoTo, base, TypeOK
<1>1. Quiet' /\ ServesComplete' /\ CleanDrain' /\ SocketsEnd'
  BY <1>0, Homes DEF Quiet, ServesComplete, CleanDrain, SocketsEnd, HubClosed, Waited, IInv, Inside, Off
<1>2. GaugeAccounts'
  <2>1. ASSUME NEW j \in Servers \ {i}, NEW S PROVE AtPlaces(j, S)' = AtPlaces(j, S)
    BY <1>0 DEF AtPlaces
  <2> QED BY <1>0, <2>1 DEF GaugeAccounts, IInv
<1> QED BY <1>1, <1>2

(* What a step of a request moves, and what it does to the two numbers.     *)
LEMMA ServeEffect ==
    ASSUME TypeOK, NEW q \in Requests, Serve(q)
    PROVE  /\ UNCHANGED <<pc, failed, schema>> /\ hijacked \subseteq hijacked'
           /\ \A r \in Requests \ {q} : at'[r] = at[r]
           /\ \A i \in Servers \ {Home[q]} : inFlight'[i] = inFlight[i] /\ counted'[i] = counted[i]
           /\ \/ /\ at[q] = "new" /\ at'[q] = "running" /\ pc[Home[q]] \in {"serving", "draining"}
                 /\ inFlight'[Home[q]] = inFlight[Home[q]] + 1
                 /\ counted'[Home[q]] = counted[Home[q]]
              \/ /\ at[q] \in {"running", "joined", "answered"}
                 /\ at'[q] \in {"running", "joined", "answered", "panicked"}
                 /\ at'[q] = "joined" => at[q] = "joined" \/ ~HubClosed(Home[q])
                 /\ inFlight'[Home[q]] = inFlight[Home[q]]
                 /\ counted'[Home[q]] = counted[Home[q]]
              \/ /\ at[q] = "answered" /\ at'[q] = "released"
                 /\ inFlight'[Home[q]] = inFlight[Home[q]] - 1
                 /\ counted'[Home[q]] = counted[Home[q]]
              \/ /\ at[q] = "released" /\ at'[q] = "done"
                 /\ inFlight'[Home[q]] = inFlight[Home[q]]
                 /\ counted'[Home[q]] = counted[Home[q]] + 1
<1> USE Homes DEF TypeOK, MoveTo, process, migrate, base
<1>1. CASE Arrive(q)
  BY <1>1 DEF Arrive
<1>2. CASE Answer(q)
  BY <1>2 DEF Answer
<1>3. CASE Upgrade(q)
  BY <1>3 DEF Upgrade
<1>4. CASE Join(q)
  BY <1>4 DEF Join
<1>5. CASE Leave(q)
  BY <1>5 DEF Leave
<1>6. CASE Release(q)
  BY <1>6 DEF Release
<1>7. CASE Count(q)
  BY <1>7 DEF Count
<1>8. CASE Panic(q)
  BY <1>8 DEF Panic
<1> QED BY <1>1, <1>2, <1>3, <1>4, <1>5, <1>6, <1>7, <1>8 DEF Serve

LEMMA ServeInv ==
    ASSUME TypeOK, TypeOK', IInv, NEW q \in Requests, Serve(q)
    PROVE  Quiet' /\ ServesComplete' /\ CleanDrain' /\ SocketsEnd' /\ GaugeAccounts'
<1> DEFINE h == Home[q]
           G(i) == AtPlaces(i, {"running", "joined", "answered", "panicked"})
           D(i) == AtPlaces(i, {"done"})
<1>0. /\ UNCHANGED <<pc, failed, schema>> /\ hijacked \subseteq hijacked'
      /\ \A r \in Requests \ {q} : at'[r] = at[r]
      /\ h \in Servers
  BY ServeEffect, Homes
<1>1. Quiet'
  BY <1>0, ServeEffect DEF Quiet, IInv, Starting, Off, Migrating, Applying
<1>2. ServesComplete'
  <2>1. at'[q] \in Inside => at[q] \in Inside \/ pc[h] \in {"serving", "draining"}
    BY ServeEffect DEF Inside
  <2>2. pc[h] \in {"serving", "draining"} => Embedded(h) \subseteq schema
    BY <1>0 DEF IInv, Locals, Local
  <2> QED BY <1>0, <2>1, <2>2 DEF ServesComplete, IInv
<1>3. CleanDrain'
  <2>1. at'[q] \in Inside => at[q] \in Inside \/ pc[h] \in {"serving", "draining"}
    BY ServeEffect DEF Inside
  <2>2. \A i \in Servers : pc[i] \notin {"serving", "draining"} => Waited(i)' \subseteq Waited(i)
    BY <1>0, <2>1 DEF Waited
  <2> QED BY <1>0, <2>2 DEF CleanDrain, IInv
<1>4. SocketsEnd'
  <2>1. HubClosed(h)' <=> HubClosed(h)
    BY <1>0 DEF HubClosed
  <2>2. at'[q] = "joined" => at[q] = "joined" \/ ~HubClosed(h)
    BY ServeEffect
  <2>3. HubClosed(h) => at[q] # "joined"
    BY DEF SocketsEnd, IInv
  <2>4. \A r \in Requests \ {q} : HubClosed(Home[r])' => at'[r] # "joined"
    BY <1>0 DEF SocketsEnd, IInv, HubClosed
  <2> QED BY <2>1, <2>2, <2>3, <2>4 DEF SocketsEnd
<1>5. GaugeAccounts'
  <2>1. \A i \in Servers \ {h} : G(i)' = G(i) /\ D(i)' = D(i)
    BY <1>0 DEF AtPlaces
  <2>2. IsFiniteSet(G(h)) /\ IsFiniteSet(D(h)) /\ Cardinality(G(h)) \in Nat
    BY RequestSets DEF AtPlaces
  <2>3. pc[h] \notin Off => /\ inFlight'[h] = Cardinality(G(h)')
                          /\ counted'[h] = Cardinality(D(h)')
    <3> SUFFICES ASSUME pc[h] \notin Off
                 PROVE  inFlight'[h] = Cardinality(G(h)') /\ counted'[h] = Cardinality(D(h)')
      OBVIOUS
    <3>0. inFlight[h] = Cardinality(G(h)) /\ counted[h] = Cardinality(D(h))
      BY <1>0 DEF IInv, GaugeAccounts
    <3>1. CASE /\ at[q] = "new" /\ at'[q] = "running"
               /\ inFlight'[h] = inFlight[h] + 1 /\ counted'[h] = counted[h]
      <4>1. G(h)' = G(h) \cup {q} /\ q \notin G(h) /\ D(h)' = D(h)
        BY <1>0, <3>1 DEF AtPlaces
      <4> QED BY <2>2, <3>0, <3>1, <4>1, FS_AddElement
    <3>2. CASE /\ at[q] \in {"running", "joined", "answered"}
               /\ at'[q] \in {"running", "joined", "answered", "panicked"}
               /\ inFlight'[h] = inFlight[h] /\ counted'[h] = counted[h]
      <4>1. G(h)' = G(h) /\ D(h)' = D(h)
        BY <1>0, <3>2 DEF AtPlaces
      <4> QED BY <3>0, <3>2, <4>1
    <3>3. CASE /\ at[q] = "answered" /\ at'[q] = "released"
               /\ inFlight'[h] = inFlight[h] - 1 /\ counted'[h] = counted[h]
      <4>1. G(h)' = G(h) \ {q} /\ q \in G(h) /\ D(h)' = D(h)
        BY <1>0, <3>3 DEF AtPlaces
      <4> QED BY <2>2, <3>0, <3>3, <4>1, FS_RemoveElement
    <3>4. CASE /\ at[q] = "released" /\ at'[q] = "done"
               /\ inFlight'[h] = inFlight[h] /\ counted'[h] = counted[h] + 1
      <4>1. G(h)' = G(h) /\ D(h)' = D(h) \cup {q} /\ q \notin D(h)
        BY <1>0, <3>4 DEF AtPlaces
      <4> QED BY <2>2, <3>0, <3>4, <4>1, FS_AddElement
    <3> QED BY <3>1, <3>2, <3>3, <3>4, ServeEffect
  <2>4. \A i \in Servers : i # h => inFlight'[i] = inFlight[i] /\ counted'[i] = counted[i]
    BY ServeEffect
  <2> QED BY <1>0, <2>1, <2>3, <2>4 DEF GaugeAccounts, IInv
<1> QED BY <1>1, <1>2, <1>3, <1>4, <1>5

LEMMA MigratePlaces ==
    ASSUME TypeOK, NEW i \in Servers, MigrateStep(i) \/ MigrateFault(i)
    PROVE  /\ pc[i] \in Migrating /\ schema \subseteq schema'
           /\ pc'[i] \in Starting \/ (pc'[i] = "close db" /\ i \in failed')
           /\ \A j \in Servers \ {i} : pc'[j] = pc[j] /\ (j \in failed' <=> j \in failed)
<1> USE DEF TypeOK, Starting, Off, Migrating, Applying, GoTo
<1>1. ASSUME NEW v, Conflict(i, v), pc[i] \in Migrating
      PROVE  /\ schema \subseteq schema' /\ pc'[i] = "close db" /\ i \in failed'
             /\ \A j \in Servers \ {i} : pc'[j] = pc[j] /\ (j \in failed' <=> j \in failed)
  BY <1>1 DEF Conflict, Return, base
<1>2. CASE EnsureTable(i)
  BY <1>2 DEF EnsureTable, base
<1>3. CASE CreateTable(i)
  BY <1>1, <1>3 DEF CreateTable
<1>4. CASE ReadApplied(i)
  BY <1>4 DEF ReadApplied, base
<1>5. CASE Begin(i)
  BY <1>5 DEF Begin, base
<1>6. CASE Create(i)
  BY <1>1, <1>6 DEF Create, base
<1>7. CASE Record(i)
  BY <1>1, <1>7 DEF Record, base
<1>8. CASE Commit(i)
  BY <1>8 DEF Commit, Committed
<1>9. CASE CommitUntold(i)
  BY <1>9 DEF CommitUntold, Committed
<1>10. CASE Migrated(i)
  BY <1>10 DEF Migrated, base
<1>11. CASE pc[i] \in Migrating /\ Return(i)
  BY <1>11 DEF Return, base
<1> QED BY <1>2, <1>3, <1>4, <1>5, <1>6, <1>7, <1>8, <1>9, <1>10, <1>11
        DEF MigrateStep, MigrateFault

LEMMA RequestsStep ==
    ASSUME TypeOK, TypeOK', IInv, [Next]_vars
    PROVE  Quiet' /\ ServesComplete' /\ CleanDrain' /\ SocketsEnd' /\ GaugeAccounts'
<1>1. ASSUME NEW i \in Servers,
             \/ Open(i) \/ OpenFails(i) \/ SetupFails(i) \/ Listen(i) \/ ServeFails(i)
             \/ Signal(i) \/ Drained(i) \/ DrainTimeout(i) \/ CloseDb(i)
      PROVE  Quiet' /\ ServesComplete' /\ CleanDrain' /\ SocketsEnd' /\ GaugeAccounts'
  <2>0. /\ UNCHANGED serving /\ schema \subseteq schema'
        /\ \A j \in Servers \ {i} : pc'[j] = pc[j] /\ (j \in failed' <=> j \in failed)
    BY <1>1 DEF Open, OpenFails, SetupFails, Listen, ServeFails, Signal, Drained, DrainTimeout, CloseDb,
       GoTo, TypeOK, migrate, base
  <2>1. \/ pc[i] = "open" /\ pc'[i] \in {"ensure table", "down"}
        \/ pc[i] = "listen" /\ pc'[i] = "serving"
        \/ pc[i] \in {"listen", "serving"} /\ pc'[i] = "close hub" /\ i \in failed'
        \/ pc[i] = "listen" /\ pc'[i] = "close db" /\ i \in failed'
        \/ pc[i] = "serving" /\ pc'[i] = "draining"
        \/ pc[i] = "draining" /\ pc'[i] = "close hub" /\ (i \in failed' \/ Waited(i) = {})
        \/ pc[i] = "close db" /\ pc'[i] = "exit" /\ failed' = failed
    BY <1>1 DEF Open, OpenFails, SetupFails, Listen, ServeFails, Signal, Drained, DrainTimeout, CloseDb,
       GoTo, TypeOK
  <2>2. /\ pc'[i] \in Starting => pc[i] \in Starting
        /\ HubClosed(i)' => HubClosed(i) \/ pc[i] \in Starting
        /\ pc[i] \notin Off
        /\ \/ pc'[i] \notin {"close hub", "close db", "exit"}
           \/ pc[i] \in {"close hub", "close db", "exit"} /\ (i \in failed => i \in failed')
           \/ i \in failed'
           \/ Waited(i) = {}
    BY <2>1 DEF Starting, Off, Migrating, Applying, HubClosed
  <2> QED BY <2>0, <2>2, RequestsKept
<1>2. ASSUME NEW i \in Servers, Exit(i) \/ Crash(i)
      PROVE  Quiet' /\ ServesComplete' /\ CleanDrain' /\ SocketsEnd' /\ GaugeAccounts'
  <2>1. \E off \in Off : End(i, off)
    BY <1>2 DEF Exit, Crash, Off
  <2> QED BY <2>1, EndInv
<1>3. ASSUME NEW i \in Servers, Migrates(i) \/ (MigrateFault(i) /\ Fault /\ UNCHANGED <<signalled, serving>>)
      PROVE  Quiet' /\ ServesComplete' /\ CleanDrain' /\ SocketsEnd' /\ GaugeAccounts'
  <2>1. /\ pc[i] \in Migrating /\ schema \subseteq schema' /\ UNCHANGED serving
        /\ pc'[i] \in Starting \/ (pc'[i] = "close db" /\ i \in failed')
        /\ \A j \in Servers \ {i} : pc'[j] = pc[j] /\ (j \in failed' <=> j \in failed)
    BY <1>3, MigratePlaces DEF Migrates
  <2>2. /\ pc[i] \in Starting /\ pc[i] \notin Off
        /\ pc'[i] \notin {"close hub", "close db", "exit"} \/ i \in failed'
    BY <2>1 DEF Starting, Off, Migrating, Applying
  <2> QED BY <2>1, <2>2, RequestsKept
<1>4. ASSUME NEW q \in Requests, Serve(q)
      PROVE  Quiet' /\ ServesComplete' /\ CleanDrain' /\ SocketsEnd' /\ GaugeAccounts'
  BY <1>4, ServeInv
<1>5. CASE UNCHANGED vars
  BY <1>5 DEF vars, IInv, Quiet, ServesComplete, CleanDrain, SocketsEnd, GaugeAccounts,
     AtPlaces, Waited, HubClosed
<1> QED BY <1>1, <1>2, <1>3, <1>4, <1>5, StartInv, CloseHubInv DEF Next, Main, Faults, MainStep

----------------------------------------------------------------------------
(* The theorems *)

(* The inductive invariant holds in every reachable state.                  *)
THEOREM Invariant == Spec => []IInv
<1>1. IInv /\ [Next]_vars => IInv'
  <2> SUFFICES ASSUME IInv, [Next]_vars PROVE IInv'
    OBVIOUS
  <2>1. TypeOK /\ MInv
    BY DEF IInv, MInv
  <2>2. TypeOK' /\ MInv'
    BY <2>1, TypeStep, MInvStep DEF MInv
  <2> QED BY <2>1, <2>2, RequestsStep DEF IInv, MInv
<1> QED BY InitInv, <1>1, PTL DEF Spec

(* Types.                                                                   *)
THEOREM TypeCorrect == Spec => []TypeOK
<1>1. IInv => TypeOK
  BY DEF IInv
<1> QED BY Invariant, <1>1, PTL

(* However many instances migrate at once, and wherever they die, the       *)
(* tables are what schema_migrations says, with no migration left out.      *)
THEOREM SchemaInOrderCorrect == Spec => []SchemaInOrder
<1>1. IInv => SchemaInOrder
  BY DEF IInv
<1> QED BY Invariant, <1>1, PTL

(* No instance loses the same migration twice.                              *)
THEOREM TriesOnceCorrect == Spec => []TriesOnce
<1>1. IInv => TriesOnce
  BY DEF IInv, Locals, Local, TriesOnce
<1> QED BY Invariant, <1>1, PTL

(* Handlers run on a complete schema only.                                  *)
THEOREM ServesCompleteCorrect == Spec => []ServesComplete
<1>1. IInv => ServesComplete
  BY DEF IInv
<1> QED BY Invariant, <1>1, PTL

(* A clean exit cuts off no request that net/http owns.                     *)
THEOREM CleanDrainCorrect == Spec => []CleanDrain
<1>1. IInv => CleanDrain
  BY DEF IInv
<1> QED BY Invariant, <1>1, PTL

(* No websocket is left in a closed hub.                                    *)
THEOREM SocketsEndCorrect == Spec => []SocketsEnd
<1>1. IInv => SocketsEnd
  BY DEF IInv
<1> QED BY Invariant, <1>1, PTL

(* The gauge and the count are exact but for the requests that panicked.    *)
THEOREM GaugeAccountsCorrect == Spec => []GaugeAccounts
<1>1. IInv => GaugeAccounts
  BY DEF IInv
<1> QED BY Invariant, <1>1, PTL
=============================================================================
