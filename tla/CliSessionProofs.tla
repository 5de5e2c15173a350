-------------------------- MODULE CliSessionProofs --------------------------
(* The client's renewals, for every number of processes, goroutines,        *)
(* sessions and tokens, with lost answers, failed saves and killed          *)
(* processes.                                                               *)
EXTENDS CliSession, TLAPS

----------------------------------------------------------------------------
(* Types *)

LEMMA TypeInit == Init => TypeOK
BY SessionAssumption DEF Init, TypeOK, Server!Init, Places, Critical

(* A thread that goes on, or ends its request, leaves the others alone.     *)
LEMMA Going ==
    ASSUME TypeOK, NEW t \in Threads, NEW place \in Places, GoTo(t, place)
    PROVE  /\ pc' \in [Threads -> Places] /\ pc'[t] = place
           /\ \A s \in Threads \ {t} : pc'[s] = pc[s]
BY DEF TypeOK, GoTo

LEMMA Idling ==
    ASSUME TypeOK, NEW T \in SUBSET Threads, Idle(T)
    PROVE  /\ pc' \in [Threads -> Places]
           /\ after' \in [Threads -> {"send", "resend"}]
           /\ stale' \in [Threads -> Tokens \cup {NoToken}]
           /\ got' \in [Threads -> Tokens \cup {NoToken}]
           /\ \A s \in T : pc'[s] = "idle"
           /\ \A s \in Threads \ T : pc'[s] = pc[s] /\ got'[s] = got[s]
BY DEF TypeOK, Idle, Places

(* What the server's steps do to its types.                                 *)
LEMMA ServerTypes ==
    ASSUME TypeOK, NEW f \in Families,
           \/ UNCHANGED server \/ Server!Revoke(f)
           \/ \E r, n \in Tokens : Server!Rotate(f, r, n)
           \/ \E n \in Tokens : Server!Login(f, n)
    PROVE  /\ usable' \in [Families -> SUBSET Tokens]
           /\ issued' \in [Families -> SUBSET Tokens]
BY DEF TypeOK, server, Server!Revoke, Server!Rotate, Server!Login

(* A running process has loaded a token; the other pairs are its sessions'. *)
LEMMA MemKnown ==
    ASSUME TypeOK, NEW p \in Procs, cmd[p] # "off"
    PROVE  mem[p] \in Tokens /\ FamilyOf[mem[p]] \in Families
BY SessionAssumption DEF TypeOK

LEMMA TypeCommand ==
    ASSUME TypeOK, NEW p \in Procs, Command(p)
    PROVE  TypeOK'
<1> USE SessionAssumption DEF history, thread
<1>1. CASE Login(p)
  <2>1. PICK n \in Tokens : Server!Login(FamilyOf[n], n) /\ mem' = [mem EXCEPT ![p] = n]
    BY <1>1 DEF Login
  <2>2. FamilyOf[n] \in Families
    OBVIOUS
  <2>3. /\ usable' \in [Families -> SUBSET Tokens]
        /\ issued' \in [Families -> SUBSET Tokens]
    BY <2>1, <2>2, ServerTypes
  <2> QED
    BY <1>1, <2>1, <2>3 DEF Login, TypeOK
<1>2. CASE SaveLogin(p)
  <2>1. mem[p] \in Tokens /\ FamilyOf[mem[p]] \in Families
    BY <1>2, MemKnown DEF SaveLogin
  <2> QED
    BY <1>2, <2>1 DEF SaveLogin, Quit, TypeOK, server
<1>3. CASE Start(p)
  BY <1>3 DEF Start, TypeOK, server, Faulted
<1>4. CASE StartLogout(p)
  BY <1>4 DEF StartLogout, TypeOK, server
<1>5. CASE Logout(p)
  <2>1. mem[p] \in Tokens /\ FamilyOf[mem[p]] \in Families
    BY <1>5, MemKnown DEF Logout
  <2>2. /\ usable' \in [Families -> SUBSET Tokens]
        /\ issued' \in [Families -> SUBSET Tokens]
    BY <1>5, <2>1 DEF Logout, TypeOK, server, Server!Revoke
  <2> QED
    BY <1>5, <2>1, <2>2 DEF Logout, TypeOK
<1>6. CASE Clear(p)
  BY <1>6 DEF Clear, Quit, TypeOK, server
<1>7. CASE End(p)
  <2>1. mem[p] \in Tokens /\ FamilyOf[mem[p]] \in Families
    BY <1>7, MemKnown DEF End
  <2>2. ThreadsOf(p) \in SUBSET Threads
    BY DEF ThreadsOf
  <2>3. /\ pc' \in [Threads -> Places]
        /\ after' \in [Threads -> {"send", "resend"}]
        /\ stale' \in [Threads -> Tokens \cup {NoToken}]
        /\ got' \in [Threads -> Tokens \cup {NoToken}]
        /\ \A s \in Threads : pc'[s] = IF ProcOf[s] = p THEN "idle" ELSE pc[s]
    BY <1>7, <2>2, Idling DEF End, ThreadsOf
  <2>4. faulted' \in SUBSET Families
    BY <1>7, <2>1 DEF End, TypeOK, Faulted
  <2>5. mutex' \in [Procs -> Threads \cup {NoThread}] /\ mutex'[p] = NoThread
        /\ \A q \in Procs \ {p} : mutex'[q] = mutex[q]
    BY <1>7 DEF End, Unlock, TypeOK
  <2>6. \A t \in Threads : /\ pc'[t] # "idle" => cmd'[ProcOf[t]] = "on"
                           /\ pc'[t] \in Critical <=> mutex'[ProcOf[t]] = t
    <3> TAKE t \in Threads
    <3>1. CASE ProcOf[t] = p
      BY <3>1, <2>3, <2>5 DEF Critical
    <3>2. CASE ProcOf[t] # p
      <4>1. cmd'[ProcOf[t]] = cmd[ProcOf[t]]
        BY <1>7, <3>2 DEF End, Quit, TypeOK
      <4> QED
        BY <3>2, <4>1, <2>3, <2>5 DEF TypeOK
    <3> QED
      BY <3>1, <3>2
  <2>7. /\ cmd' \in [Procs -> {"off", "login", "on", "logout", "clear"}]
        /\ mem' \in [Procs -> Tokens \cup {NoToken}]
        /\ \A q \in Procs : cmd'[q] = "off" <=> mem'[q] = NoToken
    BY <1>7 DEF End, Quit, TypeOK
  <2>8. UNCHANGED <<usable, issued, file, lastLogin, loggedOut, tripped>>
    BY <1>7 DEF End, server
  <2> QED
    BY <2>3, <2>4, <2>5, <2>6, <2>7, <2>8 DEF TypeOK
<1> QED
  BY <1>1, <1>2, <1>3, <1>4, <1>5, <1>6, <1>7 DEF Command


(* A request that renews holds the mutex: no other one of its process is    *)
(* between its renewal and its save.                                        *)
LEMMA OneRenews ==
    ASSUME TypeOK, NEW s \in Threads, NEW t \in Threads,
           pc[s] \in Critical, pc[t] \in Critical, ProcOf[s] = ProcOf[t]
    PROVE  s = t
BY DEF TypeOK

(* A step outside the renewal changes nothing that others see.              *)
Outside == Places \ {"apply", "save"}
Quiet(t) ==
    /\ UNCHANGED <<usable, issued, file, cmd, mem, lastLogin, loggedOut, faulted, tripped>>
    /\ pc[t] \in Outside /\ pc'[t] \in Outside
    /\ \A s \in Threads \ {t} : pc'[s] = pc[s] /\ got'[s] = got[s]

LEMMA QuietEffect ==
    ASSUME TypeOK, NEW t \in Threads,
           Begin(t) \/ Send(t) \/ Stale(t) \/ Resend(t) \/ Lock(t)
    PROVE  TypeOK' /\ Quiet(t)
<1> USE SessionAssumption DEF history, thread, server, Places, Critical
<1>1. CASE Begin(t)
  <2>1. cmd[ProcOf[t]] = "on" /\ mutex[ProcOf[t]] # t
    BY <1>1 DEF Begin, TypeOK
  <2> QED
    BY <1>1, <2>1 DEF Begin, GoTo, TypeOK, Quiet, Outside
<1>2. CASE Send(t) /\ Idle({t})
  <2>1. /\ pc' \in [Threads -> Places]
        /\ after' \in [Threads -> {"send", "resend"}]
        /\ stale' \in [Threads -> Tokens \cup {NoToken}]
        /\ got' \in [Threads -> Tokens \cup {NoToken}]
        /\ pc'[t] = "idle"
        /\ \A s \in Threads \ {t} : pc'[s] = pc[s] /\ got'[s] = got[s]
    BY <1>2, Idling
  <2> QED
    BY <1>2, <2>1 DEF Send, TypeOK, Quiet, Outside
<1>3. CASE Send(t) /\ GoTo(t, "stale") /\ UNCHANGED <<stale, got>>
           /\ after' = [after EXCEPT ![t] = "resend"]
  BY <1>3 DEF Send, GoTo, TypeOK, Quiet, Outside
<1>4. CASE Stale(t)
  BY <1>4 DEF Stale, GoTo, TypeOK, Quiet, Outside
<1>5. CASE Resend(t)
  <2>1. /\ pc' \in [Threads -> Places]
        /\ after' \in [Threads -> {"send", "resend"}]
        /\ stale' \in [Threads -> Tokens \cup {NoToken}]
        /\ got' \in [Threads -> Tokens \cup {NoToken}]
        /\ pc'[t] = "idle"
        /\ \A s \in Threads \ {t} : pc'[s] = pc[s] /\ got'[s] = got[s]
    BY <1>5, Idling DEF Resend
  <2> QED
    BY <1>5, <2>1 DEF Resend, TypeOK, Quiet, Outside
<1>6. CASE Lock(t) /\ GoTo(t, after[t]) /\ UNCHANGED mutex
  BY <1>6 DEF Lock, GoTo, TypeOK, Quiet, Outside
<1>7. CASE Lock(t) /\ mutex' = [mutex EXCEPT ![ProcOf[t]] = t] /\ GoTo(t, "renew")
  <2>1. \A s \in Threads : ProcOf[s] = ProcOf[t] => pc[s] \notin Critical
    BY <1>7 DEF Lock, TypeOK
  <2>2. /\ pc' \in [Threads -> Places]
        /\ \A s \in Threads : pc'[s] = IF s = t THEN "renew" ELSE pc[s]
    BY <1>7, Going
  <2>3. /\ mutex' \in [Procs -> Threads \cup {NoThread}]
        /\ \A q \in Procs : mutex'[q] = IF q = ProcOf[t] THEN t ELSE mutex[q]
    BY <1>7 DEF TypeOK
  <2>4. \A s \in Threads : /\ pc'[s] # "idle" => cmd[ProcOf[s]] = "on"
                           /\ pc'[s] \in Critical <=> mutex'[ProcOf[s]] = s
    BY <1>7, <2>1, <2>2, <2>3 DEF Lock, TypeOK
  <2>5. stale' \in [Threads -> Tokens \cup {NoToken}]
    BY <1>7 DEF Lock, TypeOK
  <2> QED
    BY <1>7, <2>2, <2>3, <2>4, <2>5 DEF Lock, TypeOK, Quiet, Outside
<1> QED
  BY <1>1, <1>2, <1>3, <1>4, <1>5, <1>6, <1>7 DEF Send, Lock

----------------------------------------------------------------------------
(* The session invariant, step by step.  Every lemma goes through the parts *)
(* of SessionInv.                                                           *)

LEMMA InitInv == Init => SessionInv
BY DEF Init, SessionInv, Server!Init, ServerKnows, Known, GotKnown, Alone, HolderWorks,
       GotWorks, FileKept, FreshLogin, EndedBy, NoFalseAlarm, Holders

LEMMA QuietKeeps ==
    ASSUME TypeOK, SessionInv, NEW t \in Threads, Quiet(t)
    PROVE  SessionInv'
<1> USE DEF SessionInv, Quiet, Outside
<1>1. \A s \in Threads : /\ pc'[s] = "apply" <=> pc[s] = "apply"
                         /\ pc'[s] = "save" <=> pc[s] = "save"
                         /\ pc[s] \in {"apply", "save"} => got'[s] = got[s]
  OBVIOUS
<1>2. ServerKnows' /\ Known' /\ Alone' /\ EndedBy' /\ NoFalseAlarm' /\ FreshLogin'
  BY DEF ServerKnows, Known, Alone, EndedBy, NoFalseAlarm, FreshLogin, Holders, Intact, Worth
<1>3. GotKnown'
  BY <1>1 DEF GotKnown
<1>4. HolderWorks'
  BY <1>1 DEF HolderWorks, Intact, Worth, ThreadsOf
<1>5. GotWorks'
  BY <1>1 DEF GotWorks, Intact, Worth
<1>6. FileKept'
  BY <1>1 DEF FileKept, Intact, Worth, ThreadsOf, Holders
<1> QED
  BY <1>2, <1>3, <1>4, <1>5, <1>6

(* Steps of requests that renew. *)

(* What a step of t in the renewal leaves alone. *)
RenewFrame(t) ==
    /\ UNCHANGED <<file, cmd, mem, lastLogin, loggedOut>>
    /\ pc[t] = "renew"
    /\ \A s \in Threads \ {t} : pc'[s] = pc[s] /\ got'[s] = got[s]

AnsweredWith(t, r, n) ==
    /\ n \in Tokens /\ FamilyOf[n] = FamilyOf[r]
    /\ r \in usable[FamilyOf[r]] /\ \A f \in Families : n \notin issued[f]
    /\ usable' = [usable EXCEPT ![FamilyOf[r]] = {n}]
    /\ issued' = [issued EXCEPT ![FamilyOf[r]] = @ \cup {n}]
    /\ pc'[t] = "apply" /\ got'[t] = n
    /\ UNCHANGED <<faulted, tripped>>

FaultedWith(t, f) ==
    /\ faulted' = faulted \cup {f}
    /\ \A g \in Families \ {f} : usable'[g] = usable[g] /\ issued'[g] = issued[g]
    /\ usable'[f] \subseteq issued'[f] /\ issued[f] \subseteq issued'[f]
    /\ \A n \in issued'[f] : FamilyOf[n] = f
    /\ pc'[t] = "idle"
    /\ tripped' \subseteq tripped \cup {f}

RefusedWith(t, r) ==
    /\ r \notin usable[FamilyOf[r]]
    /\ usable' = [usable EXCEPT ![FamilyOf[r]] = {}] /\ issued' = issued
    /\ tripped' = IF usable[FamilyOf[r]] = {} THEN tripped ELSE tripped \cup {FamilyOf[r]}
    /\ pc'[t] = "idle"
    /\ UNCHANGED faulted

LEMMA RenewEffect ==
    ASSUME TypeOK, SessionInv, NEW t \in Threads, Renew(t)
    PROVE  /\ TypeOK'
           /\ \/ Quiet(t)
              \/ /\ RenewFrame(t)
                 /\ \/ \E n \in Tokens : AnsweredWith(t, mem[ProcOf[t]], n)
                    \/ FaultedWith(t, FamilyOf[mem[ProcOf[t]]])
                    \/ RefusedWith(t, mem[ProcOf[t]])
<1> USE SessionAssumption DEF history, server
<1> DEFINE p == ProcOf[t]
           r == mem[p]
<1>1. /\ p \in Procs /\ pc[t] = "renew" /\ cmd[p] = "on" /\ mutex[p] = t
      /\ r \in Tokens /\ FamilyOf[r] \in Families
  BY MemKnown DEF Renew, TypeOK, Critical
<1>2. UNCHANGED <<file, cmd, mem>>
  BY DEF Renew
<1>3. ASSUME Idle({t}), Unlock(p)
      PROVE  /\ pc' \in [Threads -> Places]
             /\ after' \in [Threads -> {"send", "resend"}]
             /\ stale' \in [Threads -> Tokens \cup {NoToken}]
             /\ got' \in [Threads -> Tokens \cup {NoToken}]
             /\ mutex' \in [Procs -> Threads \cup {NoThread}]
             /\ pc'[t] = "idle"
             /\ \A s \in Threads \ {t} : pc'[s] = pc[s] /\ got'[s] = got[s]
             /\ \A s \in Threads : /\ pc'[s] # "idle" => cmd[ProcOf[s]] = "on"
                                   /\ pc'[s] \in Critical <=> mutex'[ProcOf[s]] = s
  <2>1. /\ pc' \in [Threads -> Places]
        /\ after' \in [Threads -> {"send", "resend"}]
        /\ stale' \in [Threads -> Tokens \cup {NoToken}]
        /\ got' \in [Threads -> Tokens \cup {NoToken}]
        /\ pc'[t] = "idle"
        /\ \A s \in Threads \ {t} : pc'[s] = pc[s] /\ got'[s] = got[s]
    BY <1>3, Idling
  <2>2. /\ mutex' \in [Procs -> Threads \cup {NoThread}]
        /\ \A q \in Procs : mutex'[q] = IF q = p THEN NoThread ELSE mutex[q]
    BY <1>1, <1>3 DEF Unlock, TypeOK
  <2>3. \A s \in Threads : pc[s] \in Critical /\ ProcOf[s] = p => s = t
    BY <1>1 DEF TypeOK
  <2> QED
    BY <1>1, <2>1, <2>2, <2>3 DEF TypeOK, Critical
<1>4. CASE Renewed(t, r)
  <2>1. PICK n \in Tokens :
           /\ FamilyOf[n] = FamilyOf[r] /\ r \in usable[FamilyOf[r]] /\ n \notin Server!AllIssued
           /\ usable' = [usable EXCEPT ![FamilyOf[r]] = {n}]
           /\ issued' = [issued EXCEPT ![FamilyOf[r]] = @ \cup {n}]
           /\ got' = [got EXCEPT ![t] = n]
    BY <1>4 DEF Renewed, Server!Rotate
  <2>2. \A f \in Families : n \notin issued[f]
    BY <2>1 DEF Server!AllIssued
  <2>3. /\ GoTo(t, "apply") /\ "apply" \in Places
        /\ UNCHANGED <<mutex, after, stale, lastLogin, loggedOut, faulted, tripped>>
    BY <1>4 DEF Renewed, Places
  <2>4. /\ pc' \in [Threads -> Places] /\ pc'[t] = "apply"
        /\ \A s \in Threads \ {t} : pc'[s] = pc[s]
    BY <2>3, Going
  <2>5. /\ usable' \in [Families -> SUBSET Tokens] /\ issued' \in [Families -> SUBSET Tokens]
        /\ got' \in [Threads -> Tokens \cup {NoToken}] /\ got'[t] = n
        /\ \A s \in Threads \ {t} : got'[s] = got[s]
    BY <1>1, <2>1 DEF TypeOK
  <2>6. \A s \in Threads : /\ pc'[s] # "idle" => cmd[ProcOf[s]] = "on"
                           /\ pc'[s] \in Critical <=> mutex[ProcOf[s]] = s
    BY <1>1, <2>4 DEF TypeOK, Critical
  <2>7. TypeOK'
    BY <1>2, <2>3, <2>4, <2>5, <2>6 DEF TypeOK
  <2>8. RenewFrame(t)
    BY <1>1, <1>2, <2>3, <2>4, <2>5 DEF RenewFrame
  <2>9. AnsweredWith(t, r, n)
    BY <2>1, <2>2, <2>3, <2>4, <2>5 DEF AnsweredWith
  <2> QED
    BY <2>7, <2>8, <2>9
<1>5. CASE AnswerLost(t, r)
  <2>1. /\ Idle({t}) /\ Unlock(p) /\ faulted' = faulted \cup {FamilyOf[r]}
        /\ UNCHANGED <<lastLogin, loggedOut, tripped>>
        /\ r \in usable[FamilyOf[r]]
    BY <1>5 DEF AnswerLost, Faulted
  <2>2. \/ /\ usable' = [usable EXCEPT ![FamilyOf[r]] = {}] /\ issued' = issued
        \/ \E n \in Tokens :
              /\ FamilyOf[n] = FamilyOf[r]
              /\ usable' = [usable EXCEPT ![FamilyOf[r]] = {n}]
              /\ issued' = [issued EXCEPT ![FamilyOf[r]] = @ \cup {n}]
    BY <1>5 DEF AnswerLost, Exchange, Server!Revoke, Server!Rotate
  <2>3. TypeOK'
    <3>1. /\ usable' \in [Families -> SUBSET Tokens] /\ issued' \in [Families -> SUBSET Tokens]
          /\ faulted' \in SUBSET Families
      BY <1>1, <2>1, <2>2 DEF TypeOK
    <3> QED
      BY <1>2, <1>3, <2>1, <3>1 DEF TypeOK
  <2>4. FaultedWith(t, FamilyOf[r])
    BY <1>1, <1>3, <2>1, <2>2 DEF FaultedWith, TypeOK, SessionInv, ServerKnows
  <2> QED
    BY <1>1, <1>2, <1>3, <2>1, <2>3, <2>4 DEF RenewFrame
<1>6. CASE Refused(t, r)
  <2>1. /\ Idle({t}) /\ Unlock(p)
        /\ UNCHANGED <<lastLogin, loggedOut, faulted>>
    BY <1>6 DEF Refused
  <2>2. CASE UNCHANGED <<usable, issued, tripped>>
    <3>1. TypeOK'
      BY <1>2, <1>3, <2>1, <2>2 DEF TypeOK
    <3>2. Quiet(t)
      BY <1>1, <1>2, <1>3, <2>1, <2>2 DEF Quiet, Outside, Places
    <3> QED
      BY <3>1, <3>2
  <2>3. CASE /\ r \notin usable[FamilyOf[r]]
             /\ usable' = [usable EXCEPT ![FamilyOf[r]] = {}] /\ issued' = issued
             /\ tripped' = IF usable[FamilyOf[r]] = {} THEN tripped
                           ELSE tripped \cup {FamilyOf[r]}
    <3>1. /\ usable' \in [Families -> SUBSET Tokens] /\ issued' \in [Families -> SUBSET Tokens]
          /\ tripped' \in SUBSET Families
      BY <1>1, <2>3 DEF TypeOK
    <3>2. TypeOK'
      BY <1>2, <1>3, <2>1, <3>1 DEF TypeOK
    <3>3. RenewFrame(t) /\ RefusedWith(t, r)
      BY <1>1, <1>2, <1>3, <2>1, <2>3 DEF RenewFrame, RefusedWith
    <3> QED
      BY <3>2, <3>3
  <2> QED
    BY <1>6, <2>2, <2>3 DEF Refused, Server!Revoke
<1> QED
  BY <1>4, <1>5, <1>6 DEF Renew

LEMMA AnsweredKeeps ==
    ASSUME TypeOK, SessionInv, NEW t \in Threads, RenewFrame(t),
           NEW n \in Tokens, AnsweredWith(t, mem[ProcOf[t]], n)
    PROVE  SessionInv'
<1> USE SessionAssumption DEF SessionInv
<1> DEFINE p == ProcOf[t]
           f == FamilyOf[mem[p]]
<1>1. /\ p \in Procs /\ cmd[p] = "on" /\ pc[t] = "renew" /\ f \in Families
      /\ mem[p] # NoToken
  BY MemKnown DEF RenewFrame, TypeOK
<1>2. /\ UNCHANGED <<file, cmd, mem, faulted, tripped, loggedOut>>
      /\ FamilyOf[n] = f /\ pc'[t] = "apply" /\ got'[t] = n
      /\ usable'[f] = {n} /\ issued'[f] = issued[f] \cup {n}
      /\ \A g \in Families \ {f} : usable'[g] = usable[g] /\ issued'[g] = issued[g]
      /\ \A s \in Threads \ {t} : pc'[s] = pc[s] /\ got'[s] = got[s]
  BY <1>1 DEF RenewFrame, AnsweredWith, TypeOK
<1>4. \A q \in Procs : q # p /\ cmd[q] = "on" /\ FamilyOf[mem[q]] = f => ~Intact(mem[q])
  BY <1>1 DEF Alone, Holders, Intact
<1>5. ServerKnows'
  BY <1>2 DEF ServerKnows
<1>6. Known'
  BY <1>1, <1>2 DEF Known, TypeOK
<1>7. GotKnown'
  BY <1>1, <1>2 DEF GotKnown, TypeOK
<1>8. Alone' /\ NoFalseAlarm'
  BY <1>2 DEF Alone, Holders, Intact, NoFalseAlarm
<1>9. HolderWorks'
  <2>1. SUFFICES ASSUME NEW q \in Procs, cmd[q] = "on", Intact(mem[q]), q # p
                 PROVE  Worth(mem[q])' \/ \E s \in ThreadsOf(q) : pc'[s] = "apply"
    BY <1>1, <1>2 DEF HolderWorks, Intact, ThreadsOf
  <2>2. mem[q] \in Tokens /\ FamilyOf[mem[q]] # f
    BY <1>4, <2>1, MemKnown
  <2>3. CASE Worth(mem[q])
    BY <1>2, <2>2, <2>3 DEF Worth
  <2>4. CASE \E s \in ThreadsOf(q) : pc[s] = "apply"
    BY <1>1, <1>2, <2>4 DEF ThreadsOf
  <2> QED
    BY <2>1, <2>3, <2>4 DEF HolderWorks
<1>10. GotWorks'
  <2>1. SUFFICES ASSUME NEW s \in Threads, s # t, pc[s] = "apply", Intact(got[s])
                 PROVE  Worth(got[s])'
    BY <1>2 DEF GotWorks, Intact, Worth
  <2>2. /\ ProcOf[s] \in Procs /\ cmd[ProcOf[s]] = "on"
        /\ FamilyOf[got[s]] = FamilyOf[mem[ProcOf[s]]]
    BY <2>1 DEF TypeOK, GotKnown
  <2>3. ProcOf[s] # p
    BY <1>1, <2>1, OneRenews DEF Critical
  <2>4. FamilyOf[got[s]] # f /\ FamilyOf[got[s]] \in Families
    BY <1>4, <2>1, <2>2, <2>3, MemKnown DEF Intact
  <2> QED
    BY <1>2, <2>1, <2>4 DEF GotWorks, Worth
<1>11. FileKept'
  <2>1. \A q \in Procs : (\E s \in ThreadsOf(q) : pc[s] = "save")
                           => \E s \in ThreadsOf(q) : pc'[s] = "save"
    BY <1>1, <1>2 DEF ThreadsOf
  <2>2. p \in Holders(f)
    BY <1>1 DEF Holders
  <2> QED
    BY <1>2, <2>1, <2>2 DEF FileKept, Holders, Intact, Worth, TypeOK
<1>12. FreshLogin'
  <2>1. \A q \in Procs : cmd[q] = "login" => FamilyOf[mem[q]] # f /\ FamilyOf[mem[q]] \in Families
    BY <1>1, MemKnown DEF FreshLogin
  <2> QED
    BY <1>2, <2>1 DEF FreshLogin, Worth
<1>13. EndedBy'
  BY <1>2 DEF EndedBy
<1> QED
  BY <1>5, <1>6, <1>7, <1>8, <1>9, <1>10, <1>11, <1>12, <1>13

(* Nothing is claimed of a family that something happened to.               *)
LEMMA FaultedKeeps ==
    ASSUME TypeOK, SessionInv, NEW t \in Threads, RenewFrame(t),
           FaultedWith(t, FamilyOf[mem[ProcOf[t]]])
    PROVE  SessionInv'
<1> USE SessionAssumption DEF SessionInv
<1> DEFINE p == ProcOf[t]
           f == FamilyOf[mem[p]]
<1>1. /\ p \in Procs /\ cmd[p] = "on" /\ pc[t] = "renew" /\ f \in Families
      /\ mem[p] # NoToken
  BY MemKnown DEF RenewFrame, TypeOK
<1>2. /\ UNCHANGED <<file, cmd, mem, loggedOut>>
      /\ faulted' = faulted \cup {f} /\ tripped' \subseteq tripped \cup {f}
      /\ pc'[t] = "idle"
      /\ usable'[f] \subseteq issued'[f] /\ issued[f] \subseteq issued'[f]
      /\ \A n \in issued'[f] : FamilyOf[n] = f
      /\ \A g \in Families \ {f} : usable'[g] = usable[g] /\ issued'[g] = issued[g]
      /\ \A s \in Threads \ {t} : pc'[s] = pc[s] /\ got'[s] = got[s]
  BY <1>1 DEF RenewFrame, FaultedWith
<1>3. ServerKnows'
  BY <1>2 DEF ServerKnows
<1>4. Known'
  <2>1. \A n \in Tokens : n \in issued[FamilyOf[n]] => n \in issued'[FamilyOf[n]]
    BY <1>2
  <2> QED
    BY <1>2, <2>1 DEF Known, TypeOK
<1>5. GotKnown'
  <2>1. \A s \in Threads : got[s] \in issued[FamilyOf[got[s]]] /\ FamilyOf[got[s]] \in Families
                             => got[s] \in issued'[FamilyOf[got[s]]]
    BY <1>2
  <2>2. \A s \in Threads : pc[s] \in {"apply", "save"} => FamilyOf[got[s]] \in Families
    BY MemKnown DEF GotKnown, TypeOK
  <2> QED
    BY <1>2, <2>1, <2>2 DEF GotKnown
<1>6. Alone' /\ NoFalseAlarm'
  BY <1>2 DEF Alone, Holders, Intact, NoFalseAlarm
<1>7. HolderWorks'
  <2>1. SUFFICES ASSUME NEW q \in Procs, cmd[q] = "on", Intact(mem[q])'
                 PROVE  Worth(mem[q])' \/ \E s \in ThreadsOf(q) : pc'[s] = "apply"
    BY <1>2 DEF HolderWorks, Intact
  <2>2. FamilyOf[mem[q]] \in Families \ {f} /\ Intact(mem[q])
    BY <1>2, <2>1, MemKnown DEF Intact
  <2>3. CASE Worth(mem[q])
    BY <1>2, <2>2, <2>3 DEF Worth
  <2>4. CASE \E s \in ThreadsOf(q) : pc[s] = "apply"
    BY <1>1, <1>2, <2>4 DEF ThreadsOf
  <2> QED
    BY <2>1, <2>2, <2>3, <2>4 DEF HolderWorks
<1>8. GotWorks'
  <2>1. SUFFICES ASSUME NEW s \in Threads, s # t, pc[s] = "apply", Intact(got[s])'
                 PROVE  Worth(got[s])'
    BY <1>2 DEF GotWorks
  <2>2. FamilyOf[got[s]] \in Families
    BY <2>1, MemKnown DEF GotKnown, TypeOK
  <2>3. FamilyOf[got[s]] # f /\ Intact(got[s]) /\ got'[s] = got[s]
    BY <1>2, <2>1 DEF Intact
  <2> QED
    BY <1>2, <2>1, <2>2, <2>3 DEF GotWorks, Worth
<1>9. FileKept'
  <2>1. \A q \in Procs : (\E s \in ThreadsOf(q) : pc[s] = "save")
                           => \E s \in ThreadsOf(q) : pc'[s] = "save"
    BY <1>1, <1>2 DEF ThreadsOf
  <2> QED
    BY <1>2, <2>1 DEF FileKept, Holders, Intact, Worth, TypeOK
<1>10. FreshLogin'
  <2>1. \A q \in Procs : cmd[q] = "login" => FamilyOf[mem[q]] # f /\ FamilyOf[mem[q]] \in Families
    BY <1>1, MemKnown DEF FreshLogin
  <2> QED
    BY <1>2, <2>1 DEF FreshLogin, Worth
<1>11. EndedBy'
  BY <1>2 DEF EndedBy
<1> QED
  BY <1>3, <1>4, <1>5, <1>6, <1>7, <1>8, <1>9, <1>10, <1>11

(* A refusal is of a family that something happened to, or changes nothing: *)
(* the heart of NoFalseAlarm.                                               *)
LEMMA RefusedKeeps ==
    ASSUME TypeOK, SessionInv, NEW t \in Threads, RenewFrame(t),
           RefusedWith(t, mem[ProcOf[t]])
    PROVE  SessionInv'
<1> USE SessionAssumption DEF SessionInv
<1> DEFINE p == ProcOf[t]
           f == FamilyOf[mem[p]]
<1>1. /\ p \in Procs /\ cmd[p] = "on" /\ pc[t] = "renew" /\ f \in Families
  BY MemKnown DEF RenewFrame, TypeOK
<1>2. CASE f \in faulted
  <2>1. /\ \A g \in Families \ {f} : usable'[g] = usable[g]
        /\ usable'[f] = {}
    BY <1>1 DEF RefusedWith, TypeOK
  <2>2. FaultedWith(t, f)
    BY <1>1, <1>2, <2>1 DEF RefusedWith, FaultedWith, ServerKnows
  <2> QED
    BY <2>2, FaultedKeeps
<1>3. CASE f \notin faulted
  <2>1. \A s \in ThreadsOf(p) : pc[s] # "apply"
    BY <1>1, OneRenews DEF ThreadsOf, Critical
  <2>2. usable[f] = {}
    BY <1>1, <1>3, <2>1 DEF HolderWorks, Intact, Worth, RefusedWith
  <2>3. usable' = usable
    BY <1>1, <2>2 DEF RefusedWith, TypeOK
  <2>4. Quiet(t)
    BY <1>1, <2>2, <2>3 DEF RefusedWith, RenewFrame, Quiet, Outside, Places
  <2> QED
    BY <2>4, QuietKeeps
<1> QED
  BY <1>2, <1>3

LEMMA ApplyKeeps ==
    ASSUME TypeOK, SessionInv, NEW t \in Threads, Apply(t)
    PROVE  TypeOK' /\ SessionInv'
<1> USE SessionAssumption DEF SessionInv
<1> DEFINE p == ProcOf[t]
<1>1. /\ p \in Procs /\ cmd[p] = "on" /\ pc[t] = "apply" /\ mutex[p] = t
      /\ mem[p] \in Tokens /\ got[t] \in Tokens /\ FamilyOf[got[t]] = FamilyOf[mem[p]]
      /\ got[t] \in issued[FamilyOf[got[t]]]
  <2>1. p \in Procs /\ cmd[p] = "on" /\ pc[t] = "apply" /\ mutex[p] = t
    BY DEF Apply, TypeOK, Critical
  <2>2. mem[p] \in Tokens /\ FamilyOf[mem[p]] \in Families
    BY <2>1, MemKnown
  <2>3. FamilyOf[got[t]] = FamilyOf[mem[p]] /\ got[t] \in issued[FamilyOf[got[t]]]
    BY <2>1 DEF GotKnown
  <2> QED
    BY <2>1, <2>2, <2>3 DEF TypeOK
<1>2. /\ UNCHANGED <<usable, issued, file, cmd, mutex, after, stale, got,
                     lastLogin, loggedOut, faulted, tripped>>
      /\ pc' \in [Threads -> Places] /\ pc'[t] = "save"
      /\ \A s \in Threads \ {t} : pc'[s] = pc[s]
      /\ mem' \in [Procs -> Tokens \cup {NoToken}] /\ mem'[p] = got[t]
      /\ \A q \in Procs \ {p} : mem'[q] = mem[q]
  <2>1. "save" \in Places /\ GoTo(t, "save")
    BY DEF Apply, Places
  <2> QED
    BY <1>1, <2>1, Going DEF Apply, server, history, TypeOK
<1>3. TypeOK'
  <2>1. \A s \in Threads : /\ pc'[s] # "idle" => cmd[ProcOf[s]] = "on"
                           /\ pc'[s] \in Critical <=> mutex[ProcOf[s]] = s
    BY <1>1, <1>2 DEF TypeOK, Critical
  <2> QED
    BY <1>1, <1>2, <2>1 DEF TypeOK
<1>4. \A q \in Procs : cmd[q] = "on" => FamilyOf[mem'[q]] = FamilyOf[mem[q]]
  BY <1>1, <1>2
<1>5. \A f \in Families : Holders(f)' = Holders(f)
  BY <1>2, <1>4 DEF Holders
<1>6. \A s \in Threads \ {t} : pc[s] \in {"apply", "save"} => ProcOf[s] \in Procs \ {p}
  BY <1>1, OneRenews DEF Critical, TypeOK
<1>7. ServerKnows' /\ EndedBy' /\ NoFalseAlarm'
  BY <1>2 DEF ServerKnows, EndedBy, NoFalseAlarm
<1>8. Known'
  BY <1>1, <1>2 DEF Known
<1>9. GotKnown'
  BY <1>1, <1>2, <1>6 DEF GotKnown
<1>10. Alone'
  BY <1>2, <1>4 DEF Alone, Holders, Intact
<1>11. HolderWorks'
  <2>1. SUFFICES ASSUME NEW q \in Procs, cmd[q] = "on", Intact(mem[q])
                 PROVE  Worth(mem[q])' \/ \E s \in ThreadsOf(q) : pc'[s] = "apply"
    BY <1>2, <1>4 DEF HolderWorks, Intact
  <2>2. CASE q = p
    BY <1>1, <1>2, <2>1, <2>2 DEF GotWorks, Intact, Worth
  <2>3. CASE q # p /\ Worth(mem[q])
    BY <1>2, <2>3 DEF Worth
  <2>4. CASE q # p /\ \E s \in ThreadsOf(q) : pc[s] = "apply"
    BY <1>2, <2>4 DEF ThreadsOf
  <2> QED
    BY <2>1, <2>2, <2>3, <2>4 DEF HolderWorks
<1>12. GotWorks'
  BY <1>2 DEF GotWorks, Intact, Worth
<1>13. FileKept'
  <2>1. SUFFICES ASSUME file # NoToken, Intact(file),
                        Holders(FamilyOf[file]) # {},
                        NEW q \in Holders(FamilyOf[file])
                 PROVE  file = mem'[q] \/ \E s \in ThreadsOf(q) : pc'[s] = "save"
    <3>1. file # NoToken => FamilyOf[file] \in Families
      BY DEF TypeOK
    <3> QED
      BY <1>2, <1>5, <3>1 DEF FileKept, Intact, Worth
  <2>2. CASE q = p
    BY <1>2, <2>2 DEF ThreadsOf
  <2>3. CASE q # p
    <3>1. file = mem[q] \/ \E s \in ThreadsOf(q) : pc[s] = "save"
      BY <2>1 DEF FileKept
    <3>2. q \in Procs
      BY <2>1 DEF Holders
    <3> QED
      BY <1>2, <2>3, <3>1, <3>2 DEF ThreadsOf
  <2> QED
    BY <2>2, <2>3
<1>14. FreshLogin'
  <2>1. \A q \in Procs : mem[q] # NoToken => mem'[q] # NoToken /\ FamilyOf[mem'[q]] = FamilyOf[mem[q]]
    BY <1>1, <1>2
  <2>2. \A q \in Procs : mem'[q] # NoToken => mem[q] # NoToken
    BY <1>1, <1>2
  <2>3. \A q \in Procs : cmd[q] = "login" => mem'[q] = mem[q] /\ mem[q] # NoToken
    BY <1>1, <1>2 DEF TypeOK
  <2> QED
    BY <1>2, <2>1, <2>2, <2>3 DEF FreshLogin, Worth
<1> QED
  BY <1>3, <1>7, <1>8, <1>9, <1>10, <1>11, <1>12, <1>13, <1>14

LEMMA SaveKeeps ==
    ASSUME TypeOK, SessionInv, NEW t \in Threads, Save(t)
    PROVE  TypeOK' /\ SessionInv'
<1> USE SessionAssumption DEF SessionInv
<1> DEFINE p == ProcOf[t]
           f == FamilyOf[mem[p]]
<1>1. /\ p \in Procs /\ cmd[p] = "on" /\ pc[t] = "save" /\ mutex[p] = t
      /\ mem[p] \in Tokens /\ f \in Families /\ got[t] = mem[p]
      /\ mem[p] \in issued[f]
  <2>1. p \in Procs /\ cmd[p] = "on" /\ pc[t] = "save" /\ mutex[p] = t
    <3>1. pc[t] = "save"
      BY DEF Save
    <3> QED
      BY <3>1 DEF TypeOK, Critical
  <2>2. mem[p] \in Tokens /\ f \in Families
    BY <2>1, MemKnown
  <2> QED
    BY <2>1, <2>2 DEF GotKnown
<1>2. /\ UNCHANGED <<usable, issued, cmd, mem, after, stale, lastLogin, loggedOut, tripped>>
      /\ pc' \in [Threads -> Places] /\ pc'[t] \in {"send", "resend"}
      /\ \A s \in Threads \ {t} : pc'[s] = pc[s] /\ got'[s] = got[s]
      /\ got' \in [Threads -> Tokens \cup {NoToken}]
      /\ mutex' \in [Procs -> Threads \cup {NoThread}]
      /\ \A q \in Procs : mutex'[q] = IF q = p THEN NoThread ELSE mutex[q]
  <2>1. after[t] \in Places /\ after[t] \in {"send", "resend"} /\ GoTo(t, after[t])
    BY DEF Save, Places, TypeOK
  <2>2. pc' \in [Threads -> Places] /\ pc'[t] = after[t] /\ \A s \in Threads \ {t} : pc'[s] = pc[s]
    BY <2>1, Going
  <2>3. /\ mutex' \in [Procs -> Threads \cup {NoThread}]
        /\ \A q \in Procs : mutex'[q] = IF q = p THEN NoThread ELSE mutex[q]
    BY <1>1 DEF Save, Unlock, TypeOK
  <2>4. /\ got' \in [Threads -> Tokens \cup {NoToken}]
        /\ \A s \in Threads \ {t} : got'[s] = got[s]
    BY DEF Save, TypeOK
  <2>5. UNCHANGED <<usable, issued, cmd, mem, after, stale, lastLogin, loggedOut, tripped>>
    BY DEF Save, server
  <2> QED
    BY <2>1, <2>2, <2>3, <2>4, <2>5
<1>3. \/ file' = mem[p] /\ faulted' = faulted
      \/ file' = file /\ faulted' = faulted \cup {f}
  BY <1>1 DEF Save, Faulted
<1>4. TypeOK'
  <2>1. \A s \in Threads : /\ pc'[s] # "idle" => cmd[ProcOf[s]] = "on"
                           /\ pc'[s] \in Critical <=> mutex'[ProcOf[s]] = s
    <3>1. \A s \in Threads : pc[s] \in Critical /\ ProcOf[s] = p => s = t
      BY <1>1 DEF TypeOK
    <3> QED
      BY <1>1, <1>2, <3>1 DEF TypeOK, Critical
  <2>2. file' \in Tokens \cup {NoToken} /\ faulted' \in SUBSET Families
    BY <1>1, <1>3 DEF TypeOK
  <2> QED
    BY <1>1, <1>2, <2>1, <2>2 DEF TypeOK
<1>5. \A s \in Threads : pc'[s] \in {"apply", "save"} => s # t
  BY <1>2
<1>6. \A s \in Threads \ {t} : pc[s] \in {"apply", "save"} => ProcOf[s] \in Procs \ {p}
  BY <1>1, OneRenews DEF Critical, TypeOK
<1>7. ServerKnows' /\ EndedBy' /\ NoFalseAlarm'
  BY <1>2, <1>3 DEF ServerKnows, EndedBy, NoFalseAlarm
<1>8. Known'
  BY <1>1, <1>2, <1>3 DEF Known
<1>9. GotKnown'
  BY <1>2, <1>5 DEF GotKnown
<1>10. Alone'
  BY <1>2, <1>3 DEF Alone, Holders, Intact
<1>11. HolderWorks'
  <2>1. \A q \in Procs : (\E s \in ThreadsOf(q) : pc[s] = "apply")
                           => \E s \in ThreadsOf(q) : pc'[s] = "apply"
    BY <1>1, <1>2 DEF ThreadsOf
  <2> QED
    BY <1>2, <1>3, <2>1 DEF HolderWorks, Intact, Worth
<1>12. GotWorks'
  BY <1>2, <1>3, <1>5 DEF GotWorks, Intact, Worth
<1>13. FileKept'
  <2>1. \A g \in Families : Holders(g)' = Holders(g)
    BY <1>2 DEF Holders
  <2>2. CASE file' = mem[p] /\ faulted' = faulted
    <3>1. SUFFICES ASSUME f \notin faulted
                   PROVE  /\ {q \in Procs : cmd[q] = "on" /\ FamilyOf[mem[q]] = f} # {}
                          /\ \A q \in Procs : cmd[q] = "on" /\ FamilyOf[mem[q]] = f => mem[p] = mem[q]
      BY <1>2, <2>2 DEF FileKept, Intact, Holders
    <3>2. \A q \in Procs : cmd[q] = "on" /\ FamilyOf[mem[q]] = f => q = p
      BY <1>1, <3>1 DEF Alone, Intact, Holders
    <3> QED
      BY <1>1, <3>2
  <2>3. CASE file' = file /\ faulted' = faulted \cup {f}
    <3>1. \A q \in Procs \ {p} : (\E s \in ThreadsOf(q) : pc[s] = "save")
                                   => \E s \in ThreadsOf(q) : pc'[s] = "save"
      BY <1>1, <1>2 DEF ThreadsOf
    <3>2. \A g \in Families \ {f} : p \notin Holders(g)
      BY DEF Holders
    <3>3. \A g \in Families : Holders(g) \subseteq Procs
      BY DEF Holders
    <3> QED
      BY <1>2, <2>1, <2>3, <3>1, <3>2, <3>3 DEF FileKept, Intact, Worth, TypeOK
  <2> QED
    BY <1>3, <2>2, <2>3
<1>14. FreshLogin'
  <2>1. \A q \in Procs : cmd[q] = "login" => FamilyOf[mem[q]] # f
    BY <1>1 DEF FreshLogin, TypeOK
  <2> QED
    BY <1>2, <1>3, <2>1 DEF FreshLogin, Worth
<1> QED
  BY <1>4, <1>7, <1>8, <1>9, <1>10, <1>11, <1>12, <1>13, <1>14

(* Steps of commands. *)

(* p does not run any longer, and its threads are gone with it.             *)
Leaves(p) ==
    /\ UNCHANGED <<usable, issued, loggedOut, tripped>>
    /\ cmd'[p] = "off" /\ mem'[p] = NoToken
    /\ \A q \in Procs \ {p} : cmd'[q] = cmd[q] /\ mem'[q] = mem[q]
    /\ \A s \in Threads : IF ProcOf[s] = p THEN pc'[s] = "idle"
                          ELSE pc'[s] = pc[s] /\ got'[s] = got[s]

LEMMA LeavesKeeps ==
    ASSUME TypeOK, SessionInv, NEW p \in Procs, Leaves(p),
           file' \in {file, NoToken},
           \/ UNCHANGED faulted /\ (cmd[p] = "on" => ~Unsaved(p))
           \/ faulted' = faulted \cup {FamilyOf[mem[p]]}
    PROVE  SessionInv'
<1> USE SessionAssumption DEF SessionInv, Leaves
<1>1. ServerKnows' /\ EndedBy' /\ NoFalseAlarm' /\ Known'
  BY DEF ServerKnows, EndedBy, NoFalseAlarm, Known
<1>2. GotKnown'
  BY DEF GotKnown, TypeOK
<1>3. Alone'
  BY DEF Alone, Holders, Intact
<1>4. HolderWorks'
  <2>1. SUFFICES ASSUME NEW q \in Procs \ {p}, cmd[q] = "on", Intact(mem[q])
                 PROVE  Worth(mem[q]) \/ \E s \in ThreadsOf(q) : pc'[s] = "apply"
    BY DEF HolderWorks, Intact, Worth
  <2>2. \A s \in ThreadsOf(q) : pc'[s] = pc[s]
    BY DEF ThreadsOf
  <2> QED
    BY <2>1, <2>2 DEF HolderWorks
<1>5. GotWorks'
  BY DEF GotWorks, Intact, Worth
<1>6. FileKept'
  <2> DEFINE f == FamilyOf[file]
             Held == {q \in Procs \ {p} : cmd[q] = "on" /\ FamilyOf[mem[q]] = f}
  <2>1. SUFFICES ASSUME file' = file, file # NoToken, f \notin faulted'
                 PROVE  /\ Held = {} => Worth(file)
                        /\ \A q \in Held :
                              file = mem[q] \/ \E s \in ThreadsOf(q) : pc'[s] = "save"
    BY DEF FileKept, Intact, Worth, Holders
  <2>2. Intact(file)
    BY <2>1 DEF Intact
  <2>3. ASSUME NEW q \in Held
        PROVE  file = mem[q] \/ \E s \in ThreadsOf(q) : pc'[s] = "save"
    <3>1. \A s \in ThreadsOf(q) : pc'[s] = pc[s]
      BY DEF ThreadsOf
    <3> QED
      BY <2>1, <2>2, <3>1 DEF FileKept, Holders
  <2>4. ASSUME Held = {}
        PROVE  Worth(file)
    <3>1. CASE p \in Holders(f)
      <4>1. cmd[p] = "on" /\ ~Unsaved(p) /\ Intact(mem[p])
        BY <2>1, <2>2, <3>1 DEF Holders, Intact
      <4>2. Worth(mem[p])
        BY <4>1 DEF HolderWorks, Unsaved
      <4>3. file = mem[p]
        BY <2>1, <2>2, <3>1, <4>1 DEF FileKept, Unsaved
      <4> QED
        BY <4>2, <4>3
    <3>2. CASE p \notin Holders(f)
      <4>1. Holders(f) = {}
        BY <2>4, <3>2 DEF Holders
      <4> QED
        BY <2>1, <2>2, <4>1 DEF FileKept
    <3> QED
      BY <3>1, <3>2
  <2> QED
    BY <2>3, <2>4
<1>7. FreshLogin'
  BY DEF FreshLogin, Worth
<1> QED
  BY <1>1, <1>2, <1>3, <1>4, <1>5, <1>6, <1>7

LEMMA LoginKeeps ==
    ASSUME TypeOK, SessionInv, NEW p \in Procs, Login(p)
    PROVE  SessionInv'
<1> USE SessionAssumption DEF SessionInv
<1>1. PICK n \in Tokens :
         /\ issued[FamilyOf[n]] = {}
         /\ usable' = [usable EXCEPT ![FamilyOf[n]] = {n}]
         /\ issued' = [issued EXCEPT ![FamilyOf[n]] = {n}]
         /\ mem' = [mem EXCEPT ![p] = n]
  BY DEF Login, Server!Login
<1> DEFINE f == FamilyOf[n]
<1>2. /\ f \in Families /\ n # NoToken
      /\ usable'[f] = {n} /\ issued'[f] = {n}
      /\ \A g \in Families \ {f} : usable'[g] = usable[g] /\ issued'[g] = issued[g]
  BY <1>1 DEF TypeOK
<1>3. /\ UNCHANGED <<file, pc, got, loggedOut, faulted, tripped>>
      /\ cmd[p] = "off" /\ cmd'[p] = "login" /\ mem'[p] = n
      /\ \A q \in Procs \ {p} : cmd'[q] = cmd[q] /\ mem'[q] = mem[q]
  BY <1>1 DEF Login, thread, history, TypeOK
<1>4. /\ file # NoToken => FamilyOf[file] \in Families \ {f}
      /\ \A q \in Procs : mem[q] # NoToken => FamilyOf[mem[q]] \in Families \ {f}
  BY <1>1 DEF Known, TypeOK
<1>5. \A s \in Threads : pc[s] # "idle" => ProcOf[s] \in Procs \ {p}
  BY <1>3 DEF TypeOK
<1>6. \A s \in Threads : pc[s] \in {"apply", "save"} => FamilyOf[got[s]] \in Families \ {f}
  BY <1>4, <1>5 DEF GotKnown, TypeOK
<1>7. ServerKnows' /\ EndedBy' /\ NoFalseAlarm'
  BY <1>2, <1>3 DEF ServerKnows, EndedBy, NoFalseAlarm
<1>8. Known'
  BY <1>2, <1>3, <1>4 DEF Known
<1>9. GotKnown'
  BY <1>2, <1>3, <1>5, <1>6 DEF GotKnown
<1>10. Alone'
  BY <1>3 DEF Alone, Holders, Intact
<1>11. HolderWorks'
  BY <1>2, <1>3, <1>4 DEF HolderWorks, Intact, Worth, TypeOK
<1>12. GotWorks'
  BY <1>2, <1>3, <1>6 DEF GotWorks, Intact, Worth
<1>13. FileKept'
  <2>1. Holders(FamilyOf[file])' = Holders(FamilyOf[file])
    BY <1>3 DEF Holders
  <2> QED
    BY <1>2, <1>3, <1>4, <2>1 DEF FileKept, Intact, Worth, Holders
<1>14. FreshLogin'
  BY <1>2, <1>3, <1>4 DEF FreshLogin, Worth, TypeOK
<1> QED
  BY <1>7, <1>8, <1>9, <1>10, <1>11, <1>12, <1>13, <1>14

LEMMA SaveLoginKeeps ==
    ASSUME TypeOK, SessionInv, NEW p \in Procs, cmd[p] = "login", Leaves(p),
           file' = mem[p], UNCHANGED faulted
    PROVE  SessionInv'
<1> USE SessionAssumption DEF SessionInv, Leaves
<1> DEFINE f == FamilyOf[mem[p]]
<1>1. /\ mem[p] \in Tokens /\ f \in Families /\ Worth(mem[p])
      /\ \A q \in Procs \ {p} : mem[q] # NoToken => FamilyOf[mem[q]] # f
  BY MemKnown DEF FreshLogin
<1>2. ServerKnows' /\ EndedBy' /\ NoFalseAlarm' /\ Known'
  BY DEF ServerKnows, EndedBy, NoFalseAlarm, Known
<1>3. GotKnown'
  BY DEF GotKnown, TypeOK
<1>4. Alone'
  BY DEF Alone, Holders, Intact
<1>5. HolderWorks'
  <2>1. SUFFICES ASSUME NEW q \in Procs \ {p}, cmd[q] = "on", Intact(mem[q])
                 PROVE  Worth(mem[q]) \/ \E s \in ThreadsOf(q) : pc'[s] = "apply"
    BY DEF HolderWorks, Intact, Worth
  <2>2. \A s \in ThreadsOf(q) : pc'[s] = pc[s]
    BY DEF ThreadsOf
  <2> QED
    BY <2>1, <2>2 DEF HolderWorks
<1>6. GotWorks'
  BY DEF GotWorks, Intact, Worth
<1>7. FileKept'
  <2>1. \A q \in Procs : ~(cmd'[q] = "on" /\ FamilyOf[mem'[q]] = f)
    BY <1>1 DEF TypeOK
  <2> QED
    BY <1>1, <2>1 DEF FileKept, Holders, Worth
<1>8. FreshLogin'
  BY <1>1 DEF FreshLogin, Worth, TypeOK
<1> QED
  BY <1>2, <1>3, <1>4, <1>5, <1>6, <1>7, <1>8

LEMMA StartKeeps ==
    ASSUME TypeOK, SessionInv, NEW p \in Procs, Start(p)
    PROVE  SessionInv'
<1> USE SessionAssumption DEF SessionInv
<1> DEFINE f == FamilyOf[file]
<1>1. /\ UNCHANGED <<usable, issued, file, pc, got, loggedOut, tripped>>
      /\ cmd[p] = "off" /\ file \in Tokens /\ f \in Families
      /\ cmd'[p] = "on" /\ mem'[p] = file
      /\ \A q \in Procs \ {p} : cmd'[q] = cmd[q] /\ mem'[q] = mem[q]
  BY DEF Start, thread, server, TypeOK
<1>2. faulted \subseteq faulted' /\ (f \in faulted' \/ (Holders(f) = {} /\ faulted' = faulted))
      /\ faulted' \subseteq faulted \cup {f}
  BY DEF Start, Faulted
<1>3. \A s \in Threads : ProcOf[s] = p => pc[s] = "idle"
  BY <1>1 DEF TypeOK
<1>4. ServerKnows' /\ EndedBy' /\ NoFalseAlarm' /\ Known'
  BY <1>1, <1>2 DEF ServerKnows, EndedBy, NoFalseAlarm, Known
<1>5. GotKnown'
  BY <1>1, <1>3 DEF GotKnown
<1>6. Alone'
  BY <1>1, <1>2 DEF Alone, Holders, Intact
<1>7. HolderWorks'
  <2>1. f \notin faulted' => Worth(file)
    BY <1>1, <1>2 DEF FileKept, Intact
  <2> QED
    BY <1>1, <1>2, <2>1 DEF HolderWorks, Intact, Worth
<1>8. GotWorks'
  BY <1>1, <1>2 DEF GotWorks, Intact, Worth
<1>9. FileKept'
  <2>1. SUFFICES ASSUME f \notin faulted'
                 PROVE  /\ {q \in Procs : cmd'[q] = "on" /\ FamilyOf[mem'[q]] = f} # {}
                        /\ \A q \in Procs : cmd'[q] = "on" /\ FamilyOf[mem'[q]] = f => file = mem'[q]
    BY <1>1 DEF FileKept, Intact, Holders
  <2>2. \A q \in Procs \ {p} : ~(cmd[q] = "on" /\ FamilyOf[mem[q]] = f)
    BY <1>2, <2>1 DEF Holders
  <2> QED
    BY <1>1, <2>2
<1>10. FreshLogin'
  <2>1. SUFFICES ASSUME NEW q \in Procs \ {p}, cmd[q] = "login"
                 PROVE  /\ Worth(mem[q]) /\ f # FamilyOf[mem[q]]
                        /\ \A s \in Procs \ {p} : mem[s] # NoToken /\ s # q =>
                               FamilyOf[mem[s]] # FamilyOf[mem[q]]
    BY <1>1 DEF FreshLogin, Worth
  <2>2. file # NoToken
    BY <1>1
  <2> QED
    BY <2>1, <2>2 DEF FreshLogin
<1> QED
  BY <1>4, <1>5, <1>6, <1>7, <1>8, <1>9, <1>10

LEMMA StartLogoutKeeps ==
    ASSUME TypeOK, SessionInv, NEW p \in Procs, StartLogout(p)
    PROVE  SessionInv'
<1> USE SessionAssumption DEF SessionInv
<1>1. /\ UNCHANGED <<usable, issued, file, pc, got, loggedOut, faulted, tripped>>
      /\ cmd[p] = "off" /\ file \in Tokens
      /\ cmd'[p] = "logout" /\ mem'[p] = file
      /\ \A q \in Procs \ {p} : cmd'[q] = cmd[q] /\ mem'[q] = mem[q]
  BY DEF StartLogout, thread, server, history, TypeOK
<1>2. \A s \in Threads : ProcOf[s] = p => pc[s] = "idle"
  BY <1>1 DEF TypeOK
<1>3. ServerKnows' /\ EndedBy' /\ NoFalseAlarm' /\ Known'
  BY <1>1 DEF ServerKnows, EndedBy, NoFalseAlarm, Known
<1>4. GotKnown'
  BY <1>1, <1>2 DEF GotKnown
<1>5. Alone' /\ HolderWorks' /\ GotWorks'
  <2>1. Alone'
    BY <1>1 DEF Alone, Holders, Intact
  <2>2. HolderWorks'
    BY <1>1 DEF HolderWorks, Intact, Worth
  <2>3. GotWorks'
    BY <1>1 DEF GotWorks, Intact, Worth
  <2> QED
    BY <2>1, <2>2, <2>3
<1>6. FileKept'
  <2>1. Holders(FamilyOf[file])' = Holders(FamilyOf[file])
    BY <1>1 DEF Holders
  <2> QED
    BY <1>1, <2>1 DEF FileKept, Intact, Worth, Holders
<1>7. FreshLogin'
  BY <1>1 DEF FreshLogin, Worth
<1> QED
  BY <1>3, <1>4, <1>5, <1>6, <1>7

LEMMA LogoutKeeps ==
    ASSUME TypeOK, SessionInv, NEW p \in Procs, Logout(p)
    PROVE  SessionInv'
<1> USE SessionAssumption DEF SessionInv
<1> DEFINE f == FamilyOf[mem[p]]
<1>1. /\ UNCHANGED <<file, mem, pc, got, faulted, tripped, issued>>
      /\ cmd[p] = "logout" /\ cmd'[p] = "clear"
      /\ \A q \in Procs \ {p} : cmd'[q] = cmd[q]
  BY DEF Logout, thread, server, Server!Revoke, TypeOK
<1>2. f \in Families
  BY <1>1, MemKnown
<1>3. /\ loggedOut \subseteq loggedOut'
      /\ \A g \in Families : \/ usable'[g] = usable[g]
                             \/ usable'[g] = {} /\ g \in loggedOut'
  <2>1. \/ UNCHANGED <<usable, loggedOut>>
        \/ usable' = [usable EXCEPT ![f] = {}] /\ loggedOut' = loggedOut \cup {f}
    BY DEF Logout, server, Server!Revoke
  <2> QED
    BY <1>2, <2>1 DEF TypeOK
<1>4. \A n \in Tokens : FamilyOf[n] \in Families /\ (Worth(n) => usable'[FamilyOf[n]] \in {{}, {n}})
  BY <1>3 DEF Worth
<1>5. ServerKnows' /\ EndedBy' /\ NoFalseAlarm' /\ Known' /\ GotKnown'
  BY <1>1, <1>3 DEF ServerKnows, EndedBy, NoFalseAlarm, Known, GotKnown
<1>6. Alone'
  BY <1>1 DEF Alone, Holders, Intact
<1>7. HolderWorks'
  <2>1. \A q \in Procs : cmd'[q] = "on" => cmd[q] = "on" /\ mem[q] \in Tokens
    BY <1>1, MemKnown
  <2> QED
    BY <1>1, <1>4, <2>1 DEF HolderWorks, Intact, Worth
<1>8. GotWorks'
  <2>1. \A s \in Threads : pc[s] = "apply" => FamilyOf[got[s]] \in Families
    BY MemKnown DEF GotKnown, TypeOK
  <2> QED
    BY <1>1, <1>3, <2>1 DEF GotWorks, Intact, Worth
<1>9. FileKept'
  <2>1. Holders(FamilyOf[file])' = Holders(FamilyOf[file])
    BY <1>1 DEF Holders
  <2> QED
    BY <1>1, <1>4, <2>1 DEF FileKept, Intact, Worth, Holders, TypeOK
<1>10. FreshLogin'
  <2>1. \A q \in Procs : cmd'[q] = "login" => cmd[q] = "login" /\ mem[q] \in Tokens
    BY <1>1, MemKnown
  <2> QED
    BY <1>1, <1>4, <2>1 DEF FreshLogin, Worth
<1> QED
  BY <1>5, <1>6, <1>7, <1>8, <1>9, <1>10

LEMMA CommandKeeps ==
    ASSUME TypeOK, SessionInv, NEW p \in Procs, Command(p)
    PROVE  SessionInv'
<1> USE SessionAssumption DEF history, thread, server
<1>1. ASSUME cmd[p] # "on"
      PROVE  \A s \in Threads : ProcOf[s] = p => pc[s] = "idle"
  BY <1>1 DEF TypeOK
<1>2. ASSUME SaveLogin(p) \/ Clear(p)
      PROVE  /\ Leaves(p) /\ UNCHANGED faulted /\ cmd[p] # "on"
             /\ SaveLogin(p) => cmd[p] = "login"
             /\ file' \in {file, NoToken} \/ (SaveLogin(p) /\ file' = mem[p])
  <2>1. UNCHANGED <<usable, issued, loggedOut, tripped, pc, got, faulted>> /\ Quit(p)
    BY <1>2 DEF SaveLogin, Clear
  <2>2. /\ cmd[p] # "on" /\ (SaveLogin(p) => cmd[p] = "login")
        /\ file' \in {file, NoToken} \/ (SaveLogin(p) /\ file' = mem[p])
    <3>1. CASE SaveLogin(p)
      BY <3>1 DEF SaveLogin
    <3>2. CASE Clear(p) /\ ~SaveLogin(p)
      BY <3>2 DEF Clear
    <3> QED
      BY <1>2, <3>1, <3>2
  <2> QED
    BY <1>1, <2>1, <2>2 DEF Leaves, Quit, TypeOK
<1>3. CASE SaveLogin(p) \/ Clear(p)
  BY <1>2, <1>3, LeavesKeeps, SaveLoginKeeps
<1>4. CASE End(p)
  <2>1. /\ UNCHANGED <<usable, issued, loggedOut, tripped, file>>
        /\ Quit(p) /\ Idle(ThreadsOf(p)) /\ ThreadsOf(p) \in SUBSET Threads
    BY <1>4 DEF End, ThreadsOf
  <2>2. \A s \in Threads : IF ProcOf[s] = p THEN pc'[s] = "idle"
                           ELSE pc'[s] = pc[s] /\ got'[s] = got[s]
    BY <2>1, Idling DEF ThreadsOf
  <2>3. Leaves(p)
    BY <2>1, <2>2 DEF Leaves, Quit, TypeOK
  <2>4. \/ UNCHANGED faulted /\ ~Unsaved(p)
        \/ faulted' = faulted \cup {FamilyOf[mem[p]]}
    BY <1>4 DEF End, Faulted
  <2> QED
    BY <2>1, <2>3, <2>4, LeavesKeeps
<1> QED
  BY <1>3, <1>4, LoginKeeps, StartKeeps, StartLogoutKeeps, LogoutKeeps DEF Command

LEMMA RequestKeeps ==
    ASSUME TypeOK, SessionInv, NEW t \in Threads, Request(t)
    PROVE  TypeOK' /\ SessionInv'
<1>1. CASE Begin(t) \/ Send(t) \/ Stale(t) \/ Resend(t) \/ Lock(t)
  BY <1>1, QuietEffect, QuietKeeps
<1>2. CASE Renew(t)
  BY <1>2, RenewEffect, QuietKeeps, AnsweredKeeps, FaultedKeeps, RefusedKeeps
<1> QED
  BY <1>1, <1>2, ApplyKeeps, SaveKeeps DEF Request

----------------------------------------------------------------------------
(* Theorems *)

(* Every variable keeps its type, only requests of a running process are    *)
(* under way, and those that renew hold the mutex, for every number of      *)
(* processes and goroutines (Client.renewIfStale); together with the reason *)
(* why the theorems below hold.                                             *)
THEOREM Invariant == Spec => [](TypeOK /\ SessionInv)
<1>1. Init => TypeOK /\ SessionInv
  BY TypeInit, InitInv
<1>2. TypeOK /\ SessionInv /\ [Next]_vars => (TypeOK /\ SessionInv)'
  <2> SUFFICES ASSUME TypeOK, SessionInv, [Next]_vars
               PROVE  TypeOK' /\ SessionInv'
    OBVIOUS
  <2>1. ASSUME NEW p \in Procs, Command(p)
        PROVE  TypeOK' /\ SessionInv'
    BY <2>1, TypeCommand, CommandKeeps
  <2>2. ASSUME NEW t \in Threads, Request(t)
        PROVE  TypeOK' /\ SessionInv'
    BY <2>2, RequestKeeps
  <2>3. CASE UNCHANGED vars
    <3>1. TypeOK'
      BY <2>3 DEF vars, TypeOK
    <3>2. ServerKnows' /\ Known' /\ GotKnown' /\ EndedBy' /\ NoFalseAlarm'
      BY <2>3 DEF vars, SessionInv, ServerKnows, Known, GotKnown, EndedBy, NoFalseAlarm
    <3>3. Alone' /\ GotWorks' /\ FreshLogin'
      BY <2>3 DEF vars, SessionInv, Alone, GotWorks, FreshLogin, Holders, Intact, Worth
    <3>4. HolderWorks'
      BY <2>3 DEF vars, SessionInv, HolderWorks, Intact, Worth, ThreadsOf
    <3>5. FileKept'
      BY <2>3 DEF vars, SessionInv, FileKept, Holders, Intact, Worth, ThreadsOf
    <3> QED
      BY <3>1, <3>2, <3>3, <3>4, <3>5 DEF SessionInv
  <2> QED
    BY <2>1, <2>2, <2>3 DEF Next
<1> QED
  BY <1>1, <1>2, PTL DEF Spec

THEOREM TypeCorrect == Spec => []TypeOK
BY Invariant, PTL

(* No session is revoked as stolen, though it had a token that works,       *)
(* unless an answer or a save was lost or two processes shared it, however  *)
(* the requests of a process interleave (client.go:39-41, 152-158).         *)
THEOREM NoFalseAlarmCorrect == Spec => []NoFalseAlarm
<1>1. SessionInv => NoFalseAlarm
  BY DEF SessionInv
<1> QED
  BY <1>1, Invariant, PTL

(* The session file holds a token that works, unless its session was logged *)
(* out or something happened to it, or a renewal has yet to be saved        *)
(* (cli.go:97-101).                                                         *)
THEOREM FileWorksCorrect == Spec => []FileWorks
<1>1. TypeOK /\ SessionInv => FileWorks
  <2> DEFINE f == FamilyOf[file]
  <2>1. SUFFICES ASSUME TypeOK, SessionInv, file # NoToken, f \notin faulted \cup loggedOut,
                        \A p \in Holders(f) : ~Unsaved(p)
                 PROVE  file \in usable[f]
    BY DEF FileWorks
  <2>2. f \in Families /\ file \in issued[f]
    BY <2>1, SessionAssumption DEF TypeOK, SessionInv, Known
  <2>3. usable[f] # {}
    BY <2>1, <2>2 DEF SessionInv, EndedBy
  <2>4. Worth(file)
    <3>1. CASE Holders(f) = {}
      BY <2>1, <3>1 DEF SessionInv, FileKept, Intact
    <3>2. ASSUME NEW p \in Holders(f)
          PROVE  Worth(file)
      <4>1. \A t \in ThreadsOf(p) : pc[t] \notin {"apply", "save"}
        BY <2>1, <3>2 DEF Unsaved
      <4>2. p \in Procs /\ cmd[p] = "on" /\ Intact(mem[p])
        BY <2>1, <3>2 DEF Holders, Intact
      <4>3. Worth(mem[p])
        BY <2>1, <4>1, <4>2 DEF SessionInv, HolderWorks
      <4>4. file = mem[p]
        BY <2>1, <3>2, <4>1 DEF SessionInv, FileKept, Intact
      <4> QED
        BY <4>3, <4>4
    <3> QED
      BY <3>1, <3>2
  <2> QED
    BY <2>3, <2>4 DEF Worth
<1> QED
  BY <1>1, Invariant, PTL

=============================================================================
