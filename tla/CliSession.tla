----------------------------- MODULE CliSession -----------------------------
(* The session of the command-line client: the token pair of a running      *)
(* process (cli/client.go), the session file that processes share           *)
(* (cli/session.go), the commands that write it (cli/cli.go), and the       *)
(* silent renewal that exchanges the refresh token, against the server's    *)
(* token families as TokenFamily promises them.                             *)
(*                                                                          *)
(* A token stands for the pair of an access and a refresh token that one    *)
(* answer carries: the client stores and replaces them together.            *)
EXTENDS Naturals, FiniteSets

CONSTANTS
    Procs,      \* CLI processes, one command each; an ended one may run again
    Threads,    \* goroutines that make requests with their process's Client
    ProcOf,     \* [Threads -> Procs]
    Tokens, Families,
    FamilyOf,   \* [Tokens -> Families]
    NoToken, NoThread, NoFamily

ASSUME SessionAssumption ==
    /\ ProcOf \in [Threads -> Procs]
    /\ FamilyOf \in [Tokens -> Families]
    /\ NoToken \notin Tokens
    /\ NoThread \notin Threads
    /\ NoFamily \notin Families

VARIABLES
    usable, issued, \* the server's token families
    file,       \* session.json
    cmd,        \* what each process runs
    mem,        \* the pair in its Client
    mutex,      \* Client.renewMu
    pc,         \* where each thread is
    after,      \* where it goes after a renewal
    stale,      \* renewIfStale's argument
    got,        \* the pair an answered renewal carries
    lastLogin,  \* history: the family of the login saved last, unless logged out
    loggedOut,  \* history: families that a logout revoked
    faulted,    \* history: families of which an answer or a save was lost, or
                \* that two running processes shared
    tripped     \* history: families that had a usable token and were revoked
                \* because a process presented another one

server  == <<usable, issued>>
history == <<lastLogin, loggedOut, faulted, tripped>>
thread  == <<pc, after, stale, got>>
vars    == <<usable, issued, file, cmd, mem, mutex, pc, after, stale, got,
             lastLogin, loggedOut, faulted, tripped>>

Server == INSTANCE TokenFamily

ThreadsOf(p) == {t \in Threads : ProcOf[t] = p}
GoTo(t, place) == pc' = [pc EXCEPT ![t] = place]
Unlock(p) == mutex' = [mutex EXCEPT ![p] = NoThread]
Faulted(f) == faulted' = faulted \cup {f}

(* The threads of T are between requests; a request's locals end with it.   *)
Idle(T) ==
    /\ pc' = [t \in Threads |-> IF t \in T THEN "idle" ELSE pc[t]]
    /\ after' = [t \in Threads |-> IF t \in T THEN "send" ELSE after[t]]
    /\ stale' = [t \in Threads |-> IF t \in T THEN NoToken ELSE stale[t]]
    /\ got' = [t \in Threads |-> IF t \in T THEN NoToken ELSE got[t]]

(* Running processes that may renew tokens of family f.                     *)
Holders(f) == {p \in Procs : cmd[p] = "on" /\ FamilyOf[mem[p]] = f}

(* A renewal that the session file does not show yet.                       *)
Unsaved(p) == \E t \in ThreadsOf(p) : pc[t] \in {"apply", "save"}

----------------------------------------------------------------------------
Init ==
    /\ Server!Init
    /\ file = NoToken
    /\ cmd = [p \in Procs |-> "off"]
    /\ mem = [p \in Procs |-> NoToken]
    /\ mutex = [p \in Procs |-> NoThread]
    /\ pc = [t \in Threads |-> "idle"]
    /\ after = [t \in Threads |-> "send"]
    /\ stale = [t \in Threads |-> NoToken]
    /\ got = [t \in Threads |-> NoToken]
    /\ lastLogin = NoFamily
    /\ loggedOut = {} /\ faulted = {} /\ tripped = {}

Quit(p) ==
    /\ cmd' = [cmd EXCEPT ![p] = "off"]
    /\ mem' = [mem EXCEPT ![p] = NoToken]

(* cmdLogin.  A login whose answer does not arrive changes nothing here.    *)
Login(p) ==
    /\ cmd[p] = "off"
    /\ \E n \in Tokens :
          /\ Server!Login(FamilyOf[n], n)
          /\ mem' = [mem EXCEPT ![p] = n]
    /\ cmd' = [cmd EXCEPT ![p] = "login"]
    /\ UNCHANGED <<file, mutex, thread, history>>

SaveLogin(p) ==
    /\ cmd[p] = "login"
    /\ \/ file' = mem[p] /\ lastLogin' = FamilyOf[mem[p]]
       \/ UNCHANGED <<file, lastLogin>>
    /\ Quit(p)
    /\ UNCHANGED <<server, mutex, thread, loggedOut, faulted, tripped>>

(* Run loads the session for a command that makes requests, or for logout.  *)
Start(p) ==
    /\ cmd[p] = "off" /\ file # NoToken
    /\ cmd' = [cmd EXCEPT ![p] = "on"]
    /\ mem' = [mem EXCEPT ![p] = file]
    /\ IF Holders(FamilyOf[file]) = {} THEN UNCHANGED faulted ELSE Faulted(FamilyOf[file])
    /\ UNCHANGED <<server, file, mutex, thread, lastLogin, loggedOut, tripped>>

StartLogout(p) ==
    /\ cmd[p] = "off" /\ file # NoToken
    /\ cmd' = [cmd EXCEPT ![p] = "logout"]
    /\ mem' = [mem EXCEPT ![p] = file]
    /\ UNCHANGED <<server, file, mutex, thread, history>>

(* cmdLogout: the server revokes the family, or the request fails, ...      *)
Logout(p) == LET f == FamilyOf[mem[p]] IN
    /\ cmd[p] = "logout"
    /\ \/ Server!Revoke(f) /\ loggedOut' = loggedOut \cup {f}
       \/ UNCHANGED <<server, loggedOut>>
    /\ cmd' = [cmd EXCEPT ![p] = "clear"]
    /\ UNCHANGED <<file, mem, mutex, thread, lastLogin, faulted, tripped>>

(* ... and the file is removed, unless the removal fails.                   *)
Clear(p) ==
    /\ cmd[p] = "clear"
    /\ \/ file' = NoToken /\ lastLogin' = NoFamily
       \/ UNCHANGED <<file, lastLogin>>
    /\ Quit(p)
    /\ UNCHANGED <<server, mutex, thread, loggedOut, faulted, tripped>>

(* A process ends, or is killed.                                            *)
End(p) ==
    /\ cmd[p] # "off"
    /\ Quit(p)
    /\ Unlock(p)
    /\ Idle(ThreadsOf(p))
    /\ IF Unsaved(p) THEN Faulted(FamilyOf[mem[p]]) ELSE UNCHANGED faulted
    /\ UNCHANGED <<server, file, lastLogin, loggedOut, tripped>>

----------------------------------------------------------------------------
(* Client.do: a token near its expiry is renewed before the request.  It    *)
(* may look so at any time, as the clock and the lifetime are the server's. *)
Begin(t) ==
    /\ cmd[ProcOf[t]] = "on" /\ pc[t] = "idle"
    /\ GoTo(t, "stale") \/ GoTo(t, "send")
    /\ UNCHANGED <<server, file, cmd, mem, mutex, after, stale, got, history>>

(* doOnce: the request is done with, or its token is rejected.              *)
Send(t) ==
    /\ pc[t] = "send"
    /\ \/ Idle({t})
       \/ /\ after' = [after EXCEPT ![t] = "resend"]
          /\ GoTo(t, "stale")
          /\ UNCHANGED <<stale, got>>
    /\ UNCHANGED <<server, file, cmd, mem, mutex, history>>

(* A renewal is asked for with the token the Client has by now, which may   *)
(* be a newer one than that found old or rejected.                          *)
Stale(t) ==
    /\ pc[t] = "stale"
    /\ stale' = [stale EXCEPT ![t] = mem[ProcOf[t]]]
    /\ GoTo(t, "lock")
    /\ UNCHANGED <<server, file, cmd, mem, mutex, after, got, history>>

Resend(t) ==
    /\ pc[t] = "resend"
    /\ Idle({t})
    /\ UNCHANGED <<server, file, cmd, mem, mutex, history>>

(* renewIfStale looks, holding the mutex, whether the token has changed.    *)
(* Wrong variant: it does so without the mutex.                             *)
LockOpen(t) == LET p == ProcOf[t] IN
    /\ pc[t] = "lock"
    /\ GoTo(t, IF mem[p] = stale[t] THEN "renew" ELSE after[t])
    /\ stale' = [stale EXCEPT ![t] = NoToken]
    /\ UNCHANGED <<server, file, cmd, mem, mutex, after, got, history>>

Lock(t) == LET p == ProcOf[t] IN
    /\ pc[t] = "lock" /\ mutex[p] = NoThread
    /\ \/ /\ mem[p] # stale[t]
          /\ GoTo(t, after[t])
          /\ UNCHANGED mutex
       \/ /\ mem[p] = stale[t]
          /\ mutex' = [mutex EXCEPT ![p] = t]
          /\ GoTo(t, "renew")
    /\ stale' = [stale EXCEPT ![t] = NoToken]
    /\ UNCHANGED <<server, file, cmd, mem, after, got, history>>

Exchange(r) == \E n \in Tokens :
    FamilyOf[n] = FamilyOf[r] /\ Server!Rotate(FamilyOf[r], r, n)

(* The refresh request.  It is answered, ...                                *)
Renewed(t, r) == \E n \in Tokens :
    /\ FamilyOf[n] = FamilyOf[r] /\ Server!Rotate(FamilyOf[r], r, n)
    /\ got' = [got EXCEPT ![t] = n]
    /\ GoTo(t, "apply")
    /\ UNCHANGED <<mutex, after, stale, history>>

(* ... its answer is lost, or it fails with the token consumed, ...         *)
AnswerLost(t, r) ==
    /\ r \in usable[FamilyOf[r]]
    /\ Server!Revoke(FamilyOf[r]) \/ Exchange(r)
    /\ Faulted(FamilyOf[r])
    /\ Idle({t}) /\ Unlock(ProcOf[t])
    /\ UNCHANGED <<lastLogin, loggedOut, tripped>>

(* ... it fails without effect, or the token was consumed before and the    *)
(* family is revoked.                                                       *)
(* Wrong variant: the mutex is not released.                                *)
RefusedLocked(t, r) ==
    /\ Idle({t})
    /\ UNCHANGED <<server, mutex, history>>

Refused(t, r) == LET f == FamilyOf[r] IN
    /\ \/ /\ r \notin usable[f] /\ Server!Revoke(f)
          /\ tripped' = IF usable[f] = {} THEN tripped ELSE tripped \cup {f}
       \/ UNCHANGED <<server, tripped>>
    /\ Idle({t}) /\ Unlock(ProcOf[t])
    /\ UNCHANGED <<lastLogin, loggedOut, faulted>>

Renew(t) == LET r == mem[ProcOf[t]] IN
    /\ pc[t] = "renew"
    /\ Renewed(t, r) \/ AnswerLost(t, r) \/ Refused(t, r)
    /\ UNCHANGED <<file, cmd, mem>>

(* applySession: the pair in memory, ...                                    *)
(* Wrong variant: the rotated pair goes to the file only.                   *)
ApplyNothing(t) ==
    /\ pc[t] = "apply"
    /\ GoTo(t, "save")
    /\ UNCHANGED <<server, file, cmd, mem, mutex, after, stale, got, history>>

Apply(t) ==
    /\ pc[t] = "apply"
    /\ mem' = [mem EXCEPT ![ProcOf[t]] = got[t]]
    /\ GoTo(t, "save")
    /\ UNCHANGED <<server, file, cmd, mutex, after, stale, got, history>>

(* ... then OnTokenRefresh, whose failure is ignored.                       *)
(* Wrong variant: the rotated pair is kept in memory only.                  *)
SaveNothing(t) ==
    /\ pc[t] = "save"
    /\ GoTo(t, after[t]) /\ Unlock(ProcOf[t])
    /\ got' = [got EXCEPT ![t] = NoToken]
    /\ UNCHANGED <<server, file, cmd, mem, after, stale, history>>

Save(t) ==
    /\ pc[t] = "save"
    /\ \/ file' = got[t] /\ UNCHANGED faulted
       \/ UNCHANGED file /\ Faulted(FamilyOf[got[t]])
    /\ GoTo(t, after[t]) /\ Unlock(ProcOf[t])
    /\ got' = [got EXCEPT ![t] = NoToken]
    /\ UNCHANGED <<server, cmd, mem, after, stale, lastLogin, loggedOut, tripped>>

Command(p) == \/ Login(p) \/ SaveLogin(p) \/ Start(p) \/ StartLogout(p)
              \/ Logout(p) \/ Clear(p) \/ End(p)

Request(t) == \/ Begin(t) \/ Send(t) \/ Stale(t) \/ Resend(t)
              \/ Lock(t) \/ Renew(t) \/ Apply(t) \/ Save(t)

Next ==
    \/ \E p \in Procs : Command(p)
    \/ \E t \in Threads : Request(t)

Spec == Init /\ [][Next]_vars

----------------------------------------------------------------------------
(* Properties *)

Places   == {"idle", "send", "stale", "lock", "renew", "apply", "save", "resend"}
Critical == {"renew", "apply", "save"}

(* Every variable keeps its type; only requests of a running process are    *)
(* under way, and those that renew hold its mutex.                          *)
TypeOK ==
    /\ usable \in [Families -> SUBSET Tokens]
    /\ issued \in [Families -> SUBSET Tokens]
    /\ file \in Tokens \cup {NoToken}
    /\ cmd \in [Procs -> {"off", "login", "on", "logout", "clear"}]
    /\ mem \in [Procs -> Tokens \cup {NoToken}]
    /\ mutex \in [Procs -> Threads \cup {NoThread}]
    /\ pc \in [Threads -> Places]
    /\ after \in [Threads -> {"send", "resend"}]
    /\ stale \in [Threads -> Tokens \cup {NoToken}]
    /\ got \in [Threads -> Tokens \cup {NoToken}]
    /\ lastLogin \in Families \cup {NoFamily}
    /\ loggedOut \in SUBSET Families
    /\ faulted \in SUBSET Families
    /\ tripped \in SUBSET Families
    /\ \A p \in Procs : cmd[p] = "off" <=> mem[p] = NoToken
    /\ \A t \in Threads : /\ pc[t] # "idle" => cmd[ProcOf[t]] = "on"
                          /\ pc[t] \in Critical <=> mutex[ProcOf[t]] = t

(* The server revokes a session that still had a usable token only after a  *)
(* renewal's answer or save was lost, or two running processes shared it:   *)
(* never because requests of one process renew at once, or twice, as the    *)
(* token looked stale again (client.go:39-41, 152-158), and never because   *)
(* of what a process of another session does.                               *)
NoFalseAlarm == tripped \subseteq faulted

(* "a lost save just forces re-login next time" (cli.go:100), and without   *)
(* one no re-login is needed: the session file holds the token that works,  *)
(* whichever processes of which sessions wrote it, unless a renewal has     *)
(* yet to save it or the session was logged out.                            *)
FileWorks ==
    file # NoToken =>
        LET f == FamilyOf[file] IN
        \/ f \in faulted \cup loggedOut
        \/ \E p \in Holders(f) : Unsaved(p)
        \/ file \in usable[f]

(* Why these hold.  A session that nothing happened to is in use by one     *)
(* process at a time, whose pair is the one that works, and is in the file  *)
(* unless another session or a logout has replaced it; a login not saved    *)
(* yet is known to nobody else.                                             *)
Worth(n) == usable[FamilyOf[n]] \in {{}, {n}}
Intact(n) == FamilyOf[n] \notin faulted

ServerKnows == \A f \in Families :
    usable[f] \subseteq issued[f] /\ \A n \in issued[f] : FamilyOf[n] = f
Known ==
    /\ file # NoToken => file \in issued[FamilyOf[file]]
    /\ \A p \in Procs : mem[p] # NoToken => mem[p] \in issued[FamilyOf[mem[p]]]
GotKnown == \A t \in Threads : pc[t] \in {"apply", "save"} =>
    /\ got[t] \in issued[FamilyOf[got[t]]]
    /\ FamilyOf[got[t]] = FamilyOf[mem[ProcOf[t]]]
    /\ pc[t] = "save" => got[t] = mem[ProcOf[t]]
Alone == \A p, q \in Procs :
    cmd[p] = "on" /\ Intact(mem[p]) /\ q \in Holders(FamilyOf[mem[p]]) => q = p
HolderWorks == \A p \in Procs : cmd[p] = "on" /\ Intact(mem[p]) =>
    \/ Worth(mem[p])
    \/ \E t \in ThreadsOf(p) : pc[t] = "apply"
GotWorks == \A t \in Threads : pc[t] = "apply" /\ Intact(got[t]) => Worth(got[t])
FileKept == file # NoToken /\ Intact(file) =>
    /\ Holders(FamilyOf[file]) = {} => Worth(file)
    /\ \A p \in Holders(FamilyOf[file]) :
          file = mem[p] \/ \E t \in ThreadsOf(p) : pc[t] = "save"
FreshLogin == \A p \in Procs : cmd[p] = "login" =>
    /\ Worth(mem[p])
    /\ file # NoToken => FamilyOf[file] # FamilyOf[mem[p]]
    /\ \A q \in Procs : mem[q] # NoToken /\ q # p => FamilyOf[mem[q]] # FamilyOf[mem[p]]
EndedBy == \A f \in Families : issued[f] # {} /\ usable[f] = {} => f \in faulted \cup loggedOut

SessionInv ==
    /\ ServerKnows /\ Known /\ GotKnown
    /\ Alone /\ HolderWorks /\ GotWorks /\ FileKept /\ FreshLogin
    /\ EndedBy /\ NoFalseAlarm

(* The file holds "the identity from the last login" (session.go:13-15).    *)
FileOfLastLogin == file # NoToken => FamilyOf[file] = lastLogin

=============================================================================
