------------------------ MODULE RefreshTokensProofs ------------------------
(* Rotation, reuse detection and revocation for every number of tokens,     *)
(* families and concurrent requests, failed statements included.            *)
EXTENDS RefreshTokens, TLAPS

----------------------------------------------------------------------------
(* Types *)

(* What SetRow does to each row.                                            *)
LEMMA RowSet ==
    ASSUME TypeOK, NEW S, NEW v \in Rows, SetRow(S, v)
    PROVE  /\ row' \in [Tokens -> Rows]
           /\ \A t \in Tokens : row'[t] = IF t \in S THEN v ELSE row[t]
<1>1. row' = [t \in Tokens |-> IF t \in S THEN v ELSE row[t]]
  BY DEF SetRow
<1>2. \A t \in Tokens : (IF t \in S THEN v ELSE row[t]) \in Rows
  BY DEF TypeOK
<1> QED
  BY <1>1, <1>2

(* A request that answers is done, and its answer does not change again.    *)
LEMMA Answering ==
    ASSUME TypeOK, NEW r \in Reqs, NEW a \in Answers, Answer(r, a)
    PROVE  /\ pc' \in [Reqs -> ReqPcs] /\ answer' \in [Reqs -> Answers]
           /\ pc'[r] = "done" /\ answer'[r] = a
           /\ \A s \in Reqs \ {r} : pc'[s] = pc[s] /\ answer'[s] = answer[s]
BY DEF TypeOK, Answer, ReqPcs

LEMMA Going ==
    ASSUME TypeOK, NEW r \in Reqs, NEW place \in ReqPcs, GoTo(r, place)
    PROVE  /\ pc' \in [Reqs -> ReqPcs] /\ answer' = answer
           /\ pc'[r] = place
           /\ \A s \in Reqs \ {r} : pc'[s] = pc[s]
BY DEF TypeOK, GoTo

(* The step of a request leaves the other requests where they are.          *)
Others(r) ==
    \A s \in Reqs \ {r} :
        /\ pc'[s] = pc[s] /\ presented'[s] = presented[s] /\ minted'[s] = minted[s]
        /\ snap'[s] = snap[s] /\ answer'[s] = answer[s]
        /\ s \in deleting' <=> s \in deleting

(* A DELETE runs only for a request that has come to one.                   *)
LEMMA Running ==
    ASSUME TypeOK PROVE deleting \subseteq Reqs /\ \A s \in deleting : Revoking(s)
BY DEF TypeOK

LEMMA TypeInit == Init => TypeOK
BY DEF Init, TypeOK, Rows, ReqPcs, Answers

(* The effect of a login: nothing, or a new row that may reach the client.  *)
LEMMA LoginEffect ==
    ASSUME TypeOK, NEW r \in Reqs, Login(r)
    PROVE  /\ TypeOK'
           /\ Others(r) /\ pc[r] = "idle" /\ pc'[r] = "done"
           /\ UNCHANGED <<revoked, escaped, presented, minted, deleting, snap>>
           /\ \/ UNCHANGED <<row, granted>>
              \/ \E f \in Families : \E n \in Fresh(f) :
                    /\ \A t \in Tokens : FamilyOf[t] = f => row[t] = "fresh"
                    /\ \A t \in Tokens : row'[t] = IF t = n THEN "live" ELSE row[t]
                    /\ granted' = granted \cup {n} \/ granted' = granted
<1>1. "live" \in Rows /\ "ok" \in Answers /\ "failed" \in Answers
  BY DEF Rows, Answers
<1>2. PICK f \in Families : \E n \in Fresh(f) :
          /\ \A t \in Tokens : FamilyOf[t] = f => row[t] = "fresh"
          /\ \/ SetRow({n}, "live") /\ granted' = granted \cup {n} /\ Answer(r, "ok")
             \/ SetRow({n}, "live") /\ UNCHANGED granted /\ Answer(r, "failed")
             \/ UNCHANGED <<row, granted>> /\ Answer(r, "failed")
  BY DEF Login
<1>3. PICK n \in Fresh(f) :
          /\ \A t \in Tokens : FamilyOf[t] = f => row[t] = "fresh"
          /\ \/ SetRow({n}, "live") /\ granted' = granted \cup {n} /\ Answer(r, "ok")
             \/ SetRow({n}, "live") /\ UNCHANGED granted /\ Answer(r, "failed")
             \/ UNCHANGED <<row, granted>> /\ Answer(r, "failed")
  BY <1>2
<1>4. row' \in [Tokens -> Rows] /\ granted' \in SUBSET Tokens /\ granted \subseteq granted'
  BY <1>1, <1>3, RowSet DEF TypeOK, Fresh
<1>5. /\ pc' \in [Reqs -> ReqPcs] /\ answer' \in [Reqs -> Answers] /\ pc'[r] = "done"
      /\ \A s \in Reqs \ {r} : pc'[s] = pc[s] /\ answer'[s] = answer[s]
  BY <1>1, <1>3, Answering
<1>6. /\ pc[r] = "idle"
      /\ UNCHANGED <<expired, revoked, escaped, presented, minted, deleting, snap>>
  BY DEF Login
<1>7. TypeOK'
  BY <1>4, <1>5, <1>6, Running DEF TypeOK, Revoking
<1>8. SetRow({n}, "live") =>
          \A t \in Tokens : row'[t] = IF t = n THEN "live" ELSE row[t]
  BY <1>1, RowSet
<1> QED
  BY <1>3, <1>5, <1>6, <1>7, <1>8 DEF Others

(* The effect of a lookup: the request has a token some client was given.   *)
Lookup(r) ==
    /\ Others(r) /\ pc[r] = "idle" /\ pc'[r] \notin {"idle", "consume"}
    /\ UNCHANGED <<row, granted, revoked, escaped, minted, deleting, snap>>
    /\ r \notin deleting
    /\ presented'[r] \in granted
    /\ answer'[r] # "ok"

LEMMA RefreshLookupEffect ==
    ASSUME TypeOK, TokenAssumption, NEW r \in Reqs, RefreshLookup(r)
    PROVE  TypeOK' /\ Lookup(r)
<1>1. PICK t \in granted :
          /\ presented' = [presented EXCEPT ![r] = t]
          /\ \/ Answer(r, "failed") \/ Answer(r, "invalid")
             \/ GoTo(r, "revokeReuse") \/ GoTo(r, "mint")
  BY DEF RefreshLookup
<1>2. t \in Tokens /\ t # NoToken
  BY DEF TypeOK, TokenAssumption
<1>3. /\ pc[r] = "idle" /\ answer[r] = "none" /\ r \notin deleting
      /\ UNCHANGED <<row, expired, granted, revoked, escaped, minted, deleting, snap>>
  BY Running DEF RefreshLookup, db, TypeOK, Revoking
<1>4. /\ presented' \in [Reqs -> Tokens \cup {NoToken}] /\ presented'[r] = t
      /\ \A s \in Reqs \ {r} : presented'[s] = presented[s]
  BY <1>1, <1>2 DEF TypeOK
<1>5. /\ pc' \in [Reqs -> ReqPcs] /\ answer' \in [Reqs -> Answers]
      /\ \A s \in Reqs \ {r} : pc'[s] = pc[s] /\ answer'[s] = answer[s]
      /\ \/ pc'[r] = "done" /\ answer'[r] \in {"failed", "invalid"}
         \/ pc'[r] \in {"mint", "revokeReuse"} /\ answer'[r] = "none"
  <2>1. CASE Answer(r, "failed") \/ Answer(r, "invalid")
    BY <2>1, Answering DEF Answers
  <2>2. CASE GoTo(r, "mint") \/ GoTo(r, "revokeReuse")
    BY <1>3, <2>2, Going DEF ReqPcs, TypeOK
  <2> QED
    BY <1>1, <2>1, <2>2
<1>6. TypeOK'
  BY <1>2, <1>3, <1>4, <1>5, Running DEF TypeOK, Revoking
<1> QED
  BY <1>2, <1>3, <1>4, <1>5, <1>6 DEF Lookup, Others

LEMMA LogoutLookupEffect ==
    ASSUME TypeOK, TokenAssumption, NEW r \in Reqs, LogoutLookup(r)
    PROVE  TypeOK' /\ Lookup(r)
<1>1. PICK t \in granted :
          /\ presented' = [presented EXCEPT ![r] = t]
          /\ GoTo(r, "revokeLogout") \/ GoTo(r, "deleteToken")
  BY DEF LogoutLookup
<1>2. t \in Tokens /\ t # NoToken
  BY DEF TypeOK, TokenAssumption
<1>3. /\ pc[r] = "idle" /\ answer[r] = "none" /\ r \notin deleting
      /\ UNCHANGED <<row, expired, granted, revoked, escaped, minted, deleting, snap>>
  BY Running DEF LogoutLookup, db, TypeOK, Revoking
<1>4. /\ presented' \in [Reqs -> Tokens \cup {NoToken}] /\ presented'[r] = t
      /\ \A s \in Reqs \ {r} : presented'[s] = presented[s]
  BY <1>1, <1>2 DEF TypeOK
<1>5. /\ pc' \in [Reqs -> ReqPcs] /\ answer' = answer
      /\ \A s \in Reqs \ {r} : pc'[s] = pc[s]
      /\ pc'[r] \in {"deleteToken", "revokeLogout"}
  BY <1>1, Going DEF ReqPcs
<1>6. TypeOK'
  BY <1>2, <1>3, <1>4, <1>5, Running DEF TypeOK, Revoking
<1> QED
  BY <1>2, <1>3, <1>4, <1>5, <1>6 DEF Lookup, Others

(* The effect of an insert in a rotation: a new row, which escapes if a     *)
(* DELETE of the family runs or the presented token escaped; or none.       *)
Inserted(r, n) ==
    /\ \A t \in Tokens : row'[t] = IF t = n THEN "live" ELSE row[t]
    /\ escaped' = IF Escapes(r) THEN escaped \cup {n} ELSE escaped

MintSteps(r) ==
    /\ Others(r) /\ pc[r] = "mint"
    /\ UNCHANGED <<granted, revoked, presented, deleting, snap>>
    /\ answer'[r] # "ok"
    /\ \E n \in Fresh(FamilyOfReq(r)) :
          \/ pc'[r] = "consume" /\ minted'[r] = n /\ Inserted(r, n)
          \/ pc'[r] = "done" /\ (Inserted(r, n) \/ UNCHANGED <<row, escaped>>)

LEMMA MintEffect ==
    ASSUME TypeOK, TokenAssumption, NEW r \in Reqs, Mint(r)
    PROVE  TypeOK' /\ MintSteps(r)
<1>1. "live" \in Rows /\ "consume" \in ReqPcs /\ "failed" \in Answers
  BY DEF Rows, Answers, ReqPcs
<1>2. PICK n \in Fresh(FamilyOfReq(r)) :
          \/ /\ Insert(r, n)
             /\ minted' = [minted EXCEPT ![r] = n]
             /\ GoTo(r, "consume")
          \/ Insert(r, n) /\ Answer(r, "failed") /\ UNCHANGED minted
          \/ Answer(r, "failed") /\ UNCHANGED <<row, escaped, minted>>
  BY DEF Mint
<1>3. /\ pc[r] = "mint" /\ answer[r] = "none" /\ presented[r] # NoToken
      /\ r \notin deleting
      /\ UNCHANGED <<expired, granted, revoked, presented, deleting, snap>>
  BY Running DEF Mint, TypeOK, Revoking
<1>4. n \in Tokens
  BY DEF Fresh
<1>5. Insert(r, n) => /\ row' \in [Tokens -> Rows] /\ escaped' \in SUBSET Tokens
                      /\ Inserted(r, n)
  BY <1>1, <1>4, RowSet DEF Insert, Inserted, TypeOK
<1>6. CASE Insert(r, n) /\ minted' = [minted EXCEPT ![r] = n] /\ GoTo(r, "consume")
  <2>1. /\ pc' \in [Reqs -> ReqPcs] /\ answer' = answer /\ pc'[r] = "consume"
        /\ \A s \in Reqs \ {r} : pc'[s] = pc[s]
    BY <1>1, <1>6, Going
  <2>2. /\ minted' \in [Reqs -> Tokens \cup {NoToken}] /\ minted'[r] = n
        /\ \A s \in Reqs \ {r} : minted'[s] = minted[s]
    BY <1>4, <1>6 DEF TypeOK
  <2>3. TypeOK'
    BY <1>3, <1>4, <1>5, <1>6, <2>1, <2>2, Running DEF TypeOK, Revoking
  <2> QED
    BY <1>2, <1>3, <1>5, <1>6, <2>1, <2>2, <2>3 DEF MintSteps, Others
<1>7. CASE /\ Answer(r, "failed") /\ UNCHANGED minted
           /\ Insert(r, n) \/ UNCHANGED <<row, escaped>>
  <2>1. /\ pc' \in [Reqs -> ReqPcs] /\ answer' \in [Reqs -> Answers]
        /\ pc'[r] = "done" /\ answer'[r] = "failed"
        /\ \A s \in Reqs \ {r} : pc'[s] = pc[s] /\ answer'[s] = answer[s]
    BY <1>1, <1>7, Answering
  <2>2. TypeOK'
    BY <1>3, <1>5, <1>7, <2>1, Running DEF TypeOK, Revoking
  <2> QED
    BY <1>2, <1>3, <1>5, <1>7, <2>1, <2>2 DEF MintSteps, Others
<1> QED
  BY <1>2, <1>6, <1>7

(* The effect of a consume: the new token is given out and the presented    *)
(* one is spent, or at most the latter.                                     *)
Spent(r) == \A t \in Tokens : row'[t] = IF t = presented[r] THEN "consumed" ELSE row[t]

Rotates(r) ==
    /\ row[presented[r]] = "live" /\ Spent(r)
    /\ granted' = granted \cup {minted[r]}
    /\ pc'[r] = "done"

GivesUp(r) ==
    /\ UNCHANGED granted
    /\ (row[presented[r]] = "live" /\ Spent(r)) \/ UNCHANGED row
    /\ pc'[r] \notin {"idle", "consume"} /\ answer'[r] # "ok"

ConsumeSteps(r) ==
    /\ Others(r) /\ pc[r] = "consume"
    /\ UNCHANGED <<revoked, escaped, presented, minted, deleting, snap>>
    /\ Rotates(r) \/ GivesUp(r)

LEMMA ConsumeEffect ==
    ASSUME TypeOK, TokenAssumption, NEW r \in Reqs, Consume(r)
    PROVE  TypeOK' /\ ConsumeSteps(r)
<1>1. "consumed" \in Rows /\ "revokeRace" \in ReqPcs /\ "failed" \in Answers /\ "ok" \in Answers
  BY DEF Rows, Answers, ReqPcs
<1>2. /\ pc[r] = "consume" /\ answer[r] = "none" /\ presented[r] # NoToken
      /\ presented[r] \in granted /\ presented[r] \in Tokens /\ minted[r] \in Tokens
      /\ r \notin deleting
      /\ UNCHANGED <<expired, revoked, escaped, presented, minted, deleting, snap>>
  BY Running DEF Consume, TypeOK, TokenAssumption, Revoking
<1>3. SetRow({presented[r]}, "consumed") => row' \in [Tokens -> Rows] /\ Spent(r)
  BY <1>1, RowSet DEF Spent
<1>4. CASE ConsumeOk(r)
  <2>1. /\ pc' \in [Reqs -> ReqPcs] /\ answer' \in [Reqs -> Answers]
        /\ pc'[r] = "done" /\ answer'[r] = "ok"
        /\ \A s \in Reqs \ {r} : pc'[s] = pc[s] /\ answer'[s] = answer[s]
    BY <1>1, <1>4, Answering DEF ConsumeOk
  <2>2. granted' = granted \cup {minted[r]} /\ row[presented[r]] = "live"
    BY <1>4 DEF ConsumeOk
  <2>3. row' \in [Tokens -> Rows] /\ Spent(r)
    BY <1>3, <1>4 DEF ConsumeOk
  <2>4. TypeOK'
    BY <1>2, <2>1, <2>2, <2>3, Running DEF TypeOK, Revoking
  <2> QED
    BY <1>2, <2>1, <2>2, <2>3, <2>4 DEF ConsumeSteps, Rotates, Others
<1>5. CASE ConsumeFails(r)
  <2>1. /\ pc' \in [Reqs -> ReqPcs] /\ answer' \in [Reqs -> Answers]
        /\ pc'[r] = "done" /\ answer'[r] = "failed"
        /\ \A s \in Reqs \ {r} : pc'[s] = pc[s] /\ answer'[s] = answer[s]
    BY <1>1, <1>5, Answering DEF ConsumeFails
  <2>2. /\ UNCHANGED granted
        /\ (row[presented[r]] = "live" /\ Spent(r)) \/ UNCHANGED row
        /\ row' \in [Tokens -> Rows]
    BY <1>3, <1>5 DEF ConsumeFails, TypeOK
  <2>3. TypeOK'
    BY <1>2, <2>1, <2>2, Running DEF TypeOK, Revoking
  <2> QED
    BY <1>2, <2>1, <2>2, <2>3 DEF ConsumeSteps, GivesUp, Others
<1>6. CASE ConsumeLost(r)
  <2>1. /\ pc' \in [Reqs -> ReqPcs] /\ answer' = answer
        /\ pc'[r] = "revokeRace"
        /\ \A s \in Reqs \ {r} : pc'[s] = pc[s]
    BY <1>1, <1>2, <1>6, Going DEF ConsumeLost
  <2>2. UNCHANGED <<row, granted>>
    BY <1>6 DEF ConsumeLost
  <2>3. TypeOK'
    BY <1>2, <2>1, <2>2, Running DEF TypeOK, Revoking
  <2> QED
    BY <1>2, <2>1, <2>2, <2>3 DEF ConsumeSteps, GivesUp, Others
<1> QED
  BY <1>4, <1>5, <1>6 DEF Consume

(* The effect of the start of a DELETE: its snapshot.                       *)
BeginSteps(r) ==
    /\ Others(r) /\ UNCHANGED <<row, granted, revoked, escaped, pc, presented, minted, answer>>
    /\ deleting' = deleting \cup {r}
    /\ snap'[r] = StoredIn(FamilyOfReq(r))

LEMMA BeginRevokeEffect ==
    ASSUME TypeOK, NEW r \in Reqs, BeginRevoke(r)
    PROVE  TypeOK' /\ BeginSteps(r)
<1>1. /\ Revoking(r) /\ UNCHANGED <<row, expired, granted, revoked, escaped>>
      /\ UNCHANGED <<pc, presented, minted, answer>>
      /\ deleting' = deleting \cup {r}
      /\ snap' = [snap EXCEPT ![r] = StoredIn(FamilyOfReq(r))]
  BY DEF BeginRevoke, db
<1>2. StoredIn(FamilyOfReq(r)) \in SUBSET Tokens
  BY DEF StoredIn
<1>3. /\ snap' \in [Reqs -> SUBSET Tokens] /\ snap'[r] = StoredIn(FamilyOfReq(r))
      /\ \A s \in Reqs \ {r} : snap'[s] = snap[s]
  BY <1>1, <1>2 DEF TypeOK
<1>4. TypeOK'
  BY <1>1, <1>3, Running DEF TypeOK, Revoking
<1> QED
  BY <1>1, <1>3, <1>4 DEF BeginSteps, Others

(* The effect of a delete: rows go, and a revocation that succeeds takes    *)
(* all it saw.                                                              *)
Deleted(S) == \A t \in Tokens : row'[t] = IF t \in S THEN "deleted" ELSE row[t]

DeleteSteps(r) ==
    /\ Others(r) /\ pc'[r] \notin {"idle", "consume"} /\ pc[r] \notin {"idle", "consume", "done"}
    /\ UNCHANGED <<granted, escaped, presented, minted>>
    /\ answer'[r] # "ok"
    /\ snap'[r] = snap[r] \/ snap'[r] = {}
    /\ deleting' = deleting \ {r}
    /\ \/ /\ Deleted(Doomed(r)) /\ revoked' = revoked \cup {FamilyOfReq(r)}
          /\ r \in deleting
       \/ Deleted(Doomed(r)) /\ UNCHANGED revoked
       \/ Deleted({t \in {presented[r]} : Stored(t)}) /\ UNCHANGED revoked
       \/ UNCHANGED <<row, revoked>>

LEMMA RevokeEffect ==
    ASSUME TypeOK, TokenAssumption, NEW r \in Reqs, Revoke(r)
    PROVE  TypeOK' /\ DeleteSteps(r)
<1>1. "deleted" \in Rows /\ "deleteToken" \in ReqPcs /\ "failed" \in Answers /\ "reuse" \in Answers
  BY DEF Rows, Answers, ReqPcs
<1>2. /\ pc[r] \notin {"idle", "consume", "done"} /\ answer[r] = "none" /\ presented[r] # NoToken
      /\ presented[r] \in granted /\ presented[r] \in Tokens
      /\ FamilyOfReq(r) \in Families
      /\ UNCHANGED <<expired, granted, escaped, presented, minted>>
      /\ snap' = [snap EXCEPT ![r] = {}] /\ deleting' = deleting \ {r}
      /\ r \in deleting
  BY Running DEF Revoke, TypeOK, FamilyOfReq, TokenAssumption, Revoking
<1>3. SetRow(Doomed(r), "deleted") => row' \in [Tokens -> Rows] /\ Deleted(Doomed(r))
  BY <1>1, RowSet DEF Deleted
<1>4. /\ row' \in [Tokens -> Rows] /\ revoked' \in SUBSET Families
      /\ \/ Deleted(Doomed(r)) /\ revoked' = revoked \cup {FamilyOfReq(r)}
         \/ Deleted(Doomed(r)) /\ UNCHANGED revoked
         \/ UNCHANGED <<row, revoked>>
  BY <1>2, <1>3 DEF Revoke, TypeOK
<1>5. AfterRevoke(r, TRUE) \/ AfterRevoke(r, FALSE)
  BY DEF Revoke
<1>6. \/ Answer(r, "failed") \/ Answer(r, "reuse") \/ GoTo(r, "deleteToken")
  BY <1>5 DEF AfterRevoke
<1>7. /\ pc' \in [Reqs -> ReqPcs] /\ answer' \in [Reqs -> Answers]
      /\ \A s \in Reqs \ {r} : pc'[s] = pc[s] /\ answer'[s] = answer[s]
      /\ \/ pc'[r] = "done" /\ answer'[r] \in {"failed", "reuse"}
         \/ pc'[r] = "deleteToken" /\ answer'[r] = "none"
  <2>1. CASE Answer(r, "failed") \/ Answer(r, "reuse")
    BY <1>1, <2>1, Answering
  <2>2. CASE GoTo(r, "deleteToken")
    BY <1>1, <1>2, <2>2, Going DEF TypeOK
  <2> QED
    BY <1>6, <2>1, <2>2
<1>8. /\ snap' \in [Reqs -> SUBSET Tokens] /\ snap'[r] = {}
      /\ \A s \in Reqs \ {r} : snap'[s] = snap[s]
  BY <1>2 DEF TypeOK
<1>9. TypeOK'
  BY <1>2, <1>4, <1>7, <1>8, Running DEF TypeOK, Revoking
<1> QED
  BY <1>2, <1>4, <1>7, <1>8, <1>9 DEF DeleteSteps, Others

LEMMA DeleteTokenEffect ==
    ASSUME TypeOK, TokenAssumption, NEW r \in Reqs, DeleteToken(r)
    PROVE  TypeOK' /\ DeleteSteps(r)
<1> DEFINE gone == {t \in {presented[r]} : Stored(t)}
<1>1. "deleted" \in Rows /\ "failed" \in Answers /\ "loggedOut" \in Answers
  BY DEF Rows, Answers
<1>2. /\ pc[r] = "deleteToken" /\ presented[r] # NoToken /\ presented[r] \in granted
      /\ r \notin deleting
      /\ UNCHANGED <<expired, granted, revoked, escaped, presented, minted, deleting, snap>>
      /\ SetRow(gone, "deleted") \/ UNCHANGED row
      /\ Answer(r, "loggedOut") \/ Answer(r, "failed")
  BY Running DEF DeleteToken, TypeOK, Revoking
<1>3. row' \in [Tokens -> Rows] /\ (Deleted(gone) \/ UNCHANGED row)
  BY <1>1, <1>2, RowSet DEF Deleted, TypeOK
<1>4. /\ pc' \in [Reqs -> ReqPcs] /\ answer' \in [Reqs -> Answers]
      /\ \A s \in Reqs \ {r} : pc'[s] = pc[s] /\ answer'[s] = answer[s]
      /\ pc'[r] = "done" /\ answer'[r] \in {"failed", "loggedOut"}
  BY <1>1, <1>2, Answering
<1>5. TypeOK'
  BY <1>2, <1>3, <1>4, Running DEF TypeOK, Revoking
<1> QED
  BY <1>2, <1>3, <1>4, <1>5 DEF DeleteSteps, Others

----------------------------------------------------------------------------
(* The invariant *)

IInv == TypeOK /\ FamilyInv

LEMMA InitIInv == Init => IInv
BY TypeInit DEF Init, IInv, FamilyInv, GrantedStored, SnapStored, Minting, MintedApart,
       Exchanged, ExchangedSpent, RevokedKnown, OneUsable, Usable, SingleUse, SurvivorsRaced,
       Unseen, Descent

LEMMA LookupKeeps ==
    ASSUME IInv, TypeOK', NEW r \in Reqs, Lookup(r) PROVE IInv'
<1> USE DEF IInv, Lookup, Others
<1>1. GrantedStored' /\ RevokedKnown' /\ OneUsable' /\ SurvivorsRaced'
  BY DEF FamilyInv, GrantedStored, RevokedKnown, OneUsable, Usable, SurvivorsRaced
<1>2. r \notin deleting /\ deleting \subseteq Reqs /\ snap[r] = {}
  BY Running DEF TypeOK
<1>3. SnapStored' /\ Unseen'
  BY <1>2 DEF FamilyInv, SnapStored, Unseen, StoredIn, Stored, FamilyOfReq
<1>4. Minting'
  BY DEF FamilyInv, Minting, MintedWith, Stored, TypeOK
<1>5. MintedApart' /\ Descent'
  BY DEF FamilyInv, MintedApart, Descent
<1>6. ExchangedSpent' /\ SingleUse'
  BY DEF FamilyInv, ExchangedSpent, SingleUse, Exchanged
<1> QED
  BY <1>1, <1>3, <1>4, <1>5, <1>6 DEF FamilyInv

LEMMA LoginKeeps ==
    ASSUME IInv, TokenAssumption, NEW r \in Reqs, Login(r) PROVE IInv'
<1>1. /\ TypeOK'
      /\ Others(r) /\ pc[r] = "idle" /\ pc'[r] = "done"
      /\ UNCHANGED <<revoked, escaped, presented, minted, deleting, snap>>
      /\ \/ UNCHANGED <<row, granted>>
         \/ \E f \in Families : \E n \in Fresh(f) :
               /\ \A t \in Tokens : FamilyOf[t] = f => row[t] = "fresh"
               /\ \A t \in Tokens : row'[t] = IF t = n THEN "live" ELSE row[t]
               /\ granted' = granted \cup {n} \/ granted' = granted
  BY LoginEffect DEF IInv
<1>2. presented[r] = NoToken /\ TypeOK /\ deleting \subseteq Reqs
  BY <1>1, Running DEF IInv, TypeOK
<1>3. CASE UNCHANGED <<row, granted>>
  BY <1>1, <1>2, <1>3 DEF IInv, FamilyInv, Others, GrantedStored, SnapStored, Minting, MintedWith,
     Stored, MintedApart, ExchangedSpent, Exchanged, RevokedKnown, OneUsable, Usable, SingleUse,
     SurvivorsRaced, FamilyOfReq, StoredIn, Unseen, Descent
<1>4. ASSUME NEW f \in Families, NEW n \in Fresh(f),
             \A t \in Tokens : FamilyOf[t] = f => row[t] = "fresh",
             \A t \in Tokens : row'[t] = IF t = n THEN "live" ELSE row[t],
             granted' = granted \cup {n} \/ granted' = granted
      PROVE  IInv'
  <2> USE <1>1, <1>2, <1>4 DEF IInv
  <2>1. n \in Tokens /\ FamilyOf[n] = f /\ row[n] = "fresh" /\ n \notin granted
    BY DEF Fresh, FamilyInv, GrantedStored
  <2>2. GrantedStored' /\ SnapStored' /\ RevokedKnown'
    BY <2>1 DEF FamilyInv, GrantedStored, SnapStored, RevokedKnown, TypeOK, FamilyOfReq
  <2>3. Minting'
    BY <2>1 DEF FamilyInv, Minting, MintedWith, Stored, Others, TypeOK
  <2>4. MintedApart'
    BY DEF FamilyInv, MintedApart, Others
  <2>5. ExchangedSpent' /\ SingleUse'
    BY <2>1 DEF FamilyInv, ExchangedSpent, SingleUse, Exchanged, Others, TypeOK
  <2>6. OneUsable' /\ SurvivorsRaced'
    <3>1. \A g \in Families : g # f => Usable(g)' = Usable(g)
      BY <2>1 DEF Usable, TypeOK
    <3>2. Usable(f)' \subseteq {n}
      BY <2>1 DEF FamilyInv, GrantedStored, Usable, TypeOK
    <3>3. f \notin revoked
      BY DEF FamilyInv, RevokedKnown
    <3> QED
      BY <3>1, <3>2, <3>3 DEF FamilyInv, OneUsable, SurvivorsRaced, TypeOK
  <2>7. Unseen'
    <3>1. ASSUME NEW s \in deleting
          PROVE  /\ FamilyOfReq(s)' = FamilyOfReq(s) /\ FamilyOfReq(s) # f
      <4>1. s \in Reqs /\ presented[s] \in granted /\ presented[s] \in Tokens
        BY Running DEF TypeOK, Revoking
      <4> QED
        BY <4>1 DEF FamilyOfReq, FamilyInv, GrantedStored
    <3>2. \A s \in deleting : StoredIn(FamilyOfReq(s))' = StoredIn(FamilyOfReq(s))
      BY <2>1, <3>1 DEF StoredIn, Stored, TypeOK
    <3> QED
      BY <3>2 DEF FamilyInv, Unseen
  <2>8. Descent'
    BY DEF FamilyInv, Descent, Others
  <2> QED
    BY <2>2, <2>3, <2>4, <2>5, <2>6, <2>7, <2>8 DEF FamilyInv
<1> QED
  BY <1>1, <1>3, <1>4

LEMMA MintKeeps ==
    ASSUME IInv, TypeOK', NEW r \in Reqs, MintSteps(r) PROVE IInv'
<1> USE DEF IInv
<1>1. PICK n \in Fresh(FamilyOfReq(r)) :
          \/ pc'[r] = "consume" /\ minted'[r] = n /\ Inserted(r, n)
          \/ pc'[r] = "done" /\ (Inserted(r, n) \/ UNCHANGED <<row, escaped>>)
  BY DEF MintSteps
<1>2. /\ Others(r) /\ pc[r] = "mint"
      /\ UNCHANGED <<granted, revoked, presented, deleting, snap>>
      /\ answer'[r] # "ok"
  BY DEF MintSteps
<1>3. /\ n \in Tokens /\ FamilyOf[n] = FamilyOf[presented[r]] /\ row[n] = "fresh"
      /\ n \notin granted /\ \A s \in Reqs : n \notin snap[s]
  BY DEF Fresh, FamilyOfReq, FamilyInv, GrantedStored, SnapStored
<1>4. \A t \in Tokens : row'[t] = row[t] \/ (t = n /\ row'[t] = "live")
  BY <1>1 DEF Inserted
<1>5. /\ TypeOK /\ presented[r] \in granted /\ presented[r] \in Tokens
      /\ \A s \in Reqs : pc[s] = "consume" => presented[s] \in Tokens /\ minted[s] \in Tokens
                                              /\ presented[s] \in granted
  BY <1>2 DEF TypeOK
<1>6. GrantedStored' /\ SnapStored' /\ RevokedKnown'
  BY <1>2, <1>3, <1>4 DEF FamilyInv, GrantedStored, SnapStored, RevokedKnown, TypeOK,
     FamilyOfReq
<1>7. ASSUME NEW s \in Reqs, pc'[s] = "consume" PROVE MintedWith(s, presented[s])'
  <2>1. CASE s = r
    BY <1>1, <1>2, <1>3, <1>4, <1>5, <1>7, <2>1 DEF MintedWith, Inserted
  <2>2. CASE s # r
    <3>1. /\ pc[s] = "consume" /\ minted'[s] = minted[s] /\ MintedWith(s, presented[s])
          /\ presented[s] \in granted /\ presented[s] \in Tokens /\ minted[s] \in Tokens
      BY <1>2, <1>5, <1>7, <2>2 DEF Others, FamilyInv, Minting
    <3>2. row'[presented[s]] = row[presented[s]]
      BY <1>3, <1>4, <3>1
    <3>3. row'[minted[s]] = row[minted[s]]
      BY <1>3, <1>4, <3>1 DEF MintedWith
    <3> QED
      BY <1>2, <3>1, <3>2, <3>3 DEF MintedWith, Stored
  <2> QED
    BY <2>1, <2>2
<1>8. Minting'
  BY <1>7 DEF Minting
<1>9. MintedApart'
  <2>1. \A s \in Reqs \ {r} : pc[s] = "consume" => minted[s] # n
    BY <1>3 DEF FamilyInv, Minting, MintedWith
  <2> QED
    BY <1>1, <1>2, <2>1 DEF FamilyInv, MintedApart, Others
<1>10. ExchangedSpent' /\ SingleUse'
  <2>1. \A s \in Reqs : Exchanged(s)' => Exchanged(s) /\ presented[s] \in granted
    BY <1>2 DEF Exchanged, Others, TypeOK
  <2>2. \A t \in granted : row'[t] = row[t]
    BY <1>3, <1>4 DEF TypeOK
  <2> QED
    BY <1>2, <2>1, <2>2 DEF FamilyInv, ExchangedSpent, SingleUse
<1>11. escaped \subseteq escaped' /\ escaped' \subseteq escaped \cup {n}
  BY <1>1 DEF Inserted
<1>12. OneUsable' /\ SurvivorsRaced'
  <2>1. \A f \in Families : Usable(f)' = Usable(f)
    BY <1>2, <1>3, <1>4 DEF Usable, TypeOK
  <2> QED
    BY <1>2, <1>11, <2>1 DEF FamilyInv, OneUsable, SurvivorsRaced, TypeOK
<1>13. Unseen'
  <2> SUFFICES ASSUME NEW s \in deleting
               PROVE  StoredIn(FamilyOfReq(s))' \subseteq snap[s] \cup escaped'
    BY <1>2 DEF Unseen
  <2>1. FamilyOfReq(s)' = FamilyOfReq(s)
    BY <1>2 DEF FamilyOfReq
  <2>2. StoredIn(FamilyOfReq(s)) \subseteq snap[s] \cup escaped
    BY DEF FamilyInv, Unseen
  <2>3. ASSUME NEW t \in StoredIn(FamilyOfReq(s))', t \notin StoredIn(FamilyOfReq(s))
        PROVE  t \in escaped'
    <3>1. t = n /\ row'[n] # row[n] /\ FamilyOf[n] = FamilyOfReq(s)
      BY <1>4, <2>1, <2>3 DEF StoredIn, Stored
    <3>2. Inserted(r, n) /\ Escapes(r)
      BY <1>1, <1>3, <3>1 DEF Escapes, FamilyOfReq
    <3> QED
      BY <3>1, <3>2 DEF Inserted
  <2> QED
    BY <1>11, <2>2, <2>3
<1>14. Descent'
  <2> SUFFICES ASSUME NEW s \in Reqs, pc'[s] = "consume", presented[s] \in escaped'
               PROVE  minted'[s] \in escaped'
    BY <1>2 DEF Descent
  <2>1. CASE s = r
    <3>1. presented[r] \in escaped /\ Inserted(r, n) /\ minted'[r] = n
      BY <1>1, <1>3, <1>5, <1>11, <2>1
    <3> QED
      BY <2>1, <3>1 DEF Inserted, Escapes
  <2>2. CASE s # r
    <3>1. pc[s] = "consume" /\ minted'[s] = minted[s] /\ presented[s] \in granted
      BY <1>2, <1>5, <2>2 DEF Others
    <3> QED
      BY <1>3, <1>11, <3>1 DEF FamilyInv, Descent
  <2> QED
    BY <2>1, <2>2
<1> QED
  BY <1>6, <1>8, <1>9, <1>10, <1>12, <1>13, <1>14 DEF FamilyInv

(* What every step of a request that may consume or delete rows knows.      *)
LEMMA Knows ==
    ASSUME IInv, NEW s \in Reqs, pc[s] = "consume"
    PROVE  /\ presented[s] \in granted /\ presented[s] \in Tokens /\ presented[s] # NoToken
           /\ minted[s] \in Tokens /\ minted[s] \notin granted
           /\ MintedWith(s, presented[s])
<1>1. MintedWith(s, presented[s])
  BY DEF IInv, FamilyInv, Minting
<1> QED
  BY <1>1 DEF IInv, TypeOK, MintedWith

(* The two effects of a consume on the family.                              *)
LEMMA ConsumeKeeps ==
    ASSUME IInv, TokenAssumption, TypeOK', NEW r \in Reqs, ConsumeSteps(r) PROVE IInv'
<1> DEFINE t == presented[r]
           n == minted[r]
<1>1. /\ Others(r) /\ pc[r] = "consume"
      /\ UNCHANGED <<revoked, escaped, presented, minted, deleting, snap>>
      /\ Rotates(r) \/ GivesUp(r)
      /\ TypeOK /\ FamilyInv
  BY DEF ConsumeSteps, IInv
<1>2. /\ t \in granted /\ t \in Tokens /\ t # NoToken /\ n \in Tokens /\ n \notin granted
      /\ FamilyOf[n] = FamilyOf[t] /\ row[n] # "fresh"
  BY <1>1, Knows DEF MintedWith
<1>3. /\ \A u \in Tokens : row'[u] = row[u] \/ (u = t /\ row[t] = "live" /\ row'[t] = "consumed")
      /\ \A u \in Tokens : row[u] # "fresh" => row'[u] # "fresh"
  BY <1>1 DEF Rotates, GivesUp, Spent
<1>4. granted' = granted \/ (granted' = granted \cup {n} /\ row[t] = "live" /\ row'[t] = "consumed")
  BY <1>1, <1>2 DEF Rotates, GivesUp, Spent
<1>6. pc'[r] \notin {"idle", "consume"}
  BY <1>1 DEF Rotates, GivesUp
<1>7. GrantedStored' /\ RevokedKnown'
  BY <1>1, <1>2, <1>3, <1>4 DEF FamilyInv, GrantedStored, RevokedKnown, TypeOK
<1>8. SnapStored'
  BY <1>1, <1>3 DEF FamilyInv, SnapStored, FamilyOfReq, TypeOK
<1>9. Minting'
  <2> SUFFICES ASSUME NEW s \in Reqs, pc'[s] = "consume"
               PROVE  MintedWith(s, presented[s])'
    BY DEF Minting
  <2>1. s # r /\ pc[s] = "consume"
    BY <1>1, <1>6 DEF Others
  <2>2. /\ presented[s] \in granted /\ presented[s] \in Tokens /\ minted[s] \in Tokens
        /\ minted[s] \notin granted /\ MintedWith(s, presented[s])
    BY <2>1, Knows
  <2>3. minted[s] # n /\ minted[s] # t
    BY <1>1, <1>2, <2>1, <2>2 DEF FamilyInv, MintedApart
  <2>4. row'[minted[s]] = row[minted[s]]
    BY <1>3, <2>2, <2>3
  <2>5. Stored(presented[s])' => Stored(presented[s])
    BY <1>1, <1>3, <2>2 DEF Stored
  <2>6. \A q \in Reqs : minted[s] \in snap[q] /\ Stored(presented[s]) => presented[s] \in snap[q]
    BY <2>2 DEF MintedWith
  <2> QED
    BY <1>1, <1>4, <2>2, <2>3, <2>4, <2>5, <2>6 DEF MintedWith
<1>10. MintedApart'
  BY <1>1, <1>6 DEF FamilyInv, MintedApart, Others
<1>11. ExchangedSpent' /\ SingleUse'
  <2>1. \A s \in Reqs : Exchanged(s)' => \/ Exchanged(s) /\ presented[s] \in Tokens
                                         \/ s = r /\ row[t] = "live" /\ row'[t] = "consumed"
    BY <1>1, <1>2 DEF Exchanged, Others, TypeOK, Rotates, GivesUp, Spent
  <2>2. \A s \in Reqs : Exchanged(s) => row[presented[s]] # "live"
    BY <1>1 DEF FamilyInv, ExchangedSpent
  <2>3. ExchangedSpent'
    BY <1>1, <1>2, <1>3, <2>1, <2>2 DEF ExchangedSpent
  <2>4. SingleUse'
    BY <1>1, <2>1, <2>2 DEF FamilyInv, SingleUse
  <2> QED
    BY <2>3, <2>4
<1>12. OneUsable' /\ SurvivorsRaced'
  <2>1. CASE granted' = granted
    <3>1. \A f \in Families : Usable(f)' \subseteq Usable(f)
      BY <1>1, <1>3, <2>1 DEF Usable, TypeOK
    <3> QED
      BY <1>1, <3>1 DEF FamilyInv, OneUsable, SurvivorsRaced, TypeOK
  <2>2. CASE granted' = granted \cup {n} /\ row[t] = "live" /\ row'[t] = "consumed"
    <3>1. t \in Usable(FamilyOf[t]) /\ FamilyOf[t] \in Families
      BY <1>2, <2>2 DEF Usable, TokenAssumption
    <3>2. Usable(FamilyOf[t])' \subseteq {n}
      BY <1>1, <1>2, <1>3, <2>2, <3>1 DEF FamilyInv, OneUsable, Usable, TypeOK
    <3>3. \A f \in Families : f # FamilyOf[t] => Usable(f)' \subseteq Usable(f)
      BY <1>1, <1>2, <1>3, <2>2 DEF Usable, TypeOK
    <3>4. FamilyOf[t] \in revoked => n \in escaped
      BY <1>1, <3>1 DEF FamilyInv, SurvivorsRaced, Descent
    <3>5. OneUsable'
      BY <1>1, <3>1, <3>2, <3>3 DEF FamilyInv, OneUsable
    <3>6. SurvivorsRaced'
      BY <1>1, <3>1, <3>2, <3>3, <3>4 DEF FamilyInv, SurvivorsRaced, TypeOK
    <3> QED
      BY <3>5, <3>6
  <2> QED
    BY <1>4, <2>1, <2>2
<1>13. Unseen'
  <2>1. \A s \in deleting : StoredIn(FamilyOfReq(s))' \subseteq StoredIn(FamilyOfReq(s))
    BY <1>1, <1>3 DEF StoredIn, Stored, FamilyOfReq
  <2> QED
    BY <1>1, <2>1 DEF FamilyInv, Unseen
<1>14. Descent'
  BY <1>1, <1>6 DEF FamilyInv, Descent, Others
<1> QED
  BY <1>7, <1>8, <1>9, <1>10, <1>11, <1>12, <1>13, <1>14 DEF IInv, FamilyInv

(* A DELETE that begins sees every stored row of its family.                *)
LEMMA BeginKeeps ==
    ASSUME IInv, TypeOK', NEW r \in Reqs, BeginSteps(r) PROVE IInv'
<1>1. /\ Others(r) /\ UNCHANGED <<row, granted, revoked, escaped, pc, presented, minted, answer>>
      /\ deleting' = deleting \cup {r} /\ snap'[r] = StoredIn(FamilyOfReq(r))
      /\ TypeOK /\ FamilyInv /\ deleting \subseteq Reqs
  BY Running DEF BeginSteps, IInv
<1>2. \A s \in Reqs \ {r} : snap'[s] = snap[s]
  BY <1>1 DEF Others
<1>3. /\ GrantedStored' /\ RevokedKnown' /\ OneUsable' /\ SurvivorsRaced' /\ MintedApart'
      /\ ExchangedSpent' /\ SingleUse' /\ Descent'
  BY <1>1 DEF FamilyInv, GrantedStored, RevokedKnown, OneUsable, Usable, SurvivorsRaced,
     MintedApart, ExchangedSpent, SingleUse, Exchanged, Descent
<1>4. SnapStored'
  <2>1. \A u \in snap'[r] : row[u] # "fresh" /\ FamilyOf[u] = FamilyOfReq(r)
    BY <1>1 DEF StoredIn, Stored
  <2> QED
    BY <1>1, <1>2, <2>1 DEF FamilyInv, SnapStored, FamilyOfReq
<1>5. Minting'
  <2> SUFFICES ASSUME NEW s \in Reqs, pc[s] = "consume"
               PROVE  MintedWith(s, presented[s])'
    BY <1>1 DEF Minting
  <2>1. MintedWith(s, presented[s]) /\ presented[s] \in Tokens
    BY <1>1 DEF FamilyInv, Minting, TypeOK
  <2>2. minted[s] \in snap'[r] /\ Stored(presented[s]) => presented[s] \in snap'[r]
    BY <1>1, <2>1 DEF MintedWith, StoredIn
  <2> QED
    BY <1>1, <1>2, <2>1, <2>2 DEF MintedWith, Stored
<1>6. Unseen'
  <2>1. \A s \in Reqs : StoredIn(FamilyOfReq(s))' = StoredIn(FamilyOfReq(s))
    BY <1>1 DEF StoredIn, Stored, FamilyOfReq
  <2> QED
    BY <1>1, <1>2, <2>1 DEF FamilyInv, Unseen
<1> QED
  BY <1>3, <1>4, <1>5, <1>6 DEF IInv, FamilyInv

(* A delete takes rows that are stored, and no new token without the one it *)
(* is about to replace.                                                     *)
LEMMA DeleteKeeps ==
    ASSUME IInv, TokenAssumption, TypeOK', NEW r \in Reqs, DeleteSteps(r) PROVE IInv'
<1>1. /\ Others(r) /\ pc[r] \notin {"idle", "consume", "done"} /\ pc'[r] \notin {"idle", "consume"}
      /\ UNCHANGED <<granted, escaped, presented, minted>>
      /\ answer'[r] # "ok"
      /\ snap'[r] = snap[r] \/ snap'[r] = {}
      /\ deleting' = deleting \ {r} /\ deleting \subseteq Reqs
      /\ TypeOK /\ FamilyInv
      /\ presented[r] \in granted /\ presented[r] \in Tokens
  BY Running DEF DeleteSteps, IInv, TypeOK
<1>2. PICK S \in SUBSET Tokens :
          /\ Deleted(S)
          /\ S = {} \/ S = Doomed(r) \/ S = {u \in {presented[r]} : Stored(u)}
          /\ \/ revoked' = revoked
             \/ /\ revoked' = revoked \cup {FamilyOfReq(r)}
                /\ S = Doomed(r) /\ r \in deleting
  <2>1. /\ {} \in SUBSET Tokens /\ Doomed(r) \in SUBSET Tokens
        /\ {u \in {presented[r]} : Stored(u)} \in SUBSET Tokens
    BY <1>1 DEF Doomed, StoredIn, TypeOK
  <2>2. UNCHANGED row => Deleted({})
    BY DEF Deleted
  <2> QED
    BY <2>1, <2>2 DEF DeleteSteps
<1>3. /\ \A u \in Tokens : row'[u] = row[u] \/ row'[u] = "deleted"
      /\ \A u \in Tokens : row[u] # "fresh" => row'[u] # "fresh"
  BY <1>2 DEF Deleted
<1>4. \A s \in Reqs : snap'[s] \subseteq snap[s] /\ (snap'[s] = snap[s] \/ snap'[s] = {})
  BY <1>1 DEF Others
<1>5. GrantedStored' /\ SnapStored'
  BY <1>1, <1>3, <1>4 DEF FamilyInv, GrantedStored, SnapStored, TypeOK, FamilyOfReq
<1>6. RevokedKnown'
  <2>1. row[presented[r]] # "fresh" /\ FamilyOf[presented[r]] = FamilyOfReq(r)
    BY <1>1 DEF FamilyInv, GrantedStored, FamilyOfReq
  <2>2. \A f \in revoked' : f \in revoked \/ f = FamilyOfReq(r)
    BY <1>2
  <2>3. \A f \in revoked' : \E u \in Tokens : FamilyOf[u] = f /\ row[u] # "fresh"
    BY <1>1, <2>1, <2>2 DEF FamilyInv, RevokedKnown
  <2> QED
    BY <1>3, <2>3 DEF RevokedKnown
<1>7. Minting'
  <2> SUFFICES ASSUME NEW s \in Reqs, pc'[s] = "consume"
               PROVE  MintedWith(s, presented[s])'
    BY DEF Minting
  <2>1. s # r /\ pc[s] = "consume"
    BY <1>1 DEF Others
  <2>2. /\ presented[s] \in granted /\ presented[s] \in Tokens /\ minted[s] \in Tokens
        /\ minted[s] \notin granted /\ MintedWith(s, presented[s])
    BY <2>1, Knows
  <2>3. minted[s] \in S /\ Stored(presented[s]) => presented[s] \in S
    BY <1>1, <1>2, <2>2 DEF Doomed, StoredIn, MintedWith
  <2>4. Stored(presented[s])' => Stored(presented[s]) /\ presented[s] \notin S
    BY <1>1, <1>2, <2>2 DEF Deleted, Stored
  <2>5. Stored(presented[s])' => row'[minted[s]] = "live"
    BY <1>2, <2>2, <2>3, <2>4 DEF MintedWith, Deleted
  <2>6. row'[minted[s]] # "fresh"
    BY <1>3, <2>2 DEF MintedWith
  <2>7. \A q \in Reqs : minted[s] \in snap'[q] /\ Stored(presented[s]) => presented[s] \in snap'[q]
    BY <1>4, <2>2 DEF MintedWith
  <2> QED
    BY <1>1, <2>2, <2>4, <2>5, <2>6, <2>7 DEF MintedWith
<1>8. MintedApart'
  BY <1>1 DEF FamilyInv, MintedApart, Others
<1>9. ExchangedSpent' /\ SingleUse'
  <2>1. \A s \in Reqs : Exchanged(s)' => Exchanged(s) /\ presented[s] \in Tokens
    BY <1>1 DEF Exchanged, Others, TypeOK
  <2> QED
    BY <1>1, <1>3, <2>1 DEF FamilyInv, ExchangedSpent, SingleUse
<1>10. \A f \in Families : Usable(f)' \subseteq Usable(f)
  BY <1>1, <1>3 DEF Usable, TypeOK
<1>11. OneUsable'
  BY <1>1, <1>10 DEF FamilyInv, OneUsable
<1>12. SurvivorsRaced'
  <2>1. \A f \in revoked : Usable(f)' \subseteq escaped
    BY <1>1, <1>10 DEF FamilyInv, SurvivorsRaced, TypeOK
  <2>2. ASSUME r \in deleting, S = Doomed(r), NEW u \in Usable(FamilyOfReq(r))'
        PROVE  u \in escaped
    <3>1. u \in Tokens /\ FamilyOf[u] = FamilyOfReq(r) /\ row'[u] = "live"
      BY <1>1, <2>2 DEF Usable, TypeOK, FamilyOfReq
    <3>2. row[u] = "live" /\ u \notin S
      BY <1>2, <3>1 DEF Deleted
    <3>3. u \in StoredIn(FamilyOfReq(r)) /\ u \notin snap[r]
      BY <2>2, <3>1, <3>2 DEF StoredIn, Stored, Doomed
    <3> QED
      BY <1>1, <2>2, <3>3 DEF FamilyInv, Unseen
  <2>3. FamilyOfReq(r)' = FamilyOfReq(r)
    BY <1>1 DEF FamilyOfReq
  <2> QED
    BY <1>1, <1>2, <2>1, <2>2, <2>3 DEF SurvivorsRaced
<1>13. Unseen'
  <2>1. \A s \in Reqs : StoredIn(FamilyOfReq(s))' \subseteq StoredIn(FamilyOfReq(s))
    BY <1>1, <1>3 DEF StoredIn, Stored, FamilyOfReq
  <2> QED
    BY <1>1, <2>1 DEF FamilyInv, Unseen, Others
<1>14. Descent'
  BY <1>1 DEF FamilyInv, Descent, Others
<1> QED
  BY <1>5, <1>6, <1>7, <1>8, <1>9, <1>11, <1>12, <1>13, <1>14 DEF IInv, FamilyInv

LEMMA ExpireKeeps ==
    ASSUME IInv, NEW t \in Tokens, Expire(t) PROVE IInv'
<1>1. UNCHANGED <<row, granted, revoked, escaped, local>> /\ expired' \in SUBSET Tokens
  BY DEF Expire, IInv, TypeOK
<1> QED
  BY <1>1 DEF IInv, TypeOK, FamilyInv, local, GrantedStored, SnapStored, Minting, MintedWith,
     Stored, MintedApart, ExchangedSpent, Exchanged, RevokedKnown, OneUsable, Usable, SingleUse,
     SurvivorsRaced, FamilyOfReq, StoredIn, Unseen, Descent, Revoking

LEMMA StutterKeeps == ASSUME IInv, UNCHANGED vars PROVE IInv'
BY DEF vars, IInv, TypeOK, FamilyInv, GrantedStored, SnapStored, Minting, MintedWith,
   Stored, MintedApart, ExchangedSpent, Exchanged, RevokedKnown, OneUsable, Usable, SingleUse,
   SurvivorsRaced, FamilyOfReq, StoredIn, Unseen, Descent, Revoking

LEMMA NextIInv == IInv /\ [Next]_vars => IInv'
<1> SUFFICES ASSUME IInv, [Next]_vars PROVE IInv'
  OBVIOUS
<1> USE TokenAssumption
<1>1. TypeOK
  BY DEF IInv
<1>2. ASSUME NEW r \in Reqs, Login(r) PROVE IInv'
  BY <1>2, LoginKeeps
<1>3. ASSUME NEW r \in Reqs, RefreshLookup(r) \/ LogoutLookup(r) PROVE IInv'
  BY <1>1, <1>3, RefreshLookupEffect, LogoutLookupEffect, LookupKeeps
<1>4. ASSUME NEW r \in Reqs, Mint(r) PROVE IInv'
  BY <1>1, <1>4, MintEffect, MintKeeps
<1>5. ASSUME NEW r \in Reqs, Consume(r) PROVE IInv'
  BY <1>1, <1>5, ConsumeEffect, ConsumeKeeps
<1>6. ASSUME NEW r \in Reqs, Revoke(r) \/ DeleteToken(r) PROVE IInv'
  BY <1>1, <1>6, RevokeEffect, DeleteTokenEffect, DeleteKeeps
<1>7. ASSUME NEW r \in Reqs, BeginRevoke(r) PROVE IInv'
  BY <1>1, <1>7, BeginRevokeEffect, BeginKeeps
<1> QED
  BY <1>2, <1>3, <1>4, <1>5, <1>6, <1>7, ExpireKeeps, StutterKeeps DEF Next

----------------------------------------------------------------------------
(* What the handlers guarantee *)

(* The invariant holds in every behaviour.                                  *)
THEOREM Invariant == Spec => []IInv
BY InitIInv, NextIInv, PTL DEF Spec

(* Every variable keeps its type, and requests go through their statements  *)
(* in order.                                                                *)
THEOREM TypeCorrect == Spec => []TypeOK
<1>1. IInv => TypeOK
  BY DEF IInv
<1> QED
  BY <1>1, Invariant, PTL

(* The clients of a login session never hold two tokens that work.          *)
THEOREM OneUsableCorrect == Spec => []OneUsable
<1>1. IInv => OneUsable
  BY DEF IInv, FamilyInv
<1> QED
  BY <1>1, Invariant, PTL

(* No token is exchanged twice, by any number of concurrent requests.       *)
THEOREM SingleUseCorrect == Spec => []SingleUse
<1>1. IInv => SingleUse
  BY DEF IInv, FamilyInv
<1> QED
  BY <1>1, Invariant, PTL

(* The tokens of a revoked family that still work were inserted while a     *)
(* DELETE of it ran, or come by rotation from one that was, for any number  *)
(* of DELETEs and rotations under way.                                      *)
THEOREM SurvivorsRacedCorrect == Spec => []SurvivorsRaced
<1>1. IInv => SurvivorsRaced
  BY DEF IInv, FamilyInv
<1> QED
  BY <1>1, Invariant, PTL

----------------------------------------------------------------------------
(* The handlers implement TokenFamily *)

AUsable == [f \in Families |-> Usable(f)]
AIssued == [f \in Families |-> {t \in granted : FamilyOf[t] = f}]

LEMMA InitMaps == Init => Abstract!Init
BY DEF Init, Abstract!Init, Usable

LEMMA UnionIssued ==
    ASSUME TypeOK, TokenAssumption PROVE Abstract!AllIssued = granted
BY DEF Abstract!AllIssued, TypeOK, TokenAssumption

(* A step that issues nothing and takes from at most one family what it     *)
(* could use is a revocation or no step.                                    *)
LEMMA Shrinks ==
    ASSUME IInv, granted' = granted, NEW g \in Families,
           \A f \in Families : Usable(f)' \subseteq Usable(f),
           \A f \in Families \ {g} : Usable(f)' = Usable(f)
    PROVE  Abstract!Next \/ UNCHANGED Abstract!vars
<1>1. Usable(g)' = {} \/ Usable(g)' = Usable(g)
  BY DEF IInv, FamilyInv, OneUsable
<1>2. AIssued' = AIssued
  BY DEF AIssued
<1>3. CASE Usable(g)' = Usable(g)
  BY <1>2, <1>3 DEF Abstract!vars, AIssued
<1>4. CASE Usable(g)' = {}
  <2>1. AUsable' = [AUsable EXCEPT ![g] = {}]
    BY <1>4 DEF AUsable
  <2>2. Abstract!Revoke(g)
    BY <1>2, <2>1 DEF Abstract!Revoke, AUsable, AIssued
  <2> QED
    BY <2>2 DEF Abstract!Next
<1> QED
  BY <1>1, <1>3, <1>4

LEMMA LoginMaps ==
    ASSUME IInv, TokenAssumption, NEW r \in Reqs, Login(r)
    PROVE  Abstract!Next \/ UNCHANGED Abstract!vars
<1>1. \/ UNCHANGED <<row, granted>>
      \/ \E f \in Families : \E n \in Fresh(f) :
            /\ \A t \in Tokens : FamilyOf[t] = f => row[t] = "fresh"
            /\ \A t \in Tokens : row'[t] = IF t = n THEN "live" ELSE row[t]
            /\ granted' = granted \cup {n} \/ granted' = granted
  BY LoginEffect DEF IInv
<1>2. CASE UNCHANGED <<row, granted>>
  BY <1>2 DEF Abstract!vars, Usable
<1>3. ASSUME NEW f \in Families, NEW n \in Fresh(f),
             \A t \in Tokens : FamilyOf[t] = f => row[t] = "fresh",
             \A t \in Tokens : row'[t] = IF t = n THEN "live" ELSE row[t],
             granted' = granted \cup {n} \/ granted' = granted
      PROVE  Abstract!Next \/ UNCHANGED Abstract!vars
  <2>1. n \in Tokens /\ FamilyOf[n] = f /\ n \notin granted /\ TypeOK
    BY DEF Fresh, IInv, FamilyInv, GrantedStored
  <2>2. \A t \in granted : t # n /\ row'[t] = row[t] /\ FamilyOf[t] # f
    BY <1>3, <2>1 DEF IInv, FamilyInv, GrantedStored, TypeOK
  <2>3. CASE granted' = granted
    <3>1. \A g \in Families : Usable(g)' = Usable(g)
      BY <2>2, <2>3 DEF Usable
    <3> QED
      BY <2>3, <3>1, Shrinks
  <2>4. CASE granted' = granted \cup {n}
    <3>1. AUsable' = [AUsable EXCEPT ![f] = {n}]
      BY <1>3, <2>1, <2>2, <2>4 DEF AUsable, Usable
    <3>2. AIssued' = [AIssued EXCEPT ![f] = {n}]
      BY <1>3, <2>1, <2>2, <2>4 DEF AIssued
    <3>3. AIssued[f] = {} /\ n \notin Abstract!AllIssued
      BY <2>1, <2>2, UnionIssued DEF AIssued
    <3>4. Abstract!Login(f, n)
      BY <3>1, <3>2, <3>3 DEF Abstract!Login, AUsable, AIssued
    <3> QED
      BY <2>1, <3>4 DEF Abstract!Next
  <2> QED
    BY <1>3, <2>3, <2>4
<1> QED
  BY <1>1, <1>2, <1>3

LEMMA ConsumeMaps ==
    ASSUME IInv, TokenAssumption, NEW r \in Reqs, Consume(r)
    PROVE  Abstract!Next \/ UNCHANGED Abstract!vars
<1>1. ConsumeSteps(r) /\ TypeOK
  BY ConsumeEffect DEF IInv
<1>2. PICK t \in Tokens, n \in Tokens, f \in Families :
          /\ t = presented[r] /\ n = minted[r] /\ f = FamilyOf[t]
          /\ t \in granted /\ n \notin granted /\ MintedWith(r, t)
  BY <1>1, Knows DEF ConsumeSteps, TokenAssumption
<1>3. CASE GivesUp(r)
  <2>1. granted' = granted
        /\ \A u \in Tokens : row'[u] = row[u] \/ (u = t /\ row'[u] # "live")
    BY <1>2, <1>3 DEF GivesUp, Spent
  <2>2. \A g \in Families : Usable(g)' \subseteq Usable(g)
    BY <1>1, <2>1 DEF Usable, TypeOK
  <2>3. \A g \in Families \ {f} : Usable(g)' = Usable(g)
    BY <1>1, <1>2, <2>1 DEF Usable, TypeOK
  <2> QED
    BY <1>2, <2>1, <2>2, <2>3, Shrinks
<1>4. CASE Rotates(r)
  <2>1. /\ row[t] = "live" /\ granted' = granted \cup {n}
        /\ \A u \in Tokens : row'[u] = IF u = t THEN "consumed" ELSE row[u]
    BY <1>2, <1>4 DEF Rotates, Spent
  <2>2. FamilyOf[n] = f /\ row[n] = "live" /\ n # t
    BY <1>2, <2>1 DEF MintedWith, Stored
  <2>3. t \in Usable(f) /\ \A u \in Usable(f) : u = t
    BY <1>2, <2>1 DEF IInv, FamilyInv, OneUsable, Usable
  <2>4. \A u \in granted' : u \in Tokens
    BY <1>1, <1>2, <2>1 DEF TypeOK
  <2>5. ASSUME NEW g \in Families
        PROVE  {u \in granted' : FamilyOf[u] = g /\ row'[u] = "live"}
                  = IF g = f THEN {n} ELSE {u \in granted : FamilyOf[u] = g /\ row[u] = "live"}
    BY <1>1, <1>2, <2>1, <2>2, <2>3, <2>4 DEF Usable, TypeOK
  <2>6. AUsable' = [AUsable EXCEPT ![f] = {n}]
    BY <1>2, <2>5 DEF AUsable, Usable
  <2>7. AIssued' = [AIssued EXCEPT ![f] = @ \cup {n}]
    <3>1. ASSUME NEW g \in Families
          PROVE  {u \in granted' : FamilyOf[u] = g} =
                     IF g = f THEN {u \in granted : FamilyOf[u] = g} \cup {n}
                              ELSE {u \in granted : FamilyOf[u] = g}
      BY <2>1, <2>2
    <3> QED
      BY <3>1 DEF AIssued
  <2>8. t \in AUsable[f] /\ n \notin Abstract!AllIssued
    BY <1>1, <1>2, <2>3, UnionIssued DEF AUsable
  <2>9. Abstract!Rotate(f, t, n)
    BY <2>6, <2>7, <2>8 DEF Abstract!Rotate, AUsable, AIssued
  <2> QED
    BY <2>9 DEF Abstract!Next
<1> QED
  BY <1>1, <1>3, <1>4 DEF ConsumeSteps

LEMMA DeleteMaps ==
    ASSUME IInv, TokenAssumption, NEW r \in Reqs, Revoke(r) \/ DeleteToken(r)
    PROVE  Abstract!Next \/ UNCHANGED Abstract!vars
<1>1. DeleteSteps(r) /\ TypeOK /\ TypeOK'
  BY RevokeEffect, DeleteTokenEffect DEF IInv
<1>2. /\ granted' = granted /\ presented[r] \in Tokens
      /\ FamilyOfReq(r) \in Families
  BY <1>1 DEF DeleteSteps, TypeOK, FamilyOfReq, TokenAssumption
<1>3. \/ Deleted(Doomed(r)) \/ Deleted({t \in {presented[r]} : Stored(t)})
      \/ UNCHANGED row
  BY <1>1 DEF DeleteSteps
<1>4. \A t \in Doomed(r) : FamilyOf[t] = FamilyOfReq(r)
  BY DEF Doomed, StoredIn, IInv, FamilyInv, SnapStored
<1>5. ASSUME NEW u \in Tokens, row'[u] # row[u]
      PROVE  row'[u] = "deleted" /\ FamilyOf[u] = FamilyOfReq(r)
  <2>1. row'[u] = "deleted" /\ (u \in Doomed(r) \/ u = presented[r])
    BY <1>3, <1>5 DEF Deleted
  <2> QED
    BY <1>4, <2>1 DEF FamilyOfReq
<1>6. \A f \in Families : Usable(f)' \subseteq Usable(f)
  BY <1>1, <1>2, <1>5 DEF Usable, TypeOK
<1>7. \A f \in Families \ {FamilyOfReq(r)} : Usable(f)' = Usable(f)
  BY <1>1, <1>2, <1>5 DEF Usable, TypeOK
<1> QED
  BY <1>2, <1>6, <1>7, Shrinks

(* Each step of a request is a login, a rotation or a revocation of the     *)
(* family, or changes nothing that a client could tell.                     *)
LEMMA NextMaps ==
    IInv /\ [Next]_vars => [Abstract!Next]_Abstract!vars
<1> SUFFICES ASSUME IInv, [Next]_vars PROVE Abstract!Next \/ UNCHANGED Abstract!vars
  OBVIOUS
<1> USE TokenAssumption
<1>1. ASSUME NEW r \in Reqs, RefreshLookup(r) \/ LogoutLookup(r) PROVE UNCHANGED Abstract!vars
  BY <1>1 DEF RefreshLookup, LogoutLookup, db, Abstract!vars, Usable
<1>2. ASSUME NEW r \in Reqs, Mint(r) PROVE UNCHANGED Abstract!vars
  <2>1. TypeOK /\ MintSteps(r)
    BY <1>2, MintEffect DEF IInv
  <2>2. granted' = granted /\ \A t \in granted : row'[t] = row[t]
    BY <2>1 DEF MintSteps, Inserted, Fresh, IInv, FamilyInv, GrantedStored, TypeOK
  <2>3. \A f \in Families : Usable(f)' = Usable(f)
    BY <2>2 DEF Usable
  <2> QED
    BY <2>2, <2>3 DEF Abstract!vars
<1>3. ASSUME NEW t \in Tokens, Expire(t) PROVE UNCHANGED Abstract!vars
  BY <1>3 DEF Expire, Abstract!vars, Usable
<1>4. CASE UNCHANGED vars
  BY <1>4 DEF vars, Abstract!vars, Usable
<1>5. ASSUME NEW r \in Reqs, BeginRevoke(r) PROVE UNCHANGED Abstract!vars
  BY <1>5 DEF BeginRevoke, db, Abstract!vars, Usable
<1> QED
  BY <1>1, <1>2, <1>3, <1>4, <1>5, LoginMaps, ConsumeMaps, DeleteMaps DEF Next

(* Login, refresh and logout, interleaved and failing at any statement, are *)
(* seen by clients as families with at most one token that works: each      *)
(* exchange replaces it, and a family left without one never has one again. *)
THEOREM Implements == Spec => ImplementsFamily
BY InitMaps, NextMaps, Invariant, PTL DEF Spec, ImplementsFamily, Abstract!Spec
=============================================================================
