--------------------------- MODULE RefreshTokens ---------------------------
(* The refresh-token handlers of internal/user: login, refresh and logout,  *)
(* one step per database statement, so that requests interleave between     *)
(* statements and any statement may fail.  None of them runs in a           *)
(* transaction.  A failed statement (a cancelled request, a lost            *)
(* connection) may or may not have taken effect.                            *)
EXTENDS Naturals, FiniteSets

CONSTANTS
    Tokens, Families,
    FamilyOf,       \* [Tokens -> Families]: the family a token is minted in
    Reqs,           \* HTTP requests, each served by a goroutine
    NoToken

ASSUME TokenAssumption ==
    /\ FamilyOf \in [Tokens -> Families]
    /\ NoToken \notin Tokens

VARIABLES
    row,        \* refresh_tokens: fresh (not inserted), live, consumed, deleted
    expired,    \* tokens past their expires_at
    granted,    \* tokens a 2xx response has carried to a client
    revoked,    \* history: families with a completed revocation
    escaped,    \* history: tokens inserted while a DELETE of their family ran,
                \* and those they were rotated into
    pc,         \* the next statement of each request
    presented,  \* the token in its body
    minted,     \* the token it has inserted
    deleting,   \* requests whose DELETE of a family runs
    snap,       \* the rows that DELETE sees: those there were as it began
    answer      \* its response

db    == <<row, expired, granted, revoked, escaped>>
local == <<pc, presented, minted, deleting, snap, answer>>
vars  == <<row, expired, granted, revoked, escaped,
           pc, presented, minted, deleting, snap, answer>>

Stored(t) == row[t] \in {"live", "consumed"}
StoredIn(f) == {t \in Tokens : FamilyOf[t] = f /\ Stored(t)}
Fresh(f) == {t \in Tokens : FamilyOf[t] = f /\ row[t] = "fresh"}
FamilyOfReq(r) == FamilyOf[presented[r]]

Answer(r, a) ==
    /\ pc' = [pc EXCEPT ![r] = "done"]
    /\ answer' = [answer EXCEPT ![r] = a]

GoTo(r, place) == pc' = [pc EXCEPT ![r] = place] /\ UNCHANGED answer

SetRow(S, v) == row' = [t \in Tokens |-> IF t \in S THEN v ELSE row[t]]

----------------------------------------------------------------------------
Init ==
    /\ row = [t \in Tokens |-> "fresh"]
    /\ expired = {}
    /\ granted = {}
    /\ revoked = {}
    /\ escaped = {}
    /\ pc = [r \in Reqs |-> "idle"]
    /\ presented = [r \in Reqs |-> NoToken]
    /\ minted = [r \in Reqs |-> NoToken]
    /\ deleting = {}
    /\ snap = [r \in Reqs |-> {}]
    /\ answer = [r \in Reqs |-> "none"]

(* login, its credentials right: InsertRefreshToken in a new family.        *)
Login(r) ==
    /\ pc[r] = "idle"
    /\ \E f \in Families : \E n \in Fresh(f) :
          /\ \A t \in Tokens : FamilyOf[t] = f => row[t] = "fresh"
          /\ \/ SetRow({n}, "live") /\ granted' = granted \cup {n} /\ Answer(r, "ok")
             \/ SetRow({n}, "live") /\ UNCHANGED granted /\ Answer(r, "failed")
             \/ UNCHANGED <<row, granted>> /\ Answer(r, "failed")
    /\ UNCHANGED <<expired, revoked, escaped, presented, minted, deleting, snap>>

(* refresh: RefreshTokenByHash of a token the client was given, and ByID,   *)
(* which changes nothing and can only fail.                                 *)
RefreshLookup(r) ==
    /\ pc[r] = "idle"
    /\ \E t \in granted :
          /\ presented' = [presented EXCEPT ![r] = t]
          /\ \/ Answer(r, "failed")
             \/ ~Stored(t) /\ Answer(r, "invalid")
             \/ row[t] = "consumed" /\ GoTo(r, "revokeReuse")
             \/ row[t] = "live" /\ t \in expired /\ Answer(r, "invalid")
             \/ row[t] = "live" /\ t \notin expired /\ GoTo(r, "mint")
    /\ UNCHANGED <<db, minted, deleting, snap>>

(* An insert that a DELETE of the family does not see, as it has begun; or  *)
(* the rotation of a token that was such an insert.                         *)
Escapes(r) ==
    \/ \E s \in deleting : FamilyOfReq(s) = FamilyOfReq(r)
    \/ presented[r] \in escaped

Insert(r, n) ==
    /\ SetRow({n}, "live")
    /\ escaped' = IF Escapes(r) THEN escaped \cup {n} ELSE escaped

(* Wrong variant: the id of the new token is lost.                          *)
MintForgets(r) ==
    /\ pc[r] = "mint"
    /\ \E n \in Fresh(FamilyOfReq(r)) : Insert(r, n)
    /\ GoTo(r, "consume")
    /\ UNCHANGED <<expired, granted, revoked, presented, minted, deleting, snap>>

(* refresh: InsertRefreshToken in the same family.                          *)
Mint(r) ==
    /\ pc[r] = "mint"
    /\ \E n \in Fresh(FamilyOfReq(r)) :
          \/ /\ Insert(r, n)
             /\ minted' = [minted EXCEPT ![r] = n]
             /\ GoTo(r, "consume")
          \/ Insert(r, n) /\ Answer(r, "failed") /\ UNCHANGED minted
          \/ Answer(r, "failed") /\ UNCHANGED <<row, escaped, minted>>
    /\ UNCHANGED <<expired, granted, revoked, presented, deleting, snap>>

(* Wrong variant: the UPDATE does not ask for consumed_at IS NULL.          *)
ConsumeOkUnchecked(r) ==
    /\ SetRow({t \in {presented[r]} : Stored(t)}, "consumed")
    /\ granted' = granted \cup {minted[r]}
    /\ Answer(r, "ok")

(* refresh: ConsumeRefreshToken, one UPDATE that finds the token unconsumed *)
(* or does not; the new token is answered only if it does.                  *)
ConsumeOk(r) ==
    /\ row[presented[r]] = "live"
    /\ SetRow({presented[r]}, "consumed")
    /\ granted' = granted \cup {minted[r]}
    /\ Answer(r, "ok")

ConsumeFails(r) ==
    /\ \/ row[presented[r]] = "live" /\ SetRow({presented[r]}, "consumed")
       \/ UNCHANGED row
    /\ Answer(r, "failed")
    /\ UNCHANGED granted

ConsumeLost(r) ==
    /\ row[presented[r]] # "live"
    /\ GoTo(r, "revokeRace")
    /\ UNCHANGED <<row, granted>>

Consume(r) ==
    /\ pc[r] = "consume"
    /\ ConsumeOk(r) \/ ConsumeFails(r) \/ ConsumeLost(r)
    /\ UNCHANGED <<expired, revoked, escaped, presented, minted, deleting, snap>>

Revoking(r) == pc[r] \in {"revokeReuse", "revokeRace", "revokeLogout"}

(* RevokeRefreshFamily: under PostgreSQL's READ COMMITTED a DELETE removes  *)
(* the rows that were committed when it began, those updated since          *)
(* included, and none inserted since.                                       *)
BeginRevoke(r) ==
    /\ Revoking(r) /\ r \notin deleting
    /\ deleting' = deleting \cup {r}
    /\ snap' = [snap EXCEPT ![r] = StoredIn(FamilyOfReq(r))]
    /\ UNCHANGED <<db, pc, presented, minted, answer>>

(* Wrong variant: only the presented token is deleted.                      *)
DoomedOne(r) == {t \in {presented[r]} : Stored(t)}

Doomed(r) == {t \in snap[r] : Stored(t)}

(* The handler reports a failure only for a token that the lookup had found *)
(* consumed.                                                                *)

AfterRevoke(r, failed) ==
    \/ pc[r] = "revokeReuse" /\ Answer(r, IF failed THEN "failed" ELSE "reuse")
    \/ pc[r] = "revokeRace" /\ Answer(r, "reuse")
    \/ pc[r] = "revokeLogout" /\ GoTo(r, "deleteToken")

Revoke(r) ==
    /\ r \in deleting
    /\ \/ /\ SetRow(Doomed(r), "deleted")
          /\ revoked' = revoked \cup {FamilyOfReq(r)}
          /\ AfterRevoke(r, FALSE)
       \/ /\ SetRow(Doomed(r), "deleted") \/ UNCHANGED row
          /\ AfterRevoke(r, TRUE)
          /\ UNCHANGED revoked
    /\ deleting' = deleting \ {r}
    /\ snap' = [snap EXCEPT ![r] = {}]
    /\ UNCHANGED <<expired, granted, escaped, presented, minted>>

(* logout: a token that is not found, or a lookup that fails, goes straight *)
(* to RevokeRefreshToken.                                                   *)
LogoutLookup(r) ==
    /\ pc[r] = "idle"
    /\ \E t \in granted :
          /\ presented' = [presented EXCEPT ![r] = t]
          /\ \/ Stored(t) /\ GoTo(r, "revokeLogout")
             \/ GoTo(r, "deleteToken")
    /\ UNCHANGED <<db, minted, deleting, snap>>

DeleteToken(r) ==
    /\ pc[r] = "deleteToken"
    /\ LET t == {u \in {presented[r]} : Stored(u)} IN
          \/ SetRow(t, "deleted") /\ Answer(r, "loggedOut")
          \/ (SetRow(t, "deleted") \/ UNCHANGED row) /\ Answer(r, "failed")
    /\ UNCHANGED <<expired, granted, revoked, escaped, presented, minted, deleting, snap>>

(* Time passes.                                                             *)
Expire(t) ==
    /\ row[t] = "live" /\ t \notin expired
    /\ expired' = expired \cup {t}
    /\ UNCHANGED <<row, granted, revoked, escaped, local>>

Next ==
    \/ \E r \in Reqs : \/ Login(r) \/ RefreshLookup(r) \/ Mint(r) \/ Consume(r)
                       \/ BeginRevoke(r) \/ Revoke(r) \/ LogoutLookup(r) \/ DeleteToken(r)
    \/ \E t \in Tokens : Expire(t)

Spec == Init /\ [][Next]_vars

----------------------------------------------------------------------------
(* Properties *)

Rows    == {"fresh", "live", "consumed", "deleted"}
Answers == {"none", "ok", "failed", "invalid", "reuse", "loggedOut"}
ReqPcs  == {"idle", "mint", "consume", "revokeReuse", "revokeRace", "revokeLogout",
            "deleteToken", "done"}

(* Every variable keeps its type; a request past its lookup has a token     *)
(* that some client was given, one past its insert has minted another, a    *)
(* DELETE runs only where the handler has come to one, and only a request   *)
(* that is done has answered.                                               *)
TypeOK ==
    /\ row \in [Tokens -> Rows]
    /\ expired \in SUBSET Tokens
    /\ granted \in SUBSET Tokens
    /\ revoked \in SUBSET Families
    /\ escaped \in SUBSET Tokens
    /\ pc \in [Reqs -> ReqPcs]
    /\ presented \in [Reqs -> Tokens \cup {NoToken}]
    /\ minted \in [Reqs -> Tokens \cup {NoToken}]
    /\ deleting \in SUBSET {r \in Reqs : Revoking(r)}
    /\ snap \in [Reqs -> SUBSET Tokens]
    /\ answer \in [Reqs -> Answers]
    /\ \A r \in Reqs : /\ pc[r] = "idle" => presented[r] = NoToken
                       /\ r \notin deleting => snap[r] = {}
                       /\ pc[r] # "done" => answer[r] = "none"
                       /\ presented[r] # NoToken => presented[r] \in granted
                       /\ pc[r] \notin {"idle", "done"} => presented[r] # NoToken
                       /\ pc[r] = "consume" => minted[r] \in Tokens

Usable(f) == {t \in granted : FamilyOf[t] = f /\ row[t] = "live"}

(* The holders of a family's tokens never have two that can be exchanged,   *)
(* however requests that present the same or different tokens interleave    *)
(* and fail.                                                                *)
OneUsable == \A f \in Families : \A t, u \in Usable(f) : t = u

Exchanged(r) == answer[r] = "ok" /\ presented[r] # NoToken

(* A token is exchanged at most once: "Rotation is single-use"              *)
(* (refreshHandler), concurrent presentations included.                     *)
SingleUse ==
    \A r, s \in Reqs : Exchanged(r) /\ Exchanged(s) /\ presented[r] = presented[s] => r = s

(* What a revocation leaves: the only tokens of a revoked family that still *)
(* work were inserted while a DELETE of the family ran, or come by rotation *)
(* from one that was.  A request already past its lookup when the family    *)
(* goes, whose insert comes after, does not bring it back.                  *)
SurvivorsRaced == \A f \in revoked : Usable(f) \subseteq escaped

(* After a family is revoked no token that any client was or will be given  *)
(* works: "revoke the entire family so the real client and the attacker are *)
(* both forced to re-login" (handler.go:178-179).  It does not hold: an     *)
(* insert may come between the start of the DELETE and its end.             *)
NoSurvivor == \A f \in revoked : Usable(f) = {}

(* Why these hold.  What a client was given has been stored; a request      *)
(* about to consume has minted a token of the same family that nobody else  *)
(* knows of, and it lives as long as the presented one, as no DELETE takes  *)
(* the one without the other; a token exchanged once is not exchangeable;   *)
(* a revoked family had a row; and what a running DELETE does not see was   *)
(* inserted since it began.                                                 *)
MintedWith(r, t) ==
    /\ minted[r] \notin granted
    /\ FamilyOf[minted[r]] = FamilyOf[t]
    /\ row[minted[r]] # "fresh"
    /\ Stored(t) => row[minted[r]] = "live"
    /\ \A s \in Reqs : minted[r] \in snap[s] /\ Stored(t) => t \in snap[s]

GrantedStored  == \A t \in granted : row[t] # "fresh"
SnapStored     == \A r \in Reqs : \A t \in snap[r] :
    row[t] # "fresh" /\ FamilyOf[t] = FamilyOfReq(r)
Minting        == \A r \in Reqs : pc[r] = "consume" => MintedWith(r, presented[r])
MintedApart    == \A r, s \in Reqs :
    pc[r] = "consume" /\ pc[s] = "consume" /\ minted[r] = minted[s] => r = s
ExchangedSpent == \A r \in Reqs : Exchanged(r) => row[presented[r]] # "live"
RevokedKnown   == \A f \in revoked : \E t \in Tokens : FamilyOf[t] = f /\ row[t] # "fresh"
Unseen         == \A r \in deleting : StoredIn(FamilyOfReq(r)) \subseteq snap[r] \cup escaped
Descent        == \A r \in Reqs :
    pc[r] = "consume" /\ presented[r] \in escaped => minted[r] \in escaped

FamilyInv ==
    /\ GrantedStored /\ SnapStored /\ Minting /\ MintedApart
    /\ ExchangedSpent /\ RevokedKnown /\ Unseen /\ Descent
    /\ OneUsable /\ SingleUse /\ SurvivorsRaced

(* The handlers implement the abstract family, failures and interleavings   *)
(* included.                                                                *)
Abstract == INSTANCE TokenFamily WITH
    usable <- [f \in Families |-> Usable(f)],
    issued <- [f \in Families |-> {t \in granted : FamilyOf[t] = f}]
ImplementsFamily == Abstract!Spec
=============================================================================
