---------------------------- MODULE TokenFamily ----------------------------
(* What refresh-token rotation promises (user/handler.go refreshHandler and *)
(* logout, the refresh_tokens migration): a login session is a family of    *)
(* tokens, at most one of which can be exchanged at any time; an exchange   *)
(* replaces it; once a family has none it never has one again.              *)
EXTENDS FiniteSets, Naturals

CONSTANTS Tokens, Families

VARIABLES
    usable,     \* per family, the tokens that can be exchanged
    issued      \* tokens ever handed to a client, per family

vars == <<usable, issued>>

Init ==
    /\ usable = [f \in Families |-> {}]
    /\ issued = [f \in Families |-> {}]

AllIssued == UNION {issued[f] : f \in Families}

Login(f, t) ==
    /\ issued[f] = {}
    /\ t \notin AllIssued
    /\ usable' = [usable EXCEPT ![f] = {t}]
    /\ issued' = [issued EXCEPT ![f] = {t}]

(* Token t is exchanged for n, and is worth nothing from then on.           *)
Rotate(f, t, n) ==
    /\ t \in usable[f]
    /\ n \notin AllIssued
    /\ usable' = [usable EXCEPT ![f] = {n}]
    /\ issued' = [issued EXCEPT ![f] = @ \cup {n}]

Revoke(f) ==
    /\ usable' = [usable EXCEPT ![f] = {}]
    /\ UNCHANGED issued

Next ==
    \E f \in Families : \/ \E t \in Tokens : Login(f, t)
                        \/ \E t, n \in Tokens : Rotate(f, t, n)
                        \/ Revoke(f)

Spec == Init /\ [][Next]_vars

=============================================================================
