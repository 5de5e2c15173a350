------------------------------ MODULE MCWsHub ------------------------------
(* Alice's two connections are in two rooms, Bob's is with her first one.   *)
EXTENDS WsHub

CONSTANTS a1, a2, b1, alice, bob, lobby, den, p1, p2

MCUserOf == [c \in Clients |-> IF c = b1 THEN bob ELSE alice]
MCRoomOf == [x \in Clients \cup Posters |-> IF x = a2 THEN den ELSE lobby]

(* Besides what connections say of themselves, one typing frame or one post *)
(* is broadcast; and Bob comes to Alice's first connection, with nothing    *)
(* more said and no shutdown, or she has two connections and he stays away. *)
Spoke == {c \in Clients : typed[c] > 0} \cup {p \in Posters : posted[p] > 0}

BobOrBoth ==
    \/ pc[b1] = "start" /\ Cardinality(Spoke) <= 1
    \/ pc[a2] = "start" /\ Spoke = {} /\ ~closed
=============================================================================
