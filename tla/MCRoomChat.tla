----------------------------- MODULE MCRoomChat -----------------------------
(* Ann posts; Bob chats and pages back.                                     *)
EXTENDS RoomChat, TLC

CONSTANTS ann, bob, p1, p2, p3, v1, w1

MCUserOf == [a \in Actors |-> IF a \in Posts THEN ann ELSE bob]

Symmetry == Permutations(Posts)

Chats == \E v \in Views : place[v] # "off"
Walked == \E w \in Walks : asked[w] \/ seen[w] # {} \/ before[w] # NoTime

(* The two readers change nothing that the other reads, so they take turns: *)
(* a walk starts when no chat is open, and then none is opened.             *)
OneReader == ~(Chats /\ Walked)

(* A reader asks who is a member, not how the room came to be: the ways in  *)
(* which its creation goes wrong are explored without one.                  *)
RoomSettled == Chats \/ Walked => creator = ann /\ create = "ok"
=============================================================================
