----------------------------- MODULE Admission -----------------------------
(* What the hub promises of its connections (ws/hub.go): each is let in at  *)
(* most once, never beyond the cap of its user, leaves for good, and        *)
(* none is in once the hub is shut, nor let in from then on.                *)
EXTENDS Naturals, FiniteSets

CONSTANTS
    Clients,
    UserOf,         \* [Clients -> users]
    MaxPerUser      \* 0 is no cap

VARIABLES
    place,          \* where each connection is: out, in or gone
    over            \* the hub is shut

vars == <<place, over>>

Init ==
    /\ place = [c \in Clients |-> "out"]
    /\ over = FALSE

InOf(u) == {c \in Clients : UserOf[c] = u /\ place[c] = "in"}

Admit(c) ==
    /\ place[c] = "out"
    /\ ~over
    /\ MaxPerUser > 0 => Cardinality(InOf(UserOf[c])) < MaxPerUser
    /\ place' = [place EXCEPT ![c] = "in"]
    /\ UNCHANGED over

(* A connection may be turned away at any time, and one let in may go.      *)
Go(c) ==
    /\ place[c] # "gone"
    /\ place' = [place EXCEPT ![c] = "gone"]
    /\ UNCHANGED over

Shut ==
    /\ over' = TRUE
    /\ place' = [c \in Clients |-> IF place[c] = "in" THEN "gone" ELSE place[c]]

Next == Shut \/ \E c \in Clients : Admit(c) \/ Go(c)

Spec == Init /\ [][Next]_vars

=============================================================================
