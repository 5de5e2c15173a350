SPECIFICATION Spec
CONSTANTS
    ann = ann  bob = bob
    p1 = p1  p2 = p2  p3 = p3  v1 = v1  w1 = w1
    Users = {ann, bob}
    Posts = {p1, p2, p3}
    Views = {v1}
    Walks = {w1}
    UserOf <- MCUserOf
    PageSize = 2
    Second = 2
    MaxTime = 2
    NoUser = NoUser
    NoTime = NoTime
SYMMETRY Symmetry
CONSTRAINTS
    OneReader
    RoomSettled
INVARIANTS
    TypeOK
    ShownIsStored
    CreatorOwns
    PollAccounts
    Repeats
    LiveComplete
    WalkAccounts
CHECK_DEADLOCK FALSE
