SPECIFICATION Spec
CONSTANTS
    ann = ann  bob = bob
    p1 = p1  p2 = p2  p3 = p3  v1 = v1  w1 = w1
    Users = {ann, bob}
    Posts = {p1, p2, p3}
    Views = {}
    Walks = {}
    UserOf <- MCUserOf
    PageSize = 2
    Second = 2
    MaxTime = 2
    NoUser = NoUser
    NoTime = NoTime
INVARIANT
    CreateReported
CHECK_DEADLOCK FALSE
