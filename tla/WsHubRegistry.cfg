SPECIFICATION Spec
CONSTANTS
    a1 = a1  a2 = a2  b1 = b1  alice = alice  bob = bob
    lobby = lobby  den = den  p1 = p1  p2 = p2  Main = Main  NoClient = NoClient
    Users = {alice, bob}
    Rooms = {lobby, den}
    UserOf <- MCUserOf
    RoomOf <- MCRoomOf
    Clients = {a1, a2, b1}
    Posters = {p1}
    MaxPerUser = 1
    SendBuffer = 2
    MaxPosts = 1
    MaxTyping = 1
CONSTRAINT BobOrBoth
INVARIANTS
    TypeOK
    HubInv
    CountsMatchRegistry
    CapHeld
    EndsReleased
    EventsStayInRoom
    PresenceComplete
PROPERTIES
    ImplementsAdmission
CHECK_DEADLOCK FALSE
