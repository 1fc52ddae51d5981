\* Three players and two parties, the scripts of one interface, one creature that follows another.
SPECIFICATION ServicesSpec
CONSTANTS
    p1 = p1
    p2 = p2
    p3 = p3
    Player = {p1, p2, p3}
    MaxParty = 2
    MaxSize = 2
    MaxCall = 2
    None = None
    i1 = i1
    a1 = a1
    a2 = a2
    Interface = {i1}
    Address = {a1, a2}
    NoAddress = NoAddress
    Depth = 2
    TopUid = 2
    MaxMade = 3
    Floor <- Ground
    Wall <- Pillar
    BoxPlaces <- Boxed
    ByTheWay <- Beside
    Away = Away
    Sight = 3
    MaxClosed = 4
    MaxNodes = 12
    Fighting = {1, 2}
SYMMETRY Symmetry
INVARIANTS
    ServicesTypeOK
    PointerListed
    ScriptsHold
    FollowsWell
CHECK_DEADLOCK FALSE
