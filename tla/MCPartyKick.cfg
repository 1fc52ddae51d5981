SPECIFICATION Spec
CONSTANTS
    Player = {p1, p2}
    MaxParty = 2
    MaxSize = 2
    MaxCall = 2
    None = None
PROPERTIES
    KickedIsOut
CHECK_DEADLOCK FALSE
