SPECIFICATION Spec
CONSTANTS
    Conn = {t1, t2}
    Name = {a}
    MaxPlayers = 2
    AllowClones = FALSE
    None = None
INVARIANTS
    ClosedOnce
CHECK_DEADLOCK FALSE
