\* Two connections for one character; three ranks of players with nine commands, and one
\* shutdown announced; two remote controls where one is allowed; one who can be muted
\* twice and one who is exempt.  The connections are used up and the server ends, so the
\* system may stop.
SPECIFICATION EndingsSpec
CONSTANTS
    t1 = t1
    t2 = t2
    a = a
    Conn = {t1, t2}
    Name = {a}
    MaxPlayers = 1
    AllowClones = FALSE
    None = None
    ann = ann
    tut = tut
    god = god
    c1 = c1
    c2 = c2
    Person = {ann, tut, god}
    Rank <- Ranks
    Enter = 1
    Protect = 3
    Command <- Commands
    Sign <- Signs
    Asked <- AskedOf
    Unlisted = {"save"}
    Place <- Places
    ByCommand = ByCommand
    MaxMinutes = 1
    MaxCounts = 1
    Limits = {0, 1}
    Admin = {c1, c2}
    MaxConnections = 1
    NoPerson = {ann, tut, god}
    Speaker = {ann, god}
    Exempt = {god}
    MaxMessages = 2
    MuteSeconds = 5
    Exhausted = 1
    ExhaustedAdd = 0
    MaxMutes = 2
INVARIANTS
    EndingsTypeOK
    OrdersKept
    TalkHold
PROPERTIES
    EverythingEnds
CHECK_DEADLOCK FALSE
