\* Three connections for one character, each used once; bans of two characters of one
\* account by a gamemaster, from two addresses; one account
\* and one character made by two conversations.  The connections are used up, so the
\* system may stop.
SPECIFICATION ServerSpec
CONSTANTS
    t1 = t1
    t2 = t2
    t3 = t3
    a = a
    b = b
    Conn = {t1, t2, t3}
    Name = {a}
    MaxPlayers = 2
    AllowClones = FALSE
    None = None
    ann = ann
    bob = bob
    gm = gm
    acc1 = acc1
    acc2 = acc2
    i1 = i1
    i2 = i2
    c1 = c1
    c2 = c2
    Nil = Nil
    Character = {ann, bob, gm}
    AccountOf <- Owners
    Staff = {gm}
    Address = {i1, i2}
    Connection = {c1, c2}
    Forever = 99
    MaxTries = 2
    LoginTimeout = 1
    RetryTimeout = 0
    Length = 1
    MaxTime = 2
    MaxBans = 2
    k1 = k1
    k2 = k2
    x1 = x1
    acc = acc
    Account = {acc}
    FreeNumber = FreeNumber
    Clerk = {k1, k2}
    Figure = {x1}
    NoFigure = NoFigure
    Calling = {"rookie", "knight", "elite"}
    Rookie = "rookie"
    CallingBefore <- Unpromoted
    Secret = {"word"}
    NoSecret = "none"
    Days = {1}
    LastDay = 1
    MaxEnd = 2
    MaxRows = 2
    MaxTalks = 2
INVARIANTS
    ServerTypeOK
    SessionsHold
    BansHold
    AccountsKeep
PROPERTIES
    NoCombatLogout
CHECK_DEADLOCK FALSE
