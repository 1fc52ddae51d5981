\* A player and two monsters on three tiles, the events of two creatures, a spawn
\* of three blocks, four raids of which one has no events and one no chance, a house
\* with three lodgers, two players with a coin, two who chat, two at a shop, and two
\* who sleep in three beds.
SPECIFICATION Spec
CONSTANTS
    h1 = h1
    m1 = m1
    m2 = m2
    w1 = w1
    w2 = w2
    b1 = b1
    b2 = b2
    b3 = b3
    r1 = r1
    r2 = r2
    r3 = r3
    r4 = r4
    d1 = d1
    d2 = d2
    d3 = d3
    Nobody = Nobody
    Hero = {h1}
    Beast = {m1, m2}
    Wild = {m1}
    Cell = {0, 1, 2}
    Sees <- InSight
    Reaches <- Paths
    Adjacent <- NextTo
    Pz = {0}
    Walker = {w1}
    EventId = {1, 2, 3, 4, 5, 6, 7}
    NoEvent = 0
    Block = {b1, b2, b3}
    RateSpawn = 2
    MaxStrays = 3
    RaidNode = {r1, r2, r3, r4}
    NoRaid = NoRaid
    RaidTags <- RaidsXml
    File <- RaidFile
    Readable = {r1, r2, r3, r4}
    DelayWidth = 16
    MaxChains = 3
    ann = ann
    bob = bob
    cat = cat
    coin = coin
    Lodger = {ann, bob, cat}
    NoLodger = NoLodger
    Texts <- TextsOfHouse
    Holder = {ann, bob}
    NoHolder = NoHolder
    Piece = {coin}
    Money = {coin}
    WarnLimit = 1
    MaxRare = 3
    ann1 = ann1
    ann2 = ann2
    bob1 = bob1
    Body = {ann1, ann2, bob1}
    Name = {ann, bob}
    NameOf <- CharacterOf
    NoName = NoName
    GuildId = {1}
    TopRoom = 11
    axe = axe
    bow = bow
    Customer = {ann, bob}
    Ware = {axe, bow}
    Script <- Scripts
    LastPlace = 2
    Home = 1
    Radius = 1
    TalkRadius = 1
    MaxCount = 1
    Noone = Noone
    Sleeper = {ann, bob}
    Empty = Empty
    Premium = {ann, bob}
    Bed = {d1, d2, d3}
    Housed = {d1, d2}
    HeadId <- BedIds
    Lies <- BedsLie
    Ticks = 1
    HealthGain = 2
    ManaGain = 2
    MaxHealth = 1
    MaxMana = 1
    MaxFood = 1
    MaxClock = 1
INVARIANTS
    WorldTypeOK
    TargetsRight
    WorldGoesOn
    OnlyInvitedInside
    BelongingsKept
    ChannelsHold
    NpcsHold
    BedsHold
CHECK_DEADLOCK FALSE
