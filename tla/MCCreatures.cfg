\* One body with two slots, two players of whom one has a summon and enters an
\* arena, one player who advances, and one who watches three tiles.
SPECIFICATION Spec
CONSTANTS
    stealth = stealth
    stealthOn = stealthOn
    dwarf = dwarf
    dwarfOn = dwarfOn
    boots = boots
    feet = feet
    finger = finger
    p1 = p1
    p2 = p2
    pet = pet
    None = None
    Kind = {stealth, stealthOn, dwarf, dwarfOn, boots}
    Slot = {feet, finger}
    Books <- BooksOfSpells
    BaseSpeed = 20
    Normal = 0
    EquipTo <- WornForms
    EquipSlot <- Places
    HasEquip = {stealth, stealthOn, dwarf, dwarfOn, boots}
    HasDeEquip = {stealthOn, dwarfOn, boots}
    AbilitySpeed <- Quick
    AbilityInvisible = {stealthOn}
    AbilityManaShield = {stealthOn}
    AbilityRegeneration = {}
    SuppressDrunk = {dwarfOn}
    RoundTicks = 2
    MaxTicks = 2
    NoOwner = NoOwner
    Fighter = {p1, p2}
    Fiend = {pet}
    OwnerOf <- Owners
    Gladiator = {p1}
    FightTime = 1
    WhiteTime = 1
    FragTime = 1
    RedUnjust = 1
    BanUnjust = 2
    TopLevel = 3
    TopMagic = 2
    TopSkill = 12
    ExpForLv <- Experience
    ReqMana <- ManaNeeded
    ReqSkillTries <- TriesNeeded
    HPGain <- Health
    FirstHealth = 8
    LostPercent = 40
    Gains = {1, 3}
    me = me
    c1 = c1
    c2 = c2
    coin = coin
    splash = splash
    fire = fire
    fume = fume
    Viewer = me
    Other = {c1, c2}
    TopItem = {splash}
    DownItem = {coin, fire, fume}
    Field = {fire, fume}
    Ground <- ThreeTiles
    West = 1
    East = 2
    North = 0
    South = 1
    StackLimit = 3
    RefreshAbove = 1
    KnownLimit = 2
    Casts <- Assemblies
    FullMana = 4
    FullSoul = 2
    Cost <- Costs
    MonsterMana = 2
    MaxSummons = 1
    Stock = 1
    MaxCasts = 3
    Shapes <- NorthShapes
    ExtShapes <- WestShapes
    Place <- Square5
    Hunter = 99
    CasterAt <- Middle
    Blocked <- Pillar
    Haven <- Temple
    Stander <- Standers
    StandsAt <- OneOnEach
    Immune = {11}
INVARIANTS
    CreaturesTypeOK
    ConditionsEnd
    EndsWithFight
    BooksKept
    ShowsWhatIsThere
    CastsHold
CHECK_DEADLOCK FALSE
