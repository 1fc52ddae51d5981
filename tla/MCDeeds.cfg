\* Coins that split, merge and are paid, containers in containers, weapons for
\* the hands and a corpse that rots, with two players in and out of reach; and what
\* one player does with an item on a line of three tiles; blows that two hunters and a
\* summon give; the spells, summons and loot of a monster; and the kinds of monsters, which
\* are read again.
CONSTANTS
    p1 = p1  p2 = p2
    bag = bag  corpse = corpse  rotten = rotten  bones = bones  sword = sword  axe = axe
    gold = gold  plat = plat
    None = None
    Player = {p1, p2}
    Item = {1, 2, 3, 4}
    Kind = {bag, corpse, rotten, bones, sword, axe, gold, plat}
    Tile <- TwoTiles
    Stackable = {gold, plat}
    Bag = {bag, corpse, rotten}
    Pickupable = {bag, sword, axe, gold, plat}
    Weapon = {sword, axe}
    TwoHanded = {axe}
    Worn = {bag}
    Coins <- Purse
    Worth <- CoinWorth
    Weight <- UnitWeight
    DecayTo <- CorpseRots
    StackMax = 2
    Capacity <- Places
    Strength = 3
    Cid = {1}
    Supplies <- AllSupplies
    LastTile = 2
    Sanctuary = {1}
    FarReach = 1
    MinAction = 1
    Aims = {0}
    MaxPushes = 1
    h1 = h1  h2 = h2  pet = pet  prey = prey  nature = nature
    Striking = {h1, h2, pet}
    MasterOf <- Masters
    Victim = prey
    Nature = nature
    FullHealth = 2
    FullMana = 1
    Damage = {1, 2}
    Defense = 1
    Armor = 1
    Absorb = 40
    Prize = 7
    Draws = 1
    MaxHealed = 1
    Plain = None
    Interval = 2
    Attacks <- TwoAttacks
    Defenses <- OneDefense
    SummonSpeeds <- TwoSummons
    MaxSummons = 1
    YellSpeed = 2
    ThinkPause = 2
    ChangeSpeed = 3
    Pet = {1, 2}
    Loot <- BagOfTwo
    CorpseSize = 1
    Name = {"rat", "orc", "elf"}
    Absent = None
    Sheets <- FourSheets
    Lists <- SomeLists
    MaxRange = 16
    MaxChanges = 1
    MaxReloads = 2
    Beast = {1}
SYMMETRY Players
\* A beast may be dead, and the edits of the files are bounded.
CHECK_DEADLOCK FALSE
SPECIFICATION DeedsSpec
INVARIANTS
    DeedsTypeOK
    Kept
    LimitsAndBooks
    DeedsCount
    MonstersHold
