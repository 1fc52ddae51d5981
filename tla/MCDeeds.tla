------------------------------ MODULE MCDeeds -------------------------------
(* Instances of Items, Acts, Blows, Beasts and Bestiary for TLC, as parts that share no *)
(* state. *)
EXTENDS Items, Acts, Blows, Beasts, Bestiary

CONSTANTS p1, p2, bag, corpse, rotten, bones, sword, axe, gold, plat

VARIABLE part

\* Two tiles, out of reach of each other.
TwoTiles == {10, 13}

Purse == <<plat, gold>>
CoinWorth == [k \in {gold, plat} |-> IF k = gold THEN 1 ELSE 2]
Places == [k \in {bag, corpse, rotten} |-> IF k = bag THEN 2 ELSE 1]
UnitWeight == [k \in Kind |-> 1]
CorpseRots == [k \in Kind |-> CASE k = corpse -> rotten [] k = rotten -> bones
                                   [] k = bones -> None [] OTHER -> k]

\* What comes into the world: m of money, n bags, and one of each kind of S.
Bring(m, n, S) ==
    [a \in Account |-> CASE a = "money" -> m [] a = bag -> n [] a \in S -> 1 [] OTHER -> 0]

BagAndMoney == Bring(2, 1, {})
OnlyMoney == Bring(3, 0, {})
TwoBags == Bring(0, 2, {})
Arms == Bring(0, 0, {corpse, sword, axe})
AllSupplies == {BagAndMoney, OnlyMoney, TwoBags, Arms}

Players == Permutations({p1, p2})

-----------------------------------------------------------------------------
\* Two hunters, one with a summon.
CONSTANTS h1, h2, pet, prey, nature
Masters == [a \in {h1, h2, pet} |-> IF a = pet THEN h1 ELSE a]

\* An attack that needs the foe near and comes every five units, one that comes every fifteen.
TwoAttacks == <<[speed |-> 5, range |-> 1], [speed |-> 15, range |-> 0]>>
OneDefense == <<4>>
TwoSummons == <<2, 5>>
BagOfTwo == <<None, 2>>

\* Files: one that says nothing, one that cannot be read, one with odd numbers, and one with
\* spells of the players and the looks of another kind.
Spell(n) ==
    [name |-> n, speed |-> None, chance |-> None, range |-> None, min |-> None, max |-> None, radius |-> None,
     length |-> None, target |-> FALSE, change |-> None, as |-> "rat", poison |-> FALSE, start |-> None]
Silent ==
    [readable |-> TRUE, static |-> None, distance |-> None, change |-> None, look |-> None, immunities |-> {},
     attacks |-> <<>>, defenses |-> <<>>, voices |-> 0, loot |-> <<>>, summons |-> 0, max |-> None]
Odd ==
    [Silent EXCEPT !.static = 300, !.distance = 0, !.change = -1, !.look = 5,
        !.immunities = {"physical", "fire", "drunk"},
        !.attacks = <<[Spell("melee") EXCEPT !.poison = TRUE, !.speed = 0, !.range = 7],
                      [Spell("poisoncondition") EXCEPT !.chance = 101, !.range = 90, !.min = -40, !.max = -20,
                                                       !.start = 30, !.radius = 3]>>,
        !.voices = 1, !.loot = <<[id |-> 0, countmax |-> 3], [id |-> 7, countmax |-> 200]>>,
        !.summons = 1, !.max = 500]
Mage ==
    [Silent EXCEPT !.attacks = <<Spell("shared"), [Spell("outfit") EXCEPT !.as = "orc"], Spell("nonsense")>>,
        !.defenses = <<[Spell("speed") EXCEPT !.change = 300],
                       [Spell("speed") EXCEPT !.change = -3000, !.length = 4]>>]
FourSheets == {Silent, [Silent EXCEPT !.readable = FALSE], Odd, Mage}
SomeLists == {<<"orc", "rat">>, <<"rat">>, <<"rat", "orc", "elf">>}

-----------------------------------------------------------------------------
Parts == {"items", "acts", "blows", "beasts", "kinds"}

\* A part that does not run rests in one of its initial states.
DeedsInit ==
    /\ part \in Parts
    /\ IF part = "kinds" THEN TRUE
       ELSE sheets = [n \in Name |-> Silent] /\ listing = [entries |-> <<"rat">>, sound |-> TRUE]
    /\ IF part = "items" THEN TRUE ELSE pos = [p \in Player |-> 10]
    /\ IF part = "acts" THEN TRUE ELSE spot = [me |-> 0, other |-> 1] /\ stuff = [at |-> 0, sprite |-> 1]
    /\ Init /\ ActsInit /\ BlowsInit /\ BeastsInit /\ BestiaryInit
    /\ part # "blows" => victim.kind = "player" /\ ~victim.shield

DeedsNext ==
    \/ part = "items" /\ Next /\ UNCHANGED <<part, actVars, blowVars, beastVars, bestiaryVars>>
    \/ part = "acts" /\ ActNext /\ UNCHANGED <<part, vars, blowVars, beastVars, bestiaryVars>>
    \/ part = "blows" /\ BlowNext /\ UNCHANGED <<part, vars, actVars, beastVars, bestiaryVars>>
    \/ part = "beasts" /\ BeastNext /\ UNCHANGED <<part, vars, actVars, blowVars, bestiaryVars>>
    \/ part = "kinds" /\ BestiaryNext /\ UNCHANGED <<part, vars, actVars, blowVars, beastVars>>

DeedsSpec == DeedsInit /\ [][DeedsNext]_<<part, vars, actVars, blowVars, beastVars, bestiaryVars>>

\* Every variable of the parts has its type.
DeedsTypeOK == TypeOK /\ ActsTypeOK /\ BlowsTypeOK /\ BeastsTypeOK /\ BestiaryTypeOK

\* Monsters keep their pace and their summons, and what a name stands for outlives a reload
\* (monster.cpp:796, monsters.cpp:724).
MonstersHold == BeastsKeepPace /\ KindsHold

\* A deed is the one that was ordered, and a blow is booked to who dealt it
\* (player.cpp:3231, creature.cpp:717).
DeedsCount == ActsAsOrdered /\ BlowsCount
=============================================================================
