--------------------------------- MODULE Casts ---------------------------------
(***************************************************************************)
(* Spells, runes and weapons (spells.cpp, weapons.cpp): one player casts,  *)
(* conjures, summons, convinces and fights, and pays for it with mana,     *)
(* soul, charges, ammunition, exhaustion and a fight.  Every cast is one   *)
(* step under gameLock; the script of a spell runs in the middle of it and *)
(* may change the mana of the caster.                                      *)
(***************************************************************************)
EXTENDS Integers, FiniteSets, Folds, Functions

CONSTANTS FullMana, FullSoul,
          Cost,           \* of each kind: mana, soul, exhausts, aggressive
          MonsterMana,    \* what the monster that is summoned or convinced costs
          MaxSummons,     \* config
          Stock,          \* charges of the runes, arrows and spears at the beginning
          MaxCasts        \* bound: casts altogether, and the mana that comes and goes otherwise

\* Instants by their target: the caster, a player by name, a text, a place; what is
\* hard-coded; conjuring; runes; weapons.
Instant == {"own", "name", "text", "place"}
Art == Instant \cup {"summon", "food", "conjure", "rune", "convince", "wand", "bow", "spear"}
Weapon == {"wand", "bow", "spear"}

ASSUME CastsAssumption ==
    /\ {FullMana, FullSoul, MonsterMana, MaxSummons, Stock, MaxCasts} \subseteq Nat
    /\ Cost \in [Art -> [mana : Nat, soul : Nat, exhausts : BOOLEAN, aggressive : BOOLEAN]]

VARIABLES
    purse,      \* mana, soul and the conditions of the caster
    gear,       \* what he holds in his hands, and the charges and ammunition he has
    pets,       \* summons
    protected,  \* the caster has ACCESS_PROTECT
    tally       \* history: what was done of each kind and the mana its price was short of,
                \* what came and went otherwise, what scripts took where too little was left,
                \* what counted for the magic level, monsters for nothing and lost ones

castVars == <<purse, gear, pets, protected, tally>>

Hand == {"left", "right"}

CastTypeOK ==
    /\ purse \in [mana : 0 .. FullMana, soul : 0 .. FullSoul, exhausted : BOOLEAN, fighting : BOOLEAN]
    /\ gear.hands \in [Hand -> {"blank", "made"}]
    /\ gear.charges \in [{"rune", "convince", "bow", "spear"} -> 0 .. Stock]
    /\ gear.food \in Nat /\ gear.packed \in Nat /\ gear.thrown \in 0 .. Stock
    /\ pets \in 0 .. MaxSummons + 1 /\ protected \in BOOLEAN
    /\ tally.done \in [Art -> 0 .. MaxCasts + 1] /\ tally.spent \in Nat
    /\ tally.short \in [Art -> Nat] /\ tally.took \in Nat
    /\ tally.other \in Int /\ tally.free \in Nat /\ tally.died \in Nat

CastInit ==
    /\ purse = [mana |-> FullMana, soul |-> FullSoul, exhausted |-> FALSE, fighting |-> FALSE]
    /\ gear = [hands |-> [h \in Hand |-> "blank"], food |-> 0, packed |-> 0, thrown |-> 0,
               charges |-> [k \in {"rune", "convince", "bow", "spear"} |-> Stock]]
    /\ pets = 0 /\ protected \in BOOLEAN
    /\ tally = [done |-> [k \in Art |-> 0], short |-> [k \in Art |-> 0], spent |-> 0, other |-> 0,
                took |-> 0, free |-> 0, died |-> 0]

CastsMade == FoldFunction(+, 0, tally.done)
CanCast == CastsMade + tally.free < MaxCasts /\ tally.other \in -MaxCasts .. MaxCasts    \* bounds

-----------------------------------------------------------------------------

\* Spell::playerSpellCheck.  The player has the vocation and the level, and is not in a
\* protection zone: where he may not cast at all nothing happens.
PlayerSpellCheck(p, k) ==
    protected \/ (~p.exhausted /\ p.mana >= Cost[k].mana /\ p.soul >= Cost[k].soul)

\* Weapon::playerWeaponCheck, which does not ask whether one is exhausted.
PlayerWeaponCheck(p, k) == protected \/ (p.mana >= Cost[k].mana /\ p.soul >= Cost[k].soul)

\* The tile of a spell at a place, or the player of a name, may not be one it can reach.
Reachable == BOOLEAN

Reduced(have, cost) == IF have >= cost THEN have - cost ELSE 0

\* Spell::postCastSpell(player, manaCost, soulCost).
Pay(p, mana, soul) ==
    IF protected THEN p ELSE [p EXCEPT !.mana = Reduced(@, mana), !.soul = Reduced(@, soul)]

\* Spell::postCastSpell(player).
PostCast(p, k) ==
    IF protected THEN p
    ELSE [Pay(p, Cost[k].mana, Cost[k].soul)
            EXCEPT !.exhausted = @ \/ Cost[k].exhausts, !.fighting = @ \/ Cost[k].aggressive]

\* addManaSpent: what counts is the cost, whatever was left of the mana.
Credited(t, k, mana) ==
    [t EXCEPT !.done[k] = @ + 1, !.spent = @ + (IF protected THEN 0 ELSE mana)]

\* The script of a spell runs: it may change the mana of the caster, and it may fail.
Script(p) == {[p EXCEPT !.mana = m] : m \in {p.mana, Reduced(p.mana, 1), FullMana}}

\* The mana that came or went in the script, and what was then missing for the price.
Otherwise(t, p, q, k, mana) ==
    LET missing == IF protected THEN 0 ELSE Reduced(mana, q.mana)
    IN  [t EXCEPT !.other = @ + (q.mana - p.mana), !.short[k] = @ + missing,
                  !.took = @ + (IF missing > 0 THEN Reduced(p.mana, q.mana) ELSE 0)]

\* InstantSpell::playerCastInstant.  A spell for oneself asks for nothing more; one for
\* a name or a place asks whether it can be reached; hard-coded ones may not be possible.
PlayerCastInstant(k) ==
    /\ CanCast /\ PlayerSpellCheck(purse, k)
    /\ k \in Instant
    /\ \E reach \in Reachable, q \in Script(purse), result \in BOOLEAN :
        /\ reach \/ k \in {"own", "text"}
        /\ purse' = IF result THEN PostCast(q, k) ELSE q
        /\ tally' = IF result THEN Credited(Otherwise(tally, purse, q, k, Cost[k].mana), k, Cost[k].mana)
                    ELSE [tally EXCEPT !.other = @ + (q.mana - purse.mana)]
    /\ UNCHANGED <<gear, pets, protected>>

\* InstantSpell::SummonMonster: it pays for the monster, and playerCastInstant pays for
\* the spell: the soul is paid twice.
SummonMonster ==
    /\ CanCast /\ PlayerSpellCheck(purse, "summon")
    /\ purse.mana >= MonsterMana /\ pets < MaxSummons
    /\ purse' = PostCast(Pay(purse, MonsterMana, Cost["summon"].soul), "summon")
    /\ pets' = pets + 1
    /\ LET mana == MonsterMana + Cost["summon"].mana
       IN  tally' = Credited(Otherwise(tally, purse, purse, "summon", mana), "summon", mana)
    /\ UNCHANGED <<gear, protected>>

\* ConjureSpell::ConjureFood.
ConjureFood ==
    /\ CanCast /\ PlayerSpellCheck(purse, "food")
    /\ purse' = PostCast(purse, "food")
    /\ gear' = [gear EXCEPT !.food = @ + 1]
    /\ tally' = Credited(tally, "food", Cost["food"].mana)
    /\ UNCHANGED <<pets, protected>>

\* Mutation: a hand without the reagent is paid for as well.
MadePaidAnyway(s, h) ==
    [hands |-> IF s.hands[h] = "blank" THEN [s.hands EXCEPT ![h] = "made"] ELSE s.hands,
     purse |-> PostCast(s.purse, "conjure"), tally |-> Credited(s.tally, "conjure", Cost["conjure"].mana)]

\* internalConjureItem in a hand, and its price.
Made(s, h) ==
    IF s.hands[h] # "blank" THEN s
    ELSE [hands |-> [s.hands EXCEPT ![h] = "made"],
          purse |-> PostCast(s.purse, "conjure"), tally |-> Credited(s.tally, "conjure", Cost["conjure"].mana)]

\* ConjureSpell::ConjureItem with a reagent: the left hand, the check again, the right hand.
ConjureItem ==
    /\ CanCast /\ PlayerSpellCheck(purse, "conjure")
    /\ LET s == [hands |-> gear.hands, purse |-> purse, tally |-> tally]
           left == Made(s, "left")
           both == IF PlayerSpellCheck(left.purse, "conjure") THEN Made(left, "right") ELSE left
       IN  gear' = [gear EXCEPT !.hands = both.hands] /\ purse' = both.purse /\ tally' = both.tally
    /\ UNCHANGED <<pets, protected>>

\* The player takes a blank rune into a hand, and puts what he made away.
TakeBlank ==
    \E h \in Hand :
        /\ CanCast /\ gear.hands[h] # "blank"
        /\ gear' = [gear EXCEPT !.hands[h] = "blank", !.packed = @ + 1]
        /\ UNCHANGED <<purse, pets, protected, tally>>

\* RuneSpell::executeUse: check, script, price, and one charge of the rune.
ExecuteUse ==
    /\ CanCast /\ gear.charges["rune"] > 0 /\ PlayerSpellCheck(purse, "rune")
    /\ \E q \in Script(purse), result \in BOOLEAN :
        IF result
        THEN /\ purse' = PostCast(q, "rune")
             /\ gear' = [gear EXCEPT !.charges["rune"] = @ - 1]
             /\ tally' = Credited(Otherwise(tally, purse, q, "rune", Cost["rune"].mana), "rune", Cost["rune"].mana)
        ELSE /\ purse' = q /\ UNCHANGED gear
             /\ tally' = [tally EXCEPT !.other = @ + (q.mana - purse.mana)]
    /\ UNCHANGED <<pets, protected>>

\* RuneSpell::Convince, called by executeUse.  The monster follows its new master before
\* its mana is asked for; the soul is paid twice.
Convince ==
    /\ CanCast /\ gear.charges["convince"] > 0 /\ PlayerSpellCheck(purse, "convince")
    /\ protected \/ pets < MaxSummons
    /\ pets <= MaxSummons    \* bound, for who is protected
    /\ pets' = pets + 1
    /\ LET mana == MonsterMana + Cost["convince"].mana IN
       IF purse.mana < MonsterMana
       THEN /\ tally' = [tally EXCEPT !.free = @ + 1]
            /\ UNCHANGED <<purse, gear>>
       ELSE /\ purse' = PostCast(Pay(purse, MonsterMana, Cost["convince"].soul), "convince")
            /\ gear' = [gear EXCEPT !.charges["convince"] = @ - 1]
            /\ tally' = Credited(Otherwise(tally, purse, purse, "convince", mana), "convince", mana)
    /\ UNCHANGED protected

\* Weapon::internalUseWeapon and onUsedWeapon.  The result of a script is not asked for:
\* a wand and a bow are paid for when they are used.
UseWeapon(k) ==
    /\ CanCast /\ PlayerWeaponCheck(purse, k)
    /\ k # "wand" => gear.charges[k] > 0
    /\ \E q \in IF k = "wand" THEN Script(purse) ELSE {purse} :
        /\ purse' = [Pay(q, Cost[k].mana, Cost[k].soul)
                        EXCEPT !.exhausted = @ \/ (Cost[k].exhausts /\ ~protected)]
        /\ tally' = Credited(Otherwise(tally, purse, q, k, Cost[k].mana), k, Cost[k].mana)
    /\ CASE k = "bow" -> gear' = [gear EXCEPT !.charges[k] = @ - 1]
         [] k = "spear" -> gear' = [gear EXCEPT !.charges[k] = @ - 1, !.thrown = @ + 1]
         [] k = "wand" -> UNCHANGED gear
    /\ UNCHANGED <<pets, protected>>

\* The player picks up a spear, a pet dies, time passes, mana comes back, he walks.
PickUp ==
    /\ CanCast /\ gear.thrown > 0
    /\ gear' = [gear EXCEPT !.thrown = @ - 1, !.charges["spear"] = @ + 1]
    /\ UNCHANGED <<purse, pets, protected, tally>>

PetDies ==
    /\ CanCast /\ pets > 0 /\ pets' = pets - 1
    /\ tally' = [tally EXCEPT !.died = @ + 1]
    /\ UNCHANGED <<purse, gear, protected>>

Recover ==
    /\ CanCast
    /\ \/ purse.exhausted /\ purse' = [purse EXCEPT !.exhausted = FALSE] /\ UNCHANGED tally
       \/ purse.fighting /\ purse' = [purse EXCEPT !.fighting = FALSE] /\ UNCHANGED tally
       \/ /\ purse.mana < FullMana /\ purse' = [purse EXCEPT !.mana = @ + 1]
          /\ tally' = [tally EXCEPT !.other = @ + 1]
    /\ UNCHANGED <<gear, pets, protected>>

CastNext ==
    \/ \E k \in Instant : PlayerCastInstant(k)
    \/ SummonMonster \/ ConjureFood \/ ConjureItem \/ TakeBlank \/ ExecuteUse \/ Convince
    \/ \E k \in Weapon : UseWeapon(k)
    \/ PickUp \/ PetDies \/ Recover

-----------------------------------------------------------------------------

\* What the casts of all kinds cost: the monster comes on top of the spell.
Price(k) == Cost[k].mana + (IF k \in {"summon", "convince"} THEN MonsterMana ELSE 0)
Sum(price(_), kinds) == FoldFunctionOnSet(+, 0, [k \in Art |-> tally.done[k] * price(k)], kinds)

\* What may fall short of its price, since the mana is asked for before and taken, as far as
\* there is any, after: spells with a script, and those that pay twice.
Scripted == Instant \cup {"rune", "wand"}
Twice == {"summon", "convince"}
Short(kinds) == FoldFunctionOnSet(+, 0, tally.short, kinds)

\* The mana of the caster is what he had, less the price of what he cast, and what counted
\* for his magic level is the whole price: no way through the checks casts without paying,
\* pays without casting or counts twice.  Excepted are what a script takes out of the price
\* itself, and what a monster costs besides the spell that brings it, of which one was asked
\* for without the other; both are only missed by as much (spells.cpp:621-657, 844-898,
\* 1505-1606, 1779-1825; weapons.cpp:402-455).
ManaPaid ==
    LET price == IF protected THEN 0 ELSE Sum(Price, Art)
    IN  /\ purse.mana = FullMana + tally.other - (price - Short(Art)) /\ tally.spent = price
        /\ Short(Scripted) <= tally.took
        /\ \A k \in Twice : Short({k}) <= tally.done[k] * Cost[k].mana
        /\ Short(Art \ (Scripted \cup Twice)) = 0

\* The soul is paid once, by summoning and convincing once or twice.
SoulPaid ==
    LET Soul(k) == Cost[k].soul
        paid == FullSoul - purse.soul
    IN  IF protected THEN paid = 0
        ELSE Sum(Soul, Art) <= paid /\ paid <= Sum(Soul, Art) + Sum(Soul, {"summon", "convince"})

\* A charge, an arrow or a reagent goes with each use and with nothing else; spears are
\* thrown and not lost; a spell that conjures in both hands pays for each.  A monster is
\* one that was paid for, but for those convinced by who had not the mana: they are taken
\* first, and neither mana nor a charge is (spells.cpp:1737-1753).
GoodsPaid ==
    /\ \A k \in {"rune", "convince", "bow"} : gear.charges[k] + tally.done[k] = Stock
    /\ gear.charges["spear"] + gear.thrown = Stock
    /\ gear.packed + Cardinality({h \in Hand : gear.hands[h] = "made"}) = tally.done["conjure"]
    /\ gear.food = tally.done["food"]
    /\ pets + tally.died = tally.done["summon"] + tally.done["convince"] + tally.free
    /\ protected \/ pets <= MaxSummons

CastsPaid == ManaPaid /\ SoulPaid /\ GoodsPaid
=============================================================================
