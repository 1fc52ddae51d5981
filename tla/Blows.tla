-------------------------------- MODULE Blows --------------------------------
(***************************************************************************)
(* Blows and what becomes of them (game.cpp combatChangeHealth and         *)
(* combatChangeMana, creature.cpp, player.cpp): immunity, defense, armor,  *)
(* what worn items absorb, the mana shield, the damage that is booked for  *)
(* each attacker, and the experience that is shared by the book when a     *)
(* monster dies.                                                           *)
(***************************************************************************)
EXTENDS Integers, FiniteSets, FiniteSetsExt

CONSTANTS Striking,     \* players and summons that attack, creature ids
          MasterOf,     \* the player of a summon; players are their own
          Victim,       \* the creature that is attacked, which may hurt itself
          Nature,       \* no creature: a trap, a fall, a condition of nobody
          FullHealth, FullMana,
          Damage,       \* the strengths of blows
          Defense, Armor,
          Absorb,       \* absorbPercentAll of the items a player wears
          Prize,        \* getLostExperience times the rate
          Draws,        \* bloodHitCount after a hit, 30 in the code
          MaxHealed     \* bound on the history of healing

Anyone == Striking \cup {Victim}

ASSUME BlowsAssumption ==
    /\ {FullHealth, Prize, Draws} \subseteq Nat \ {0} /\ {FullMana, Defense, Armor, MaxHealed} \subseteq Nat
    /\ Damage \subseteq Nat \ {0} /\ Absorb \in 0 .. 200
    /\ MasterOf \in [Striking -> Striking] /\ Victim \notin Striking /\ Nature \notin Anyone

VARIABLES
    victim,     \* the victim: kind, health, mana, mana shield, blockCount
    damageMap,  \* what each attacker did to it
    gone,       \* attackers that are not in the game any more
    gained,     \* the experience each player got at its death
    practice,   \* bloodHitCount of the one who practises, and history: tries since blood
    healed      \* history: health that was given back, and taken by nobody

blowVars == <<victim, damageMap, gone, gained, practice, healed>>

BlowsTypeOK ==
    /\ victim.kind \in {"player", "monster"} /\ victim.health \in 0 .. FullHealth
    /\ victim.mana \in 0 .. FullMana /\ victim.shield \in BOOLEAN /\ victim.block \in 0 .. 2
    /\ victim.dead \in BOOLEAN
    /\ damageMap \in [Anyone -> Nat] /\ gone \subseteq Striking /\ gained \in [Striking -> Nat]
    /\ practice \in [blood : 0 .. Draws, tries : Nat] /\ healed \in [up : Nat, down : Nat]

BlowsInit ==
    /\ victim \in [kind : {"player", "monster"}, health : {FullHealth}, mana : {FullMana},
                   shield : BOOLEAN, block : {0}, dead : {FALSE}]
    /\ victim.kind = "monster" => ~victim.shield
    /\ damageMap = [a \in Anyone |-> 0] /\ gone = {} /\ gained = [a \in Striking |-> 0]
    /\ practice = [blood |-> 0, tries |-> 0] /\ healed = [up |-> 0, down |-> 0]

-----------------------------------------------------------------------------

Less(a, b) == IF a < b THEN a ELSE b
AtLeastZero(a) == IF a < 0 THEN 0 ELSE a

\* Creature::blockHit: twice a second at most the victim parries, and what its defense and
\* then its armor leave of the blow hits.
BlockHit(damage, immune, checkDefense, checkArmor) ==
    LET parries == (checkDefense \/ checkArmor) /\ victim.block > 0
        behindDefense == IF parries /\ checkDefense THEN damage - Defense ELSE damage
        behindArmor == IF parries /\ checkArmor THEN behindDefense - Armor ELSE behindDefense
    IN  [block |-> IF parries THEN victim.block - 1 ELSE victim.block,
         type |-> IF immune THEN "immunity"
                  ELSE IF behindDefense <= 0 THEN "defense"
                  ELSE IF behindArmor <= 0 THEN "armor" ELSE "none",
         damage |-> IF immune THEN 0 ELSE AtLeastZero(behindArmor)]

\* Player::blockHit: worn items absorb a part, rounded up.
Absorbed(hit) ==
    LET left == -((-hit.damage * (100 - Absorb)) \div 100)
    IN  IF victim.kind # "player" \/ hit.type # "none" THEN hit
        ELSE [hit EXCEPT !.damage = AtLeastZero(left), !.type = IF left <= 0 THEN "defense" ELSE "none"]

\* Player::onAttackedCreatureBlockHit, before the worn items are asked; then
\* Weapon::onUsedWeapon counts a try if the skill point is one.
Practised(hit) ==
    CASE hit.type = "none" -> [blood |-> Draws, tries |-> 0]
      [] hit.type \in {"defense", "armor"} ->
            IF practice.blood > 0 THEN [blood |-> practice.blood - 1, tries |-> practice.tries + 1]
            ELSE practice
      [] OTHER -> practice

\* Mutation: what the blow could have done is booked, not what it did.
BookedWhole(a, damage, taken) == [damageMap EXCEPT ![a] = @ + damage]

\* Creature::drainHealth and addDamagePoints: nobody is not booked.
BookedTo(a, damage, taken) == [damageMap EXCEPT ![a] = @ + taken]

Strike(a, damage, block) ==
    LET toMana == IF victim.shield THEN Less(victim.mana, damage) ELSE 0
        taken == Less(victim.health, damage - toMana)
    IN  /\ victim' = [victim EXCEPT !.mana = @ - toMana, !.health = @ - taken, !.block = block]
        /\ IF a = Nature
           THEN healed' = [healed EXCEPT !.down = @ + taken] /\ UNCHANGED damageMap
           ELSE damageMap' = BookedTo(a, damage - toMana, taken) /\ UNCHANGED healed

\* What comes of blows of any strength, type and manner.
Hits == {BlockHit(d, immune, checkDefense, checkArmor) :
            d \in Damage, immune \in BOOLEAN, checkDefense \in BOOLEAN, checkArmor \in BOOLEAN}

\* Game::combatChangeHealth with damage.
CombatDamage ==
    /\ ~victim.dead
    /\ \E hit \in Hits, a \in (Anyone \ gone) \cup {Nature} : \E after \in {Absorbed(hit)} :
        /\ IF after.type = "none" THEN Strike(a, after.damage, hit.block)
           ELSE victim' = [victim EXCEPT !.block = hit.block] /\ UNCHANGED <<damageMap, healed>>
        /\ practice' = IF a \in Striking /\ MasterOf[a] = a THEN Practised(hit) ELSE practice
    /\ UNCHANGED <<gone, gained>>

\* combatChangeHealth with healing, and regeneration.
CombatHeal ==
    /\ ~victim.dead /\ victim.health > 0
    /\ \E d \in Damage :
        LET given == Less(d, FullHealth - victim.health)
        IN  /\ healed.up + given <= MaxHealed
            /\ victim' = [victim EXCEPT !.health = @ + given]
            /\ healed' = [healed EXCEPT !.up = @ + given]
    /\ UNCHANGED <<damageMap, gone, gained, practice>>

\* Game::combatChangeMana, with more or less mana.
CombatChangeMana ==
    /\ ~victim.dead
    /\ \/ victim' = [victim EXCEPT !.mana = FullMana]
       \/ \E d \in Damage : victim' = [victim EXCEPT !.mana = @ - Less(@, d)]
    /\ UNCHANGED <<damageMap, gone, gained, practice, healed>>

\* Creature::onThinkAttacking gives a parry each second, two at most.
BlockTicks ==
    /\ ~victim.dead /\ victim' = [victim EXCEPT !.block = Less(@ + 1, 2)]
    /\ UNCHANGED <<damageMap, gone, gained, practice, healed>>

\* An attacker leaves the game; its place in the book stays.
Leave ==
    /\ ~victim.dead
    /\ \E a \in Striking \ gone : gone' = gone \cup {a}
    /\ UNCHANGED <<victim, damageMap, gained, practice, healed>>

-----------------------------------------------------------------------------

\* Creature::getDamageRatio and getGainedExperience, rounded down.
TotalDamage == MapThenSumSet(LAMBDA a : damageMap[a], Anyone)
GetGainedExperience(a) == (damageMap[a] * Prize) \div TotalDamage

\* Creature::onGainExperience: a summon hands half of its share to its master.
Shared(a) == IF MasterOf[a] = a THEN GetGainedExperience(a) ELSE GetGainedExperience(a) \div 2

\* Creature::die of a monster, once it has no health left: everyone in the book who is still
\* in the game gets a share.  A player leaves none of it where fighting is not enforced.
Die ==
    /\ ~victim.dead /\ victim.health = 0
    /\ victim' = [victim EXCEPT !.dead = TRUE]
    /\ gained' = IF victim.kind = "player" THEN gained
                 ELSE [p \in Striking |->
                        MapThenSumSet(Shared, {a \in Striking \ gone : MasterOf[a] = p /\ damageMap[a] > 0})]
    /\ UNCHANGED <<damageMap, gone, practice, healed>>

BlowNext ==
    \/ CombatDamage \/ CombatHeal \/ CombatChangeMana \/ BlockTicks \/ Leave \/ Die

-----------------------------------------------------------------------------

\* Every point of health is accounted for: what the attackers are booked for is what the
\* victim lost to them, however blows, parries, shields and healing follow each other
\* (creature.cpp:717, game.cpp:3041).
BookExact ==
    MapThenSumSet(LAMBDA a : damageMap[a], Anyone) + healed.down = FullHealth - victim.health + healed.up

\* No more experience is paid out than the monster was worth, with summons and masters and
\* with those that left, and whoever hurt it alone and stayed gets all of it.
SharesExact ==
    victim.dead /\ victim.kind = "monster" =>
        /\ MapThenSumSet(LAMBDA a : gained[a], Striking) <= Prize
        /\ \A a \in Striking \ gone :
            MasterOf[a] = a /\ damageMap[a] > 0 /\ (\A b \in Anyone \ {a} : damageMap[b] = 0) => gained[a] = Prize

\* Who never draws blood does not practise for ever (player.cpp:1514).
NoIdlePractice == practice.tries <= Draws

BlowsCount == BookExact /\ SharesExact /\ NoIdlePractice
=============================================================================
