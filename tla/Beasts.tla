------------------------------- MODULE Beasts -------------------------------
(***************************************************************************)
(* What a monster does by itself (monster.cpp, monsters.cpp): the pace of  *)
(* its attacks, defenses, summons and voices, the ones that are made       *)
(* summons of somebody else, how it makes its way, how it comes back       *)
(* nowhere when it strays, and what its corpse holds.                      *)
(***************************************************************************)
EXTENDS Integers, SequencesExt, FiniteSetsExt

CONSTANTS Interval,      \* milliseconds between two thoughts, in some unit
          Attacks,       \* spellAttackList: speed and range, in the order of the file
          Defenses,      \* spellDefenseList: speeds
          SummonSpeeds,  \* summonList: speeds
          MaxSummons,    \* of the kind
          YellSpeed, ThinkPause, ChangeSpeed,
          Pet,           \* monsters that may be summoned
          Loot,          \* lootItems: the number of items in each, Plain for one that is no bag
          Plain,         \* no number
          CorpseSize     \* capacity of the corpse

ASSUME BeastsAssumption ==
    /\ {Interval, CorpseSize, ThinkPause} \subseteq Nat \ {0} /\ {MaxSummons, YellSpeed, ChangeSpeed} \subseteq Nat
    /\ \A i \in DOMAIN Attacks : Attacks[i].speed \in Nat \ {0} /\ Attacks[i].range \in Nat
    /\ Range(Defenses) \cup Range(SummonSpeeds) \subseteq Nat \ {0}

VARIABLES
    beast,    \* the monster: its counters of ticks, spellBonusAttack, createLoot, what it is
    foe,      \* attackedCreature: none, itself, or how far it is
    mine,     \* summons of the monster
    his,      \* summons of the player
    master,   \* the master of each monster that may be summoned
    inGame,   \* those that are in the game
    round,    \* history: time and casts since attackTicks was last zero
    remains    \* what lies in its corpse

beastVars == <<beast, foe, mine, his, master, inGame, round, remains>>

Foes == {"none", "itself", "near", "far"}
NewRound(owed) == [time |-> 0, casts |-> [i \in DOMAIN Attacks |-> 0], owed |-> owed, over |-> FALSE]

BeastsInit ==
    /\ beast = [attack |-> 0, bonus |-> FALSE, defense |-> 0, yell |-> 0, think |-> 0, change |-> 0,
                loots |-> TRUE, tame |-> FALSE, there |-> TRUE, alive |-> TRUE]
    /\ foe = "none" /\ mine = {} /\ his = {} /\ master = [p \in Pet |-> "none"] /\ inGame = {}
    /\ round = NewRound(0) /\ remains = <<>>

BeastsTypeOK ==
    /\ {beast.attack, beast.defense, beast.yell, beast.change} \subseteq Nat /\ beast.think \in Int
    /\ {beast.bonus, beast.loots, beast.tame, beast.there, beast.alive} \subseteq BOOLEAN
    /\ foe \in Foes /\ mine \subseteq Pet /\ his \subseteq Pet /\ inGame \subseteq Pet
    /\ master \in [Pet -> {"none", "beast", "player"}]
    /\ round.time \in Nat /\ round.owed \in Nat /\ round.casts \in [DOMAIN Attacks -> Nat]
    /\ \A i \in DOMAIN remains : remains[i] \in Nat \cup {Plain}

-----------------------------------------------------------------------------

\* Mutation: once its interval is over a spell comes with every thought.
TurnEachThought(st, i, lucky) ==
    LET s == Attacks[i]
        far == s.range # 0 /\ foe = "far"
    IN  IF s.speed > st.ticks THEN [st EXCEPT !.reset = FALSE]
        ELSE IF far THEN [st EXCEPT !.bonus = TRUE, !.owed = IF st.bonus THEN @ ELSE @ + 1]
        ELSE IF lucky[i] THEN [st EXCEPT !.casts[i] = @ + 1, !.bonus = FALSE] ELSE st

\* One spell of Monster::doAttacking: its turn comes once in its interval, or when an earlier
\* one was out of reach.
Turn(st, i, lucky) ==
    LET s == Attacks[i]
        far == s.range # 0 /\ foe = "far"
    IN  IF s.speed > st.ticks THEN [st EXCEPT !.reset = FALSE]
        ELSE IF st.ticks % s.speed >= Interval /\ ~st.bonus THEN st
        ELSE IF far THEN [st EXCEPT !.bonus = TRUE, !.owed = IF st.bonus THEN @ ELSE @ + 1]
        ELSE IF lucky[i] THEN [st EXCEPT !.casts[i] = @ + 1, !.bonus = FALSE] ELSE st

\* Monster::doAttacking.  A summon does not fight itself; a monster does so never otherwise.
DoAttacking ==
    /\ beast.alive /\ beast.there /\ foe # "none"
    /\ IF foe = "itself" THEN UNCHANGED <<beast, round>>
       ELSE LET r == IF round.over THEN NewRound(IF beast.bonus THEN 1 ELSE 0) ELSE round
                start == [ticks |-> beast.attack + Interval, bonus |-> beast.bonus, casts |-> r.casts,
                          owed |-> r.owed, reset |-> TRUE]
                Turns(lucky) == FoldLeft(LAMBDA s, i : Turn(s, i, lucky), start, [i \in DOMAIN Attacks |-> i])
            IN  \E st \in {Turns(lucky) : lucky \in [DOMAIN Attacks -> BOOLEAN]} :
                    /\ beast' = [beast EXCEPT !.bonus = st.bonus, !.attack = IF st.reset THEN 0 ELSE st.ticks]
                    /\ round' = [time |-> r.time + Interval, casts |-> st.casts, owed |-> st.owed, over |-> st.reset]
    /\ UNCHANGED <<foe, mine, his, master, inGame, remains>>

\* One entry of the summons in Monster::onDefending; a summon that finds no place is no summon.
Summons(st, speed, choice) ==
    IF speed > st.ticks THEN [st EXCEPT !.reset = FALSE]
    ELSE IF Cardinality(st.mine) >= MaxSummons \/ st.ticks % speed >= Interval \/ ~choice.lucky THEN st
    ELSE IF Pet \subseteq st.used \/ ~choice.placed THEN st
    ELSE LET p == CHOOSE p \in Pet \ st.used : TRUE
         IN  [st EXCEPT !.mine = @ \cup {p}, !.used = @ \cup {p}]

\* Monster::onDefending.
OnDefending(choice) ==
    LET ticks == beast.defense + Interval
        start == [ticks |-> ticks, mine |-> mine, used |-> inGame \cup mine \cup his,
                  reset |-> \A i \in DOMAIN Defenses : Defenses[i] <= ticks]
    IN  IF beast.tame \/ Cardinality(mine) >= MaxSummons THEN start
        ELSE FoldLeft(LAMBDA s, i : Summons(s, SummonSpeeds[i], choice), start, [i \in DOMAIN SummonSpeeds |-> i])

\* Monster::onThinkYell and onThinkChangeTarget, which rolls the dice as long as the time is
\* not up.
Yells == IF YellSpeed <= beast.yell + Interval THEN 0 ELSE beast.yell + Interval
ChangesTarget(thinks) ==
    thinks /\ ~beast.tame /\ foe # "none" /\ ChangeSpeed > 0 /\ ChangeSpeed >= beast.change + Interval

\* Monster::onThink; a monster of a spawn that strayed too far is taken away.
OnThink ==
    /\ beast.alive /\ beast.there
    /\ \E thinks \in {beast.think - Interval <= 0, TRUE} :
       \E leaves \in {FALSE, thinks /\ ~beast.tame},
          st \in {OnDefending(c) : c \in [lucky : BOOLEAN, placed : BOOLEAN]} :
        LET all == mine \cup st.mine
        IN  /\ beast' = [beast EXCEPT !.defense = IF st.reset THEN 0 ELSE st.ticks, !.yell = Yells,
                            !.think = IF thinks THEN ThinkPause ELSE @ - Interval,
                            !.change = IF ChangesTarget(thinks) THEN 0
                                       ELSE IF thinks /\ ~beast.tame /\ foe # "none" /\ beast.change <= ChangeSpeed
                                       THEN @ + Interval ELSE @,
                            !.there = ~leaves]
            /\ foe' \in IF leaves THEN {"none"} ELSE IF thinks THEN Foes \ {"itself"} ELSE {foe}
            /\ mine' = st.mine /\ master' = [p \in Pet |-> IF p \in st.mine THEN "beast" ELSE master[p]]
            /\ inGame' = IF leaves THEN inGame \ all ELSE inGame \cup (st.mine \ mine)
    /\ UNCHANGED <<his, round, remains>>

-----------------------------------------------------------------------------

\* The foe walks, or is dropped by the master or for one that cannot be seen
\* (Creature::setAttackedCreature); a tame monster may be sent at itself.
FoeMoves ==
    /\ beast.alive /\ beast.there /\ foe # "none"
    /\ foe' \in {"near", "far", "none"} \cup (IF beast.tame THEN {"itself"} ELSE {})
    /\ UNCHANGED <<beast, mine, his, master, inGame, round, remains>>

\* The foe is removed, is out of sight or comes where nobody fights (Creature::onCreatureMove,
\* onCreatureDisappear, Monster::onAttackedCreatureDissapear): a spell may come before its time.
FoeLost ==
    /\ beast.alive /\ beast.there /\ foe # "none"
    /\ foe' = "none"
    /\ beast' = [beast EXCEPT !.bonus = TRUE]
    /\ round' = [round EXCEPT !.owed = IF beast.bonus THEN @ ELSE @ + 1]
    /\ UNCHANGED <<mine, his, master, inGame, remains>>

\* Creature::removeSummon of the old master.
HandedOver(p) == mine \ {p}

\* Monster::convinceCreature of a summon of the monster, and of the monster itself.
ConvincePet ==
    /\ \E p \in inGame : /\ master[p] # "player"
                         /\ mine' = HandedOver(p) /\ his' = his \cup {p}
                         /\ master' = [master EXCEPT ![p] = "player"]
    /\ UNCHANGED <<beast, foe, inGame, round, remains>>

ConvinceBeast ==
    /\ beast.alive /\ beast.there /\ ~beast.tame
    /\ beast' = [beast EXCEPT !.tame = TRUE] /\ foe' = "none"
    /\ UNCHANGED <<mine, his, master, inGame, round, remains>>

\* Creature::die of a summon: its master forgets it.
PetDies ==
    /\ \E p \in inGame : /\ inGame' = inGame \ {p} /\ mine' = mine \ {p} /\ his' = his \ {p}
                         /\ master' = [master EXCEPT ![p] = "none"]
    /\ UNCHANGED <<beast, foe, round, remains>>

\* Monster::getNextStep of another monster that pushes this one out of its way: where it finds
\* no place it is killed.
PushedAway ==
    /\ beast.alive /\ beast.there /\ beast.loots
    /\ beast' = [beast EXCEPT !.loots = FALSE]
    /\ UNCHANGED <<foe, mine, his, master, inGame, round, remains>>

-----------------------------------------------------------------------------

\* MonsterType::createLootItem and createLootContainer: as many of the items in a bag as luck
\* gives, however many the bag holds.
LootBag(n) == 0 .. n

\* MonsterType::createLoot: until the corpse is full; a bag with nothing in it is left out.
CreateLoot(inside, lucky) ==
    LET Falls(i) == lucky[i] /\ inside[i] # 0
        falling == SelectSeq([i \in DOMAIN Loot |-> i], Falls)
        room == IF Len(falling) > CorpseSize THEN CorpseSize ELSE Len(falling)
    IN  [i \in 1 .. room |-> inside[falling[i]]]

\* The death of the monster, as Game::checkCreature carries it out: Monster::dropLoot, then
\* die; its summons go with it.
BeastDies ==
    /\ beast.alive /\ beast.there
    /\ \E inside \in {f \in [DOMAIN Loot -> {Plain} \cup 0 .. 2] :
                        \A i \in DOMAIN Loot : f[i] \in IF Loot[i] = Plain THEN {Plain} ELSE LootBag(Loot[i])},
          lucky \in [DOMAIN Loot -> BOOLEAN] :
        remains' = IF beast.loots /\ ~beast.tame THEN CreateLoot(inside, lucky) ELSE <<>>
    /\ beast' = [beast EXCEPT !.alive = FALSE, !.there = FALSE] /\ foe' = "none"
    /\ inGame' = inGame \ mine
    /\ UNCHANGED <<mine, his, master, round>>

BeastNext ==
    \/ DoAttacking \/ OnThink \/ FoeMoves \/ FoeLost \/ ConvincePet \/ ConvinceBeast \/ PetDies \/ PushedAway \/ BeastDies

-----------------------------------------------------------------------------

\* No spell is cast more often than its interval allows, except that once for each time a
\* spell was out of reach or the foe was lost one may come before its time (monster.cpp:107,
\* monster.cpp:798).
PaceKept ==
    MapThenSumSet(LAMBDA i : IF round.casts[i] > round.time \div Attacks[i].speed
                                            THEN round.casts[i] - (round.time \div Attacks[i].speed) ELSE 0,
                                DOMAIN Attacks) <= round.owed

\* A monster never has more summons than its kind allows, and each summon is in the list of
\* its master and of no other (monster.cpp:838, monster.cpp:1000).
SummonsKept ==
    /\ Cardinality(mine) <= MaxSummons
    /\ \A p \in Pet : (p \in mine <=> master[p] = "beast") /\ (p \in his <=> master[p] = "player")

\* What falls fits the corpse, no empty bag falls, and nothing at all from a summon or from
\* one that was trampled (monsters.cpp:117, monster.cpp:966).
LootKept ==
    /\ Len(remains) <= CorpseSize /\ 0 \notin Range(remains)
    /\ remains # <<>> => beast.loots /\ ~beast.tame

BeastsKeepPace == PaceKept /\ SummonsKept /\ LootKept
=============================================================================
