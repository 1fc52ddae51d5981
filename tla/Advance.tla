-------------------------------- MODULE Advance --------------------------------
(***************************************************************************)
(* What a player advances in and what a death takes: level and experience, *)
(* magic level and mana spent, a skill and its tries (player.cpp,          *)
(* vocation.cpp).  The requirements are those of one vocation; mana,       *)
(* capacity and the other skills go the way of health and of one skill.    *)
(***************************************************************************)
EXTENDS Integers, FiniteSetsExt

CONSTANTS TopLevel, TopMagic, TopSkill,    \* bounds
          ExpForLv,        \* Player::getExpForLv
          ReqMana,         \* Vocation::getReqMana
          ReqSkillTries,   \* Vocation::getReqSkillTries, from skill level 10
          HPGain,          \* Vocation::getHPGain, by vocation
          FirstHealth,     \* at level 1
          LostPercent,     \* Vocation::getDiePercent
          Gains            \* bound: what is gained at once, times the rate

ASSUME AdvanceAssumption ==
    /\ ExpForLv \in [1 .. TopLevel + 1 -> Nat] /\ ExpForLv[1] = 0
    /\ \A n \in 1 .. TopLevel : ExpForLv[n] < ExpForLv[n + 1]
    /\ ReqMana \in [1 .. TopMagic + 1 -> Nat \ {0}]
    /\ ReqSkillTries \in [10 .. TopSkill + 1 -> Nat \ {0}]
    /\ \A v \in DOMAIN HPGain : HPGain[v] \in Nat /\ HPGain[v] < FirstHealth
    /\ LostPercent \in 0 .. 99 /\ Gains \subseteq Nat \ {0}
    /\ \A g \in Gains : \A n \in 1 .. TopMagic + 1 : g < ReqMana[n]

VARIABLES
    sheet,    \* the numbers of the player object
    due       \* history: what tries and mana add up to, and its vocations

advanceVars == <<sheet, due>>

Vocation == DOMAIN HPGain

AdvanceTypeOK ==
    /\ sheet \in [level : 1 .. TopLevel, experience : Nat, healthMax : Nat, alive : BOOLEAN,
                  vocation : Vocation, magLevel : 0 .. TopMagic, manaSpent : Nat,
                  skill : 10 .. TopSkill, tries : Nat]
    /\ due \in [tries : Nat, mana : Nat, vocations : SUBSET Vocation]

-----------------------------------------------------------------------------

\* Mutation: a level needs more than its experience.
LevelBeyond(exp) == Max({n \in 1 .. TopLevel + 1 : ExpForLv[n] < exp} \cup {1})

\* The loops over getExpForLv in addExperience and preSave.
LevelReached(exp) == Max({n \in 1 .. TopLevel + 1 : ExpForLv[n] <= exp})
Share(total) == (total * LostPercent) \div 100

TriesUpTo(s) == MapThenSumSet(LAMBDA c : ReqSkillTries[c], 11 .. s)
ManaUpTo(m) == MapThenSumSet(LAMBDA c : ReqMana[c], 1 .. m)

\* Player::addExperience raises level by level; it never lowers one.
AddExperience(exp) ==
    LET new == LevelReached(sheet.experience + exp)
        up == IF new > sheet.level THEN new - sheet.level ELSE 0
    IN  /\ sheet.alive /\ new <= TopLevel
        /\ sheet' = [sheet EXCEPT !.experience = @ + exp, !.level = @ + up,
                                  !.healthMax = @ + up * HPGain[sheet.vocation]]
        /\ UNCHANGED due

\* Player::addSkillAdvance: the tries that are over at an advance are forfeited.
AddSkillAdvance(count) ==
    LET tries == sheet.tries + count
        need == ReqSkillTries[sheet.skill + 1]
        up == tries >= need
    IN  /\ sheet.alive /\ sheet.skill < TopSkill
        /\ sheet' = [sheet EXCEPT !.skill = IF up THEN @ + 1 ELSE @,
                                  !.tries = IF up THEN 0 ELSE tries]
        /\ due' = [due EXCEPT !.tries = IF up THEN TriesUpTo(sheet.skill + 1) ELSE @ + count]

\* Player::addManaSpent advances once, and keeps what is over.
AddManaSpent(amount) ==
    LET spent == sheet.manaSpent + amount
        need == ReqMana[sheet.magLevel + 1]
    IN  /\ sheet.alive /\ sheet.magLevel < TopMagic
        /\ sheet' = [sheet EXCEPT !.magLevel = IF spent >= need THEN @ + 1 ELSE @,
                                  !.manaSpent = IF spent >= need THEN spent - need ELSE spent]
        /\ due' = [due EXCEPT !.mana = @ + amount]

\* /addskill: what is missing to the next level, magic level or skill level.
AddSkillLevel(what) ==
    CASE what = "level" -> AddExperience(ExpForLv[sheet.level + 1] - sheet.experience)
      [] what = "magic" -> AddManaSpent(ReqMana[sheet.magLevel + 1] - sheet.manaSpent)
      [] what = "skill" -> AddSkillAdvance(ReqSkillTries[sheet.skill + 1])

\* Player::setVocation, also when premium time is over.  Bound: once.
SetVocation(v) ==
    /\ sheet.alive /\ due.vocations = {sheet.vocation}
    /\ sheet' = [sheet EXCEPT !.vocation = v]
    /\ due' = [due EXCEPT !.vocations = @ \cup {v}]

\* The loops of Player::die: levels are given back as long as they are needed.
LoseMana[lost \in Nat, at \in Int \X Int] ==
    IF lost > at[2] THEN LoseMana[lost - at[2], <<at[1] - 1, ReqMana[at[1]]>>]
    ELSE <<at[1], at[2] - lost>>

LoseTries[lost \in Nat, at \in Nat \X Nat] ==
    IF lost <= at[2] THEN <<at[1], at[2] - lost>>
    ELSE IF at[1] > 10 THEN LoseTries[lost - at[2], <<at[1] - 1, ReqSkillTries[at[1]]>>]
    ELSE <<10, 0>>

\* Player::die.
DeathPenalty ==
    LET mana == LoseMana[Share(ManaUpTo(sheet.magLevel) + sheet.manaSpent),
                         <<sheet.magLevel, sheet.manaSpent>>]
        skill == LoseTries[Share(TriesUpTo(sheet.skill) + sheet.tries), <<sheet.skill, sheet.tries>>]
    IN  /\ sheet.alive
        /\ sheet' = [sheet EXCEPT !.alive = FALSE, !.magLevel = mana[1], !.manaSpent = mana[2],
                                  !.skill = skill[1], !.tries = skill[2]]
        /\ due' = [due EXCEPT !.mana = @ - Share(@), !.tries = @ - Share(@)]

\* Player::preSave of a dead player; levels go while the experience is too low.
PreSave ==
    LET left == sheet.experience - Share(sheet.experience)
        new == IF LevelReached(left) < sheet.level THEN LevelReached(left) ELSE sheet.level
        least == sheet.healthMax - (sheet.level - new) * HPGain[sheet.vocation]
    IN  /\ ~sheet.alive
        /\ sheet' = [sheet EXCEPT !.alive = TRUE, !.experience = left, !.level = new,
                                  !.healthMax = IF least > 0 THEN least ELSE 0]
        /\ UNCHANGED due

AdvanceInit ==
    /\ sheet \in [level : {1}, experience : {0}, healthMax : {FirstHealth}, alive : {TRUE},
                  vocation : Vocation, magLevel : {0}, manaSpent : {0},
                  skill : {10}, tries : {0}]
    /\ due = [tries |-> 0, mana |-> 0, vocations |-> {sheet.vocation}]

AdvanceNext ==
    \/ \E g \in Gains : AddExperience(g) \/ AddSkillAdvance(g) \/ AddManaSpent(g)
    \/ \E what \in {"level", "magic", "skill"} : AddSkillLevel(what)
    \/ \E v \in Vocation : SetVocation(v)
    \/ DeathPenalty \/ PreSave

AdvanceSpec == AdvanceInit /\ [][AdvanceNext]_advanceVars

-----------------------------------------------------------------------------

\* Gains and losses keep the books: the level is the one the experience is enough
\* for, levels, mana and tries add up to what was gained less exactly the share of
\* each death, and the health of a player of one vocation is that of its level.
BooksKept ==
    /\ ExpForLv[sheet.level] <= sheet.experience
    /\ sheet.experience < ExpForLv[sheet.level + 1]
    /\ sheet.manaSpent < ReqMana[sheet.magLevel + 1]
    /\ ManaUpTo(sheet.magLevel) + sheet.manaSpent = due.mana
    /\ TriesUpTo(sheet.skill) + sheet.tries = due.tries
    /\ due.vocations = {sheet.vocation} =>
          sheet.healthMax = FirstHealth + (sheet.level - 1) * HPGain[sheet.vocation]

=============================================================================
