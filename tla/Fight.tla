--------------------------------- MODULE Fight ---------------------------------
(***************************************************************************)
(* Fights between players in a world of type "pvp": the fight condition,   *)
(* the lock out of protection zones, the skulls, who attacked whom, the    *)
(* unjustified deaths and what ends them (player.cpp, creature.cpp, the    *)
(* damage in game.cpp).  Health, amounts of damage and experience are left *)
(* out: a blow hurts or not and kills or not.  Time is counted in thoughts *)
(* of Player::onThink, one unit of redSkullTicks each.                     *)
(***************************************************************************)
EXTENDS Integers

CONSTANTS Fighter,       \* players; a login after a death gives a new creature id
          Fiend,         \* monsters that may be summons
          OwnerOf,       \* Creature::master of a fiend, NoOwner for none
          NoOwner,
          Gladiator,     \* bound: who enters an arena
          FightTime,     \* in_fight_duration, in thoughts
          WhiteTime,     \* of a killer
          FragTime,      \* of one unjustified death
          RedUnjust, BanUnjust

Striker == Fighter \cup Fiend

ASSUME FightAssumption ==
    /\ Fighter \cap Fiend = {} /\ NoOwner \notin Striker
    /\ OwnerOf \in [Fiend -> Fighter \cup {NoOwner}]
    /\ {FightTime, FragTime, RedUnjust, BanUnjust} \subseteq Nat \ {0}
    /\ WhiteTime \in Nat /\ RedUnjust <= BanUnjust

VARIABLES
    fighter,    \* what a player object keeps, see FighterRecord
    ring        \* where: the players in the game that stand on a tile without skulls

fightVars == <<fighter, ring>>

\* fight is what is left of CONDITION_INFIGHT; attacked is attackedSet, without the
\* ids of logins that are over; hurt is who is in damageMap; frags is redSkullTicks.
\* spared is history: a change of the skull was skipped since the last one.
FighterRecord ==
    [status : {"away", "banned", "well", "dead"}, skull : {"none", "white", "red"},
     fight : Nat, pzLocked : BOOLEAN, attacked : SUBSET Fighter,
     hurt : SUBSET Striker, lastHit : Striker \cup {NoOwner}, frags : Nat,
     inParty : BOOLEAN, spared : BOOLEAN]

FightTypeOK ==
    /\ fighter \in [Fighter -> FighterRecord]
    /\ ring \in SUBSET Fighter

Here(w) == {p \in Fighter : w[p].status \in {"well", "dead"}}

-----------------------------------------------------------------------------
(* The calls a blow and a death are made of.  w is the function of fighters. *)

\* Game::changeSkull does nothing on the tiles of an arena.
ChangeSkull(w, p, s) ==
    [w EXCEPT ![p] = IF p \in ring THEN [@ EXCEPT !.spared = TRUE]
                                   ELSE [@ EXCEPT !.skull = s, !.spared = FALSE]]

AddFight(w, p, time) == [w EXCEPT ![p].fight = IF @ > time THEN @ ELSE time]

OnAttacked(w, c) == IF c \in Fighter THEN AddFight(w, c, FightTime) ELSE w

Partners(w, p, t) == w[p].inParty /\ w[t].inParty

\* Player::onAttackedCreature.
OnAttackedCreature(w, p, t) ==
    LET blames == ~Partners(w, p, t) /\ p \notin w[t].attacked
        locked == [w EXCEPT ![p].pzLocked = TRUE]
        skulled == IF blames /\ w[t].skull = "none" /\ w[p].skull = "none"
                   THEN ChangeSkull(locked, p, "white") ELSE locked
        listed == IF blames THEN [skulled EXCEPT ![p].attacked = @ \cup {t}] ELSE skulled
    IN  AddFight(listed, p, FightTime)

\* Mutation: whom it attacked is forgotten only with the skull.
EndFightOfSkulled(w, p) ==
    LET over == [w EXCEPT ![p].hurt = {}, ![p].pzLocked = FALSE] IN
    IF over[p].skull # "white" THEN over
    ELSE ChangeSkull([over EXCEPT ![p].attacked = {}], p, "none")

\* Player::onEndCondition of CONDITION_INFIGHT.
EndFight(w, p) ==
    LET over == [w EXCEPT ![p].hurt = {}, ![p].pzLocked = FALSE] IN
    IF over[p].skull = "red" THEN over
    ELSE ChangeSkull([over EXCEPT ![p].attacked = {}], p, "none")

\* Player::preSave and the destructor: what is not saved is gone, and nobody
\* knows the next creature id.
Leaves(w, p, status) ==
    [q \in Fighter |->
        IF q = p THEN [w[p] EXCEPT !.status = status, !.fight = 0, !.pzLocked = FALSE,
                          !.attacked = {}, !.hurt = {}, !.lastHit = NoOwner,
                          !.skull = IF @ = "red" THEN @ ELSE "none",
                          !.inParty = FALSE, !.spared = FALSE]
        ELSE [w[q] EXCEPT !.attacked = @ \ {p}, !.hurt = @ \ {p},
                          !.lastHit = IF @ = p THEN NoOwner ELSE @]]

\* Player::addUnjustifiedDead: a ban also kicks.
AddUnjustifiedDead(w, p) ==
    LET counted == [w EXCEPT ![p].frags = @ + FragTime]
        red == IF counted[p].frags >= RedUnjust * FragTime
               THEN ChangeSkull(counted, p, "red") ELSE counted
    IN  IF red[p].frags >= BanUnjust * FragTime THEN Leaves(red, p, "banned") ELSE red

\* Player::onKilledCreature.
OnKilledPlayer(w, p, t) ==
    LET judged == IF /\ ~Partners(w, p, t) /\ p \notin w[t].attacked
                     /\ w[t].skull = "none" /\ p \notin ring
                  THEN AddUnjustifiedDead(w, p) ELSE w
    IN  IF judged[p].fight > 0 /\ p \notin ring
        THEN AddFight([judged EXCEPT ![p].pzLocked = TRUE], p, WhiteTime) ELSE judged

\* Creature::onKilledCreature tells the master.
OnKilled(w, c, t) ==
    LET p == IF c \in Fighter THEN c ELSE OwnerOf[c] IN
    IF c = NoOwner \/ p = NoOwner \/ p \notin Here(w) THEN w ELSE OnKilledPlayer(w, p, t)

-----------------------------------------------------------------------------

FightInit ==
    /\ fighter = [p \in Fighter |->
                    [status |-> "away", skull |-> "none", fight |-> 0, pzLocked |-> FALSE,
                     attacked |-> {}, hurt |-> {}, lastHit |-> NoOwner, frags |-> 0,
                     inParty |-> FALSE, spared |-> FALSE]]
    /\ ring = {}

\* The load of a player: the seconds that are left are rounded up; away long
\* enough, the red skull is not read at all.
Login ==
    \E p \in Fighter, forgotten \in BOOLEAN :
        LET left == ~forgotten /\ fighter[p].frags > 0 IN
        /\ fighter[p].status = "away"
        /\ fighter' = [fighter EXCEPT ![p].status = "well",
                                      ![p].frags = IF left THEN @ + 2 ELSE 0,
                                      ![p].skull = IF left THEN @ ELSE "none"]
        /\ fighter[p].frags < BanUnjust * FragTime   \* bound
        /\ UNCHANGED ring

\* A logout out of a fight, or a kick at any time.
Logout ==
    \E p \in Here(fighter) :
        /\ fighter' = Leaves(fighter, p, "away")
        /\ ring' = ring \ {p}

\* A blow, a spell or the choice of a target: setAttackedCreature, onAttacking and
\* combatChangeHealth.  Only a player's blow is blamed on somebody.
Strike ==
    \E a \in Striker, t \in Here(fighter), hurts, kills \in BOOLEAN :
        /\ a # t /\ fighter[t].status = "well"
        /\ a \in Fighter => fighter[a].status = "well"
        /\ a \in Fiend /\ OwnerOf[a] # NoOwner => OwnerOf[a] \in Here(fighter)
        /\ kills => hurts
        /\ LET blamed == IF a \in Fighter THEN OnAttackedCreature(fighter, a, t) ELSE fighter
               told == OnAttacked(OnAttacked(blamed, a), t)
           IN fighter' = IF ~hurts THEN told
                         ELSE [told EXCEPT ![t].hurt = @ \cup {a}, ![t].lastHit = a,
                                           ![t].status = IF kills THEN "dead" ELSE @]
        /\ UNCHANGED ring

\* A monster is hit: the fight is the player's own.
StrikeMonster ==
    \E p \in Here(fighter) :
        /\ fighter[p].status = "well"
        /\ fighter' = AddFight(fighter, p, FightTime)
        /\ UNCHANGED ring

\* Player::onThink and executeConditions.  At one unit the count of the
\* unjustified deaths stays as it is.
Thought(w, p) ==
    LET f == w[p]
        counted == [w EXCEPT ![p].frags = IF @ > 1 THEN @ - 1 ELSE @]
        cleared == IF counted[p].frags < 1 /\ f.fight = 0 /\ f.skull # "none"
                   THEN ChangeSkull(counted, p, "none") ELSE counted
    IN  IF f.fight = 0 THEN cleared
        ELSE IF f.fight = 1 THEN EndFight([cleared EXCEPT ![p].fight = 0], p)
        ELSE [cleared EXCEPT ![p].fight = @ - 1]

OnThink(p) ==
    /\ fighter[p].status = "well"
    /\ fighter' = Thought(fighter, p)
    /\ UNCHANGED ring

\* Game::checkCreature of a dead player: die for the last hit and, when it is
\* another one, for the most damage within the time of a fight; then the removal.
Die ==
    \E t \in Here(fighter) :
        LET f == fighter[t] IN
        \E most \in f.hurt \cup {NoOwner} :
            /\ f.status = "dead" /\ t \notin ring
            /\ LET first == OnKilled(fighter, f.lastHit, t)
                   both == IF most = f.lastHit THEN first ELSE OnKilled(first, most, t)
               IN /\ fighter' = Leaves(both, t, "away")
                  /\ ring' = ring \cap Here(fighter')

\* PvpArena::removeCreature puts the loser of an arena out of it, healed.
LeaveArena ==
    \E t \in ring :
        /\ fighter[t].status = "dead"
        /\ fighter' = [Thought(fighter, t) EXCEPT ![t].status = "well"]
        /\ ring' = ring \ {t}

StepRing ==
    \E p \in Here(fighter) \cap Gladiator :
        /\ fighter[p].status = "well"
        /\ ring' = IF p \in ring THEN ring \ {p} ELSE ring \cup {p}
        /\ UNCHANGED fighter

\* Bound: the party forms and breaks up as a whole.
ChangeParty ==
    \E together \in BOOLEAN :
        /\ fighter' = [p \in Fighter |->
                         [fighter[p] EXCEPT !.inParty = together /\ p \in Here(fighter)]]
        /\ UNCHANGED ring

FightNext ==
    \/ Login \/ Logout \/ Strike \/ StrikeMonster
    \/ \E p \in Fighter : OnThink(p)
    \/ Die \/ LeaveArena \/ StepRing \/ ChangeParty

FightSpec == FightInit /\ [][FightNext]_fightVars

\* The timer comes to every creature again and again (Game::checkCreature).
FightLive == FightSpec /\ \A p \in Fighter : WF_fightVars(OnThink(p))

-----------------------------------------------------------------------------

\* What a fight brings ends with it: out of a fight nobody is locked out of
\* protection zones, no old attacker shares in the next death, nobody may be struck
\* with impunity, and a white skull is left only where an arena kept it.
EndsWithFight ==
    \A p \in Here(fighter) :
        fighter[p].fight = 0 =>
            /\ ~fighter[p].pzLocked /\ fighter[p].hurt = {}
            /\ fighter[p].skull # "red" => fighter[p].attacked = {}
            /\ fighter[p].skull = "white" => fighter[p].spared

\* A red skull ends: "time to lose one frag (1 = 1 minute)" (src/config.lua:210).
RedSkullEnds ==
    \A p \in Fighter :
        (fighter[p].skull = "red" /\ fighter[p].status = "well" /\ fighter[p].fight = 0)
            ~> (fighter[p].skull # "red" \/ fighter[p].status # "well" \/ fighter[p].fight > 0)

=============================================================================
