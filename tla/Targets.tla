------------------------------- MODULE Targets -------------------------------
(***************************************************************************)
(* Who attacks, follows and serves whom: Creature::attackedCreature,       *)
(* followCreature and master are plain pointers that only notifications    *)
(* clear (creature.cpp), Monster::targetList holds references, and a       *)
(* monster thinks only while it has a reason to (monster.cpp).  A creature *)
(* is told what happens where it can see.  Monsters are hostile, nobody is invisible, and       *)
(* health is left out: a death is a removal.                               *)
(***************************************************************************)
EXTENDS Integers, FiniteSetsExt

CONSTANTS Hero, Beast,   \* players and monsters; an object is placed once
          Wild,          \* monsters that may come by a spawn
          Nobody, Cell,
          Sees,          \* Creature::canSee between positions
          Reaches,       \* from where there is a path to where, Game::getPathToEx
          Adjacent,      \* one step, or one teleport
          Pz             \* protection zone

Being == Hero \cup Beast

ASSUME TargetsAssumption ==
    /\ Hero \cap Beast = {} /\ Wild \subseteq Beast /\ Nobody \notin Being
    /\ Sees \subseteq Cell \X Cell
    /\ \A a, b \in Cell : <<a, b>> \in Sees <=> <<b, a>> \in Sees
    /\ \A a \in Cell : <<a, a>> \in Sees
    /\ Adjacent \cup Reaches \subseteq Cell \X Cell /\ Pz \subseteq Cell

VARIABLES
    status,     \* "new", "listed" in the game, or "removed"
    pointer     \* what each creature points to, see Pointers

targetVars == <<status, pointer>>

\* at is the position; alert is internalUpdateTargetList and awake is isActive.
Pointers ==
    [at : [Being -> Cell],
     attacked : [Being -> Being \cup {Nobody}],
     followed : [Being -> Being \cup {Nobody}],
     master : [Being -> Being \cup {Nobody}],
     targets : [Beast -> SUBSET Being],
     alert : [Beast -> BOOLEAN],
     awake : [Beast -> BOOLEAN]]

TargetTypeOK ==
    /\ status \in [Being -> {"new", "listed", "removed"}]
    /\ pointer \in Pointers

Listed == {c \in Being : status[c] = "listed"}

-----------------------------------------------------------------------------
(* Pointers.  w is the state.                                                *)

CanSee(w, c, t) == <<w.at[c], w.at[t]>> \in Sees
InPz(w, c) == w.at[c] \in Pz
Summons(w, c) == {s \in Beast : w.master[s] = c}

\* Creature::setAttackedCreature: summons attack what they see of it; nothing
\* is passed on to them when the master does not see it.
SetAttacked(w, c, t) ==
    IF t # Nobody /\ ~CanSee(w, c, t) THEN [w EXCEPT !.attacked[c] = Nobody]
    ELSE [w EXCEPT !.attacked =
            [a \in Being |->
                CASE a = c -> t
                  [] a # c /\ a \in Summons(w, c) ->
                        IF t # Nobody /\ CanSee(w, a, t) THEN t ELSE Nobody
                  [] OTHER -> @[a]]]

\* Creature::setFollowCreature; a player that finds no way gives up its target.
SetFollowed(w, c, t) ==
    IF t = Nobody \/ (CanSee(w, c, t) /\ <<w.at[c], w.at[t]>> \in Reaches) THEN [w EXCEPT !.followed[c] = t]
    ELSE [(IF c \in Hero THEN SetAttacked(w, c, Nobody) ELSE w) EXCEPT !.followed[c] = Nobody]

\* Player::setAttackedCreature, with the chase mode.
PlayerAttacks(w, p, t, chase) ==
    LET v == SetAttacked(w, p, t) IN
    IF t # Nobody /\ ~CanSee(w, p, t) THEN v
    ELSE SetFollowed(v, p, IF chase THEN t ELSE Nobody)

SelectTarget(w, m, t) ==
    IF t = Nobody \/ t = m \/ InPz(w, t) THEN w
    ELSE SetFollowed(SetAttacked(w, m, t), m, t)

StartThink(w, m) ==
    LET v == [w EXCEPT !.awake[m] = TRUE] IN
    IF w.master[m] = Nobody THEN v ELSE SelectTarget(v, m, w.attacked[w.master[m]])

\* Creature::onCreatureDisappear.  A player that loses its target stops following.
LosesAttacked(w, c) ==
    LET v == SetAttacked(w, c, Nobody) IN
    IF c \in Hero THEN [v EXCEPT !.followed[c] = Nobody] ELSE v

Loses(w, c, t) ==
    LET v == IF w.attacked[c] = t THEN LosesAttacked(w, c) ELSE w
        u == IF v.followed[c] = t THEN [v EXCEPT !.followed[c] = Nobody] ELSE v
    IN  IF c \in Beast /\ u # w THEN [u EXCEPT !.alert[c] = TRUE] ELSE u

-----------------------------------------------------------------------------
(* What a monster makes of the creatures around it.                         *)

OfPlayer(w, c) == c \in Hero \/ w.master[c] \in Hero

OnCreatureFound(w, m, c) ==
    IF ~OfPlayer(w, c) \/ c \in w.targets[m] THEN w
    ELSE StartThink([w EXCEPT !.targets[m] = @ \cup {c}, !.alert[m] = TRUE], m)

OnCreatureEnter(w, m, c) ==
    IF c = m THEN StartThink([w EXCEPT !.followed[m] = Nobody, !.alert[m] = TRUE], m)
    ELSE IF c = w.master[m] THEN StartThink([w EXCEPT !.alert[m] = TRUE], m)
    ELSE OnCreatureFound(w, m, c)

OnCreatureLeave(w, m, c) == [w EXCEPT !.targets[m] = @ \ {c}]

-----------------------------------------------------------------------------
(* Moves.                                                                   *)

\* Mutation: only the sight of the target counts.
BlindCheck(w, s, c) ==
    LET a == w.attacked[s] IN
    IF a # Nobody /\ (a = c \/ s = c) /\ ~CanSee(w, s, a) THEN Loses(w, s, a) ELSE w

\* Creature::onCreatureMove of s for the move of c.
SightCheck(w, s, c) ==
    LET hunts(t) == t # Nobody /\ (t = c \/ s = c)
        f == w.followed[s]
        v == IF hunts(f) /\ ~CanSee(w, s, f) THEN Loses(w, s, f) ELSE w
        a == v.attacked[s]
    IN  IF hunts(a) /\ (~CanSee(v, s, a) \/ InPz(v, a) \/ InPz(v, s)) THEN Loses(v, s, a) ELSE v

\* Monster::onCreatureMove.
MonsterSees(w, s, c, from) ==
    LET saw == <<w.at[s], from>> \in Sees
        now == CanSee(w, s, c)
    IN  IF s = c THEN StartThink([w EXCEPT !.alert[s] = TRUE], s)
        ELSE IF now /\ ~saw THEN OnCreatureEnter(w, s, c)
        ELSE IF saw /\ ~now THEN OnCreatureLeave(w, s, c)
        ELSE IF w.master[s] = Nobody /\ w.followed[s] = Nobody /\ OfPlayer(w, c)
             THEN SelectTarget(w, s, c) ELSE w

OnCreatureMove(w, s, c, from) ==
    LET v == SightCheck(w, s, c) IN
    IF s \in Beast THEN MonsterSees(v, s, c, from) ELSE v

\* Tile::moveCreature: who sees the old or the new position is told.
Moved(w, c, to) ==
    LET from == w.at[c]
        told == {s \in Listed : <<w.at[s], from>> \in Sees \/ <<w.at[s], to>> \in Sees}
    IN  FoldSet(LAMBDA s, r : OnCreatureMove(r, s, c, from),
                [w EXCEPT !.at[c] = to], told \cup {c})

\* Summons that lose sight of their master are teleported to it
\* (Monster::onCreatureLeave with summonsfollow).
MovedWithSummons(w, c, to) ==
    LET left == {s \in Summons(w, c) \cap Listed :
                    CanSee(w, s, c) /\ <<w.at[s], to>> \notin Sees}
    IN  FoldSet(LAMBDA s, r : Moved(r, s, to), Moved(w, c, to), left)

-----------------------------------------------------------------------------
(* Removal.                                                                 *)

OnCreatureDisappear(w, s, c) ==
    LET v == Loses(w, s, c) IN
    IF s \in Beast THEN OnCreatureLeave(v, s, c) ELSE v

RemoveOne(w, c) ==
    FoldSet(LAMBDA s, r : OnCreatureDisappear(r, s, c), w,
            {s \in Listed : <<w.at[s], w.at[c]>> \in Sees})

\* Game::removeCreature: the summons of c go with it.
RemoveCreature(w, c) ==
    FoldSet(LAMBDA s, r : RemoveOne(r, s), RemoveOne(w, c), Summons(w, c) \cap Listed)

-----------------------------------------------------------------------------
(* A monster's thoughts.                                                    *)

\* Mutation: creatures that are already known are not looked for.
UpdatedKnown(w, m) == [w EXCEPT !.targets[m] = {t \in @ : CanSee(w, m, t)}]

\* Monster::updateTargetList.
Updated(w, m) ==
    FoldSet(LAMBDA c, r : OnCreatureFound(r, m, c),
            [w EXCEPT !.targets[m] = {t \in @ : CanSee(w, m, t)}],
            {c \in Listed \ {m} : CanSee(w, m, c)})

StopThink(w, m) ==
    [w EXCEPT !.awake[m] = FALSE, !.targets[m] = {},
              !.attacked = [a \in Being |-> IF a \in Summons(w, m) THEN Nobody ELSE @[a]]]

\* searchTarget goes through the list until it finds one outside of protection.
Found(w, m) == {t \in w.targets[m] : ~InPz(w, t)}

Retargeted(w, m, t) ==
    IF w.master[m] = Nobody THEN SelectTarget(w, m, t)
    ELSE IF w.attacked[m] # Nobody
         THEN IF w.attacked[m] \in {w.followed[m], m} THEN w
                                   ELSE SelectTarget(w, m, w.attacked[m])
    ELSE IF w.attacked[w.master[m]] # Nobody
         THEN SelectTarget(w, m, w.attacked[w.master[m]])
    ELSE SetFollowed(w, m, w.master[m])

-----------------------------------------------------------------------------

TargetInit ==
    /\ status = [c \in Being |-> "new"]
    /\ \E a \in Cell :
        pointer = [at |-> [c \in Being |-> a],
                   attacked |-> [c \in Being |-> Nobody], followed |-> [c \in Being |-> Nobody],
                   master |-> [c \in Being |-> Nobody], targets |-> [m \in Beast |-> {}],
                   alert |-> [m \in Beast |-> FALSE], awake |-> [m \in Beast |-> FALSE]]

\* Game::placeCreature of c, of master h or of its own.
Appeared(w, c) ==
    FoldSet(LAMBDA m, r : OnCreatureEnter(r, m, c), w,
            {m \in (Listed \cup {c}) \cap Beast : CanSee(w, m, c)})

PlaceCreature ==
    \E c \in Hero \cup Wild, a \in Cell :
        /\ status[c] = "new"
        /\ status' = [status EXCEPT ![c] = "listed"]
        /\ pointer' = Appeared([pointer EXCEPT !.at[c] = a], c)

\* Summons do not summon; players may be out of mana or at their limit.
PlaceSummon ==
    \E h \in Listed, s \in Beast :
        /\ status[s] = "new" /\ pointer.master[h] = Nobody
        /\ status' = [status EXCEPT ![s] = "listed"]
        /\ pointer' = Appeared([pointer EXCEPT !.at[s] = pointer.at[h], !.master[s] = h], s)

\* Bound: a monster that is convinced has no summons of its own.
ConvinceCreature ==
    \E p \in Listed \cap Hero, m \in Listed \cap Beast :
        /\ pointer.master[m] \notin Hero /\ Summons(pointer, m) = {}
        /\ pointer' = SetAttacked([pointer EXCEPT !.master[m] = p, !.followed[m] = Nobody],
                                  m, Nobody)
        /\ UNCHANGED status

ChallengeCreature ==
    \E p \in Listed \cap Hero, m \in Listed \cap Beast :
        /\ pointer.master[m] = Nobody
        /\ pointer' = SelectTarget(pointer, m, p)
        /\ UNCHANGED status

\* Game::playerSetAttackedCreature; a target that may not be attacked clears it.
PlayerSetAttacked ==
    \E p \in Listed \cap Hero, chase \in BOOLEAN :
        \E t \in (Listed \ {p}) \cup {Nobody} :
            /\ t # Nobody => ~InPz(pointer, p) /\ ~InPz(pointer, t)
            /\ pointer' = PlayerAttacks(pointer, p, t, chase)
            /\ UNCHANGED status

\* Game::playerFollowCreature.
PlayerFollow ==
    \E p \in Listed \cap Hero :
        \E t \in (Listed \ {p}) \cup {Nobody} :
            /\ pointer' = SetFollowed(LosesAttacked(pointer, p), p, t)
            /\ UNCHANGED status

\* Player::setChaseMode.
SetChaseMode ==
    \E p \in Listed \cap Hero, chase \in BOOLEAN :
        LET t == IF chase THEN pointer.attacked[p] ELSE Nobody IN
        /\ pointer.attacked[p] # Nobody
        /\ chase => pointer.followed[p] = Nobody
        /\ pointer' = SetFollowed(pointer, p, t)
        /\ UNCHANGED status

\* A step, a push or a teleport; a player's own step ends its following.
MoveCreature ==
    \E c \in Listed, to \in Cell, own \in BOOLEAN :
        /\ <<pointer.at[c], to>> \in Adjacent
        /\ own => c \in Hero
        /\ pointer' = MovedWithSummons(
                        IF own THEN [pointer EXCEPT !.followed[c] = Nobody] ELSE pointer,
                        c, to)
        /\ UNCHANGED status

\* Creature::onThinkAttacking looks for the way again.
UpdateFollow ==
    \E c \in Listed :
        /\ pointer.followed[c] # Nobody
        /\ pointer' = SetFollowed(pointer, c, pointer.followed[c])
        /\ UNCHANGED status

\* Monster::onThink.
Think ==
    \E m \in Listed \cap Beast, looks \in BOOLEAN :
        /\ pointer.awake[m]
        /\ pointer.alert[m] => looks
        /\ LET v == IF pointer.alert[m] THEN Updated(pointer, m) ELSE pointer IN
           IF pointer.alert[m] /\ v.targets[m] = {} THEN pointer' = StopThink(v, m)
           ELSE \E t \in Found(v, m) \cup {Nobody} :
                  /\ t = Nobody => v.followed[m] # Nobody \/ Found(v, m) = {} \/ ~looks
                  /\ pointer' = IF looks
                                THEN Retargeted([v EXCEPT !.alert[m] = FALSE], m, t)
                                ELSE v
        /\ UNCHANGED status

\* A logout, a command, or a death, which releases it from its master first.
Vanish ==
    \E c \in Listed, dies \in BOOLEAN :
        LET v == IF dies THEN [pointer EXCEPT !.master[c] = Nobody] ELSE pointer IN
        /\ status' = [d \in Being |-> IF d = c \/ (status[d] = "listed" /\ pointer.master[d] = c)
                                      THEN "removed" ELSE status[d]]
        /\ pointer' = RemoveCreature(v, c)

TargetNext ==
    \/ PlaceCreature \/ PlaceSummon \/ ConvinceCreature \/ ChallengeCreature
    \/ PlayerSetAttacked \/ PlayerFollow \/ SetChaseMode
    \/ MoveCreature \/ UpdateFollow \/ Think \/ Vanish

TargetSpec == TargetInit /\ [][TargetNext]_targetVars

-----------------------------------------------------------------------------

\* No pointer of a listed creature dangles or shoots blind: what it attacks or
\* follows is in its sight, and is listed or kept alive by a target list, its own
\* or its master's; nobody attacks into protection, no player attacks from it,
\* and a master is listed as long as its summon is.
TargetsHold ==
    \A c \in Listed :
        /\ pointer.master[c] \in Listed \cup {Nobody}
        /\ \A t \in {pointer.attacked[c], pointer.followed[c]} \ {Nobody} :
            /\ CanSee(pointer, c, t)
            /\ t \in Listed \/ (~OfPlayer(pointer, c) /\ status[t] = "removed")
            /\ pointer.master[c] = Nobody => t \in Listed \/ t \in pointer.targets[c]
        /\ pointer.attacked[c] # Nobody =>
            /\ ~InPz(pointer, pointer.attacked[c])
            /\ c \in Hero => ~InPz(pointer, c)

\* No monster sleeps beside a player: one that sees a player thinks, and has the
\* player on its list or is about to look around.
NoneSleepsBeside ==
    \A m \in Listed \cap Beast, p \in Listed \cap Hero :
        CanSee(pointer, m, p) =>
            pointer.awake[m] /\ (p \in pointer.targets[m] \/ pointer.alert[m])

\* Monsters keep sound pointers and never sleep beside a player.
TargetsRight == TargetsHold /\ NoneSleepsBeside
=============================================================================
