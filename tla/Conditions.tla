------------------------------ MODULE Conditions ------------------------------
(***************************************************************************)
(* The conditions of one player and the abilities of what it wears: the    *)
(* list of conditions with what starting, merging, ticking and ending each *)
(* kind does (condition.cpp, creature.cpp), and the equip events that set  *)
(* an ability, a speed or a condition when an item enters or leaves a slot *)
(* (movement.cpp).  Nothing stores what the speed, the light, the outfit   *)
(* or the visibility should be: each start adds and each end takes back.   *)
(* Ticks are counted in passes of Creature::executeConditions.  Health and *)
(* mana are left out; a damage condition is what is left of its rounds.    *)
(***************************************************************************)
EXTENDS Integers, FiniteSetsExt

CONSTANTS Kind, Slot, None,
          Books,        \* bound: what conditions combat and scripts give, as alternatives
          BaseSpeed,    \* of a player of its level
          Normal,       \* the level of a creature's own light
          EquipTo,      \* ItemType::transformEquipTo, None for 0
          EquipSlot,    \* the slot of a kind's equip events
          HasEquip, HasDeEquip,             \* kinds with such an event in movements.xml
          AbilitySpeed,                     \* ItemType::abilities.speed; nothing in items.xml slows
          AbilityInvisible, AbilityManaShield, AbilityRegeneration, SuppressDrunk,
          RoundTicks,   \* passes between two rounds of damage
          MaxTicks      \* bound: of a condition that food prolongs

Speedy == {"haste", "paralyze"}
Type == Speedy \cup {"invisible", "outfit", "light", "damage", "drunk", "manashield",
                     "regeneration", "generic"}

\* id is the slot of the item that gives the condition, "combat" or "default".
\* rounds and wait are the length and the first timeLeft of a damage list;
\* stood is history: a field was underfoot while the condition ran.
Condition ==
    [type : Type, id : Slot \cup {"combat", "default"}, ticks : Int, delta : Int,
     rounds : Nat, wait : Nat, delayed : BOOLEAN, stood : BOOLEAN]

ASSUME ConditionsAssumption ==
    /\ UNION Books \subseteq Condition
    /\ \A c \in UNION Books : c.ticks > 0 /\ ~c.stood
    /\ \A c \in UNION Books : c.type = "damage" =>
          c.rounds > 0 /\ c.wait = RoundTicks /\ c.ticks = c.rounds * RoundTicks
    /\ EquipTo \in [Kind -> Kind \cup {None}]
    /\ \A k \in Kind : EquipTo[k] # None => EquipTo[EquipTo[k]] = None
    /\ EquipSlot \in [Kind -> Slot]
    /\ AbilitySpeed \in [Kind -> Nat]
    /\ {RoundTicks, BaseSpeed} \subseteq Nat \ {0}

VARIABLES
    body,   \* the creature, see Body
    worn,   \* Player::inventory: the kind of the item in each slot
    book    \* the conditions that are about in this world

condVars == <<body, worn, book>>

\* light is the level, outfit tells whether the current outfit is the default one,
\* visible is what clients around were told last, enabled is inventoryAbilities
\* and suppressed is whether drunkenness is in conditionSuppressions.  gained is history:
\* what changes of a speed at its floor have added to it.
Body ==
    [conditions : SUBSET Condition, varSpeed : Int, gained : Nat, light : Nat,
     outfit : {"default", "other"}, visible : BOOLEAN, suppressed : BOOLEAN,
     enabled : [Slot -> BOOLEAN]]

CondTypeOK ==
    /\ body \in Body
    /\ worn \in [Slot -> Kind \cup {None}]
    /\ book \in Books

-----------------------------------------------------------------------------
(* Starting, merging and ending a condition.                                *)

Has(b, t) == /\ ~(t = "drunk" /\ b.suppressed)
             /\ \E c \in b.conditions : c.type = t

GetSpeed(b) == IF BaseSpeed + b.varSpeed > 1 THEN BaseSpeed + b.varSpeed ELSE 1

\* The old deviation is computed back from the speed, which is never below 1: what it was
\* below that is forgotten.
ChangeSpeed(b, delta) ==
    [b EXCEPT !.varSpeed = GetSpeed(b) - BaseSpeed + delta,
              !.gained = @ + GetSpeed(b) - (BaseSpeed + b.varSpeed)]

\* The first round of a damage condition is dealt at once unless it is delayed.
NextRound(c) == [c EXCEPT !.rounds = @ - 1]
Started(c) == IF c.type = "damage" /\ ~c.delayed THEN NextRound(c) ELSE c

StartEffect(b, c) ==
    CASE c.type \in Speedy    -> ChangeSpeed(b, c.delta)
      [] c.type = "invisible" -> [b EXCEPT !.visible = FALSE]
      [] c.type = "outfit"    -> [b EXCEPT !.outfit = "other"]
      [] c.type = "light"     -> [b EXCEPT !.light = c.delta]
      [] OTHER                -> b

EndShows(b, c) ==
    CASE c.type \in Speedy    -> ChangeSpeed(b, -c.delta)
      [] c.type = "invisible" -> [b EXCEPT !.visible = TRUE]
      [] c.type = "outfit"    -> [b EXCEPT !.outfit = "default"]
      [] c.type = "light"     -> [b EXCEPT !.light = Normal]
      [] OTHER                -> b

\* b no longer lists c.
EndEffect(b, c) ==
    CASE c.type \in Speedy    -> ChangeSpeed(b, -c.delta)
      [] c.type = "invisible" -> IF Has(b, "invisible") THEN b
                                                        ELSE [b EXCEPT !.visible = TRUE]
      [] c.type = "outfit"    -> [b EXCEPT !.outfit = "default"]
      [] c.type = "light"     -> [b EXCEPT !.light = Normal]
      [] OTHER                -> b

Longer(c, d) == [c EXCEPT !.ticks = IF d.ticks > @ THEN d.ticks ELSE @]

MergedKeepsTicks(c, d) ==
    IF c.type = "damage" /\ d.rounds > c.rounds
    THEN NextRound([d EXCEPT !.ticks = c.ticks])
    ELSE Longer(c, d)

\* addCondition of the kinds: c, already listed, takes d in.
Merged(c, d) ==
    CASE c.type \in Speedy   -> [Longer(c, d) EXCEPT !.delta = d.delta]
      [] c.type = "light"    -> d
      [] c.type = "damage"   -> IF d.rounds > c.rounds
                                THEN NextRound([d EXCEPT !.delayed = c.delayed]) ELSE c
      [] OTHER               -> Longer(c, d)

MergeAddsSpeed(b, c, d) ==
    IF c.type \in Speedy THEN ChangeSpeed(b, d.delta) ELSE b

MergeEffect(b, c, d) ==
    CASE c.type \in Speedy            -> ChangeSpeed(b, d.delta - c.delta)
      [] c.type \in {"outfit", "light"} -> StartEffect(b, d)
      [] OTHER                        -> b

\* One condition erased and ended; all of them in S.
Erase(b, c) == EndEffect([b EXCEPT !.conditions = @ \ {c}], c)
EraseAll(b, S) == FoldSet(LAMBDA c, r : Erase(r, c), b, S)
OfType(b, t) == {c \in b.conditions : c.type = t}

OnAddCondition(b, t) ==
    IF t = "paralyze" /\ Has(b, "haste") THEN EraseAll(b, OfType(b, "haste"))
    ELSE IF t = "haste" /\ Has(b, "paralyze") THEN EraseAll(b, OfType(b, "paralyze"))
    ELSE b

Same(c, d) == c.type = d.type /\ c.id = d.id

AddNew(b, d) ==
    OnAddCondition([StartEffect(b, d) EXCEPT !.conditions = @ \cup {Started(d)}], d.type)

AddTo(b, c, d) ==
    [MergeEffect(b, c, d) EXCEPT !.conditions = (@ \ {c}) \cup {Merged(c, d)}]

AddCondition(b, d) ==
    IF \E c \in b.conditions : Same(c, d)
    THEN AddTo(b, CHOOSE c \in b.conditions : Same(c, d), d)
    ELSE AddNew(b, d)

-----------------------------------------------------------------------------
(* Equip events.                                                            *)

Permanent(t, s) == [type |-> t, id |-> s, ticks |-> -1, delta |-> 0, rounds |-> 0,
                    wait |-> 0, delayed |-> FALSE, stood |-> FALSE]

\* What an item of kind k in slot s gives as conditions.
Given(k, s) ==
    {Permanent(t, s) : t \in {u \in {"invisible", "manashield", "regeneration"} :
        \/ u = "invisible" /\ k \in AbilityInvisible
        \/ u = "manashield" /\ k \in AbilityManaShield
        \/ u = "regeneration" /\ k \in AbilityRegeneration}}

SetAbilities(b, k, s) ==
    LET c == FoldSet(LAMBDA d, r : AddCondition(r, d), b, Given(k, s)) IN
    [(IF AbilitySpeed[k] # 0 THEN ChangeSpeed(c, AbilitySpeed[k]) ELSE c) EXCEPT
        !.suppressed = @ \/ k \in SuppressDrunk]

\* MoveEvent::EquipItem.  A kind that transforms sets no ability itself: the
\* transformation notifies the slot, which equips the new kind, and then the
\* abilities of the old kind are set.
EquipOnce(b, k, s) ==
    IF b.enabled[s] THEN b ELSE SetAbilities([b EXCEPT !.enabled[s] = TRUE], k, s)

Fires(events, k, s) == k \in events /\ EquipSlot[k] = s

EquipItem(b, k, s) ==
    IF ~Fires(HasEquip, k, s) \/ b.enabled[s] THEN b
    ELSE IF EquipTo[k] = None THEN EquipOnce(b, k, s)
    ELSE SetAbilities(IF Fires(HasEquip, EquipTo[k], s) THEN EquipOnce(b, EquipTo[k], s) ELSE b,
                      k, s)

WornAs(b, k, s) ==
    IF Fires(HasEquip, k, s) /\ ~b.enabled[s] /\ EquipTo[k] # None THEN EquipTo[k] ELSE k

\* MoveEvent::DeEquipItem, after the item has left the slot.
DeEquipItem(b, k, s) ==
    IF ~Fires(HasDeEquip, k, s) \/ ~b.enabled[s] THEN b
    ELSE LET gone == {c \in b.conditions : \E d \in Given(k, s) : Same(c, d)}
             c == EraseAll([b EXCEPT !.enabled[s] = FALSE], gone) IN
         [(IF AbilitySpeed[k] # 0 THEN ChangeSpeed(c, -AbilitySpeed[k]) ELSE c) EXCEPT
             !.suppressed = @ /\ k \notin SuppressDrunk]

-----------------------------------------------------------------------------

CondInit ==
    /\ body = [conditions |-> {}, varSpeed |-> 0, gained |-> 0, light |-> Normal, outfit |-> "default",
               visible |-> TRUE, suppressed |-> FALSE, enabled |-> [s \in Slot |-> FALSE]]
    /\ worn = [s \in Slot |-> None]
    /\ book \in Books

\* Combat, a rune, a field or a script adds a condition.  One whose first round
\* is blocked is dropped: nothing changes.
Cast == \E c \in book : body' = AddCondition(body, c) /\ UNCHANGED <<worn, book>>

\* Player::addDefaultRegeneration: food adds to what is left of the last meal.
Eat ==
    LET meal == [Permanent("regeneration", "default") EXCEPT !.ticks = 1]
        left == {c \in body.conditions : Same(c, meal)}
    IN  /\ \A c \in left : c.ticks < MaxTicks
        /\ body' = IF left = {} THEN AddCondition(body, meal)
                   ELSE [body EXCEPT !.conditions =
                            (@ \ left) \cup {[c EXCEPT !.ticks = @ + 1] : c \in left}]
        /\ UNCHANGED <<worn, book>>

\* An item that combat may not take away keeps its condition: only those of
\* combat are dispelled, and in an enforced world the item itself may break.
Dispel ==
    \E t \in {c.type : c \in body.conditions}, broken \in SUBSET Slot :
        /\ Has(body, t)
        /\ broken \subseteq {s \in Slot : worn[s] # None /\ \E c \in OfType(body, t) : c.id = s}
        /\ body' = FoldSet(LAMBDA s, b : DeEquipItem(b, worn[s], s),
                           EraseAll(body, {c \in OfType(body, t) : c.id = "combat"}), broken)
        /\ worn' = [s \in Slot |-> IF s \in broken THEN None ELSE worn[s]]
        /\ UNCHANGED book

\* executeCondition of one listed condition; inField holds when the tile's
\* field is of the condition's kind: then a round is dealt and not used up,
\* and no ticks pass.
Ticked(c, inField) ==
    LET waited == c.wait - 1
        burns  == c.type = "damage" /\ c.rounds > 0
        held   == burns /\ inField
    IN  [c EXCEPT
            !.ticks  = IF held \/ @ = -1 THEN @ ELSE @ - 1,
            !.wait   = IF ~burns THEN @ ELSE IF waited > 0 THEN waited ELSE RoundTicks,
            !.rounds = IF burns /\ ~held /\ waited <= 0 THEN @ - 1 ELSE @,
            !.stood  = @ \/ held]

Over(c) == c.ticks # -1 /\ c.ticks <= 0

\* Mutation: the light fades below nothing.
FadedBelow(b, fades) == [b EXCEPT !.light = IF fades THEN @ - 1 ELSE @]

\* Light fades by one level at times that its ticks set: any pass may be one.
Faded(b, fades) == [b EXCEPT !.light = IF fades /\ @ > 0 THEN @ - 1 ELSE @]

\* The player's part of Game::checkCreature: every condition ticks, those that
\* are over end.
ExecuteConditions ==
    \E inField \in BOOLEAN, fades \in {OfType(body, "light") # {}, FALSE} :
        /\ body.conditions # {}
        /\ LET b == [Faded(body, fades) EXCEPT !.conditions = {Ticked(c, inField) : c \in @}] IN
           body' = EraseAll(b, {c \in b.conditions : Over(c)})
        /\ UNCHANGED <<worn, book>>

\* An item of any kind comes into an empty slot, and the slot is notified.
Equip ==
    \E s \in Slot, k \in Kind :
        /\ worn[s] = None
        /\ worn' = [worn EXCEPT ![s] = WornAs(body, k, s)]
        /\ body' = EquipItem(body, k, s)
        /\ UNCHANGED book

\* The item leaves, by hand or because it decayed; what it turns into is elsewhere.
DeEquip ==
    \E s \in Slot :
        /\ worn[s] # None
        /\ worn' = [worn EXCEPT ![s] = None]
        /\ body' = DeEquipItem(body, worn[s], s)
        /\ UNCHANGED book

CondNext == Cast \/ Eat \/ Dispel \/ ExecuteConditions \/ Equip \/ DeEquip

CondSpec == CondInit /\ [][CondNext]_condVars

-----------------------------------------------------------------------------

Active == {s \in Slot : body.enabled[s]}
Deltas(S) == FoldSet(LAMBDA c, n : c.delta + n, 0, S)

\* The speed is the base speed and what runs: however conditions are merged, cancelled by
\* each other, dispelled or run out, and items come and go, what was added is taken back
\* exactly (Game::changeSpeed keeps no list).  Excepted is what a speed below its floor gains
\* when it changes (game.cpp:2847): it stays for good, though it never adds up to more than
\* the worst paralysis takes below the floor, however often one is paralyzed.
SpeedExact ==
    /\ body.varSpeed = Deltas({c \in body.conditions : c.type \in Speedy})
                     + FoldSet(LAMBDA s, n : AbilitySpeed[worn[s]] + n, 0, Active) + body.gained
    /\ \E c \in book \cup {[delta |-> 1 - BaseSpeed]} : body.gained <= 1 - (BaseSpeed + c.delta)

\* What an item gives is there exactly while it is worn, and what clients see of
\* the player follows the conditions that are listed: visibility, outfit, light,
\* and that haste and paralysis exclude each other.
EffectsExact ==
    /\ \A s \in Active : worn[s] # None
    /\ {c \in body.conditions : c.id \in Slot} = UNION {Given(worn[s], s) : s \in Active}
    /\ body.suppressed <=> \E s \in Active : worn[s] \in SuppressDrunk
    /\ body.visible <=> OfType(body, "invisible") = {}
    /\ body.outfit = "default" <=> OfType(body, "outfit") = {}
    /\ OfType(body, "light") = {} => body.light = Normal
    /\ OfType(body, "haste") = {} \/ OfType(body, "paralyze") = {}
    /\ \A c, d \in body.conditions : Same(c, d) => c = d

\* What conditions and worn items did to the player is exactly what those that are left do,
\* but for the floor of the speed: nothing stays behind and nothing is taken back twice.
EffectsTakenBack == SpeedExact /\ EffectsExact

\* A damage condition that no field held back lasts until its last round is
\* dealt, whatever stronger conditions it took in (ConditionDamage).
RoundsPaid ==
    \A c \in OfType(body, "damage") :
        ~c.stood /\ c.rounds > 0 => c.ticks >= c.wait + (c.rounds - 1) * RoundTicks

\* A condition takes back exactly what it did, and not before its last round.
ConditionsEnd == EffectsTakenBack /\ RoundsPaid
=============================================================================
