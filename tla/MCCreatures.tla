------------------------------ MODULE MCCreatures ------------------------------
(***************************************************************************)
(* Instances of Conditions, Fight, Advance, View, Casts and Areas for TLC: *)
(* what one player or a few keep and do.  The parts share no state, so a   *)
(* behaviour moves one of them and leaves the others where they start.     *)
(***************************************************************************)
EXTENDS Conditions, Fight, Advance, View, Casts, Areas

CONSTANTS stealth, stealthOn, dwarf, dwarfOn, boots, feet, finger, p1, p2, pet,
    me, c1, c2, coin, splash, fire, fume

VARIABLE part

\* Rings of invisibility and of the dwarfs, and boots of haste.
WornForms == [k \in Kind |-> CASE k = stealth -> stealthOn [] k = dwarf -> dwarfOn [] OTHER -> None]
BareForms == [k \in Kind |-> CASE k = stealthOn -> stealth [] k = dwarfOn -> dwarf [] OTHER -> None]
Places == [k \in Kind |-> IF k = boots THEN feet ELSE finger]
Quick == [k \in Kind |-> IF k = boots THEN 4 ELSE 0]

Spell(t, i, n, d) ==
    [type |-> t, id |-> i, ticks |-> n, delta |-> d, rounds |-> 0, wait |-> 0,
     delayed |-> FALSE, stood |-> FALSE]
Fire(n, late) ==
    [Spell("damage", "combat", n * RoundTicks, 0)
        EXCEPT !.rounds = n, !.wait = RoundTicks, !.delayed = late]

\* Haste against paralysis, of which one takes more than all speed; what is seen; fire, twice.
BooksOfSpells ==
    { {Spell("haste", "combat", 2, 3), Spell("haste", "combat", 1, 5),
       Spell("paralyze", "combat", 2, -6), Spell("paralyze", "combat", 1, -22),
       Spell("drunk", "combat", 1, 0)},
      {Spell("invisible", "combat", 2, 0), Spell("drunk", "combat", 1, 0),
       Spell("outfit", "combat", 1, 0), Spell("light", "combat", 2, 2),
       Spell("light", "combat", 3, 1)},
      {Fire(3, FALSE), Fire(4, TRUE), Spell("paralyze", "combat", 1, -6)} }

Owners == [f \in Fiend |-> IF f = pet THEN p1 ELSE NoOwner]

\* Three levels, two magic levels and two skill levels.
Experience == [n \in 1 .. TopLevel + 1 |-> <<0, 3, 7, 15>>[n]]
ManaNeeded == [n \in 1 .. TopMagic + 1 |-> <<4, 5, 8>>[n]]
TriesNeeded == [n \in 10 .. TopSkill + 1 |-> <<2, 3, 4, 6>>[n - 9]]
Health == [rookie |-> 2, knight |-> 5]

\* Two tiles in sight of each other and one that is too far for the others.
ThreeTiles == {<<1, 1>>, <<2, 2>>, <<4, 2>>}
Assemblies == { {me, c1, c2, coin}, {me, c1, splash, coin}, {me, c1, fire, fume} }

Cheap(m, s, exhausts, aggressive) ==
    [mana |-> m, soul |-> s, exhausts |-> exhausts, aggressive |-> aggressive]
Costs == [k \in Art |->
    CASE k = "own" -> Cheap(1, 0, TRUE, FALSE)      [] k = "name" -> Cheap(2, 0, TRUE, FALSE)
      [] k = "text" -> Cheap(1, 0, FALSE, FALSE)    [] k = "place" -> Cheap(2, 1, TRUE, TRUE)
      [] k = "summon" -> Cheap(1, 1, TRUE, FALSE)   [] k = "food" -> Cheap(1, 1, FALSE, FALSE)
      [] k = "conjure" -> Cheap(2, 1, FALSE, FALSE) [] k = "rune" -> Cheap(0, 0, TRUE, TRUE)
      [] k = "convince" -> Cheap(0, 1, TRUE, TRUE)  [] k = "wand" -> Cheap(1, 0, FALSE, FALSE)
      [] OTHER -> Cheap(0, 0, FALSE, FALSE)]

\* Every shape of a row of three tiles and of a square of four, with every center.
Matrices(rows, cols) ==
    LET every == (0 .. rows - 1) \X (0 .. cols - 1)
    IN  {[rows |-> rows, cols |-> cols, cells |-> s, center |-> z] : s \in (SUBSET every) \ {{}}, z \in every}
NorthShapes == Matrices(2, 2) \cup Matrices(1, 3)
WestShapes == Matrices(2, 2) \cup Matrices(1, 2)

\* The caster in the middle of a square of 25 tiles, and one on each of them.
Square5 == (1 .. 5) \X (1 .. 5)
Middle == <<3, 3>>
OneOnEach == [n \in 0 .. 24 |-> <<1 + (n \div 5), 1 + (n % 5)>>]
Standers == 0 .. 24
Pillar == {<<2, 3>>}
Temple == {<<4, 4>>}

Init ==
    /\ part \in {"conditions", "fight", "advance", "view", "casts", "areas"}
    /\ CondInit /\ FightInit /\ AdvanceInit /\ ViewInit
    /\ CastInit /\ AreaInit
    /\ part # "view" => cast = CHOOSE c \in Casts : TRUE
    /\ part # "conditions" => book = CHOOSE b \in Books : TRUE
    /\ part # "advance" => sheet.vocation = "rookie"
    /\ part # "casts" => protected = FALSE
    /\ ext = NoMatrix \/ shape = CHOOSE m \in NorthShapes : TRUE
    /\ part # "areas" => ext = NoMatrix /\ shape = CHOOSE m \in NorthShapes : TRUE

Next ==
    \/ part = "conditions" /\ CondNext
       /\ UNCHANGED <<part, fightVars, advanceVars, viewVars, castVars, areaVars>>
    \/ part = "fight" /\ FightNext
       /\ UNCHANGED <<part, condVars, advanceVars, viewVars, castVars, areaVars>>
    \/ part = "advance" /\ AdvanceNext
       /\ UNCHANGED <<part, condVars, fightVars, viewVars, castVars, areaVars>>
    \/ part = "view" /\ ViewNext
       /\ UNCHANGED <<part, condVars, fightVars, advanceVars, castVars, areaVars>>
    \/ part = "casts" /\ CastNext
       /\ UNCHANGED <<part, condVars, fightVars, advanceVars, viewVars, areaVars>>
    \/ part = "areas" /\ AreaNext
       /\ UNCHANGED <<part, condVars, fightVars, advanceVars, viewVars, castVars>>

Spec == Init /\ [][Next]_<<part, condVars, fightVars, advanceVars, viewVars, castVars, areaVars>>

\* Every variable of the parts has its type.
CreaturesTypeOK == CondTypeOK /\ FightTypeOK /\ AdvanceTypeOK /\ ViewTypeOK
                   /\ CastTypeOK /\ AreaTypeOK

\* A cast takes what it costs and strikes what its shape covers (spells.cpp:1505, combat.cpp:971).
CastsHold == CastsPaid /\ StrikesItsShape
=============================================================================
