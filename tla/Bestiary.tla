------------------------------ MODULE Bestiary ------------------------------
(***************************************************************************)
(* The kinds of monsters (monsters.cpp): how the file of a kind is read,   *)
(* with the limits that are put on its numbers, and how the files are read *)
(* again by the reload command while monsters of these kinds are alive and *)
(* the spells they share with players are replaced.                        *)
(***************************************************************************)
EXTENDS Integers, SequencesExt

CONSTANTS Name,          \* names of kinds
          Absent,        \* no integer: an attribute that is not given
          Sheets,        \* what the file of a kind may hold
          Lists,         \* what monsters.xml may list: sequences of names
          MaxRange,      \* twice Map::maxViewportX
          MaxChanges,    \* bound on the edits of files
          MaxReloads,    \* bound on the reloads
          Beast          \* monsters

ASSUME BestiaryAssumption ==
    /\ Lists \subseteq Seq(Name) /\ {MaxRange, MaxChanges, MaxReloads} \subseteq Nat

VARIABLES
    sheets,     \* the files
    listing,    \* monsters.xml
    names,      \* monsterNames: the id of a name, 0 if it has none
    slots,      \* monsters: the type with an id, 0 if there is none
    types,      \* the MonsterType objects that were ever made
    beasts,     \* mType of each monster, 0 if it is not in the game
    spellAge,   \* how often the shared spells were replaced
    changes, reloads,
    stale       \* history: a known file failed, a kind took the id of one yet to be read again, or
                \* spells were replaced and not all known kinds were read again

bestiaryVars == <<sheets, listing, names, slots, types, beasts, spellAge, changes, reloads, stale>>

-----------------------------------------------------------------------------
(* Reading a spell.                                                        *)

Given(v, default) == IF v = Absent THEN default ELSE v
AtLeast(a, b) == IF a < b THEN b ELSE a
Between(a, low, high) == IF a < low THEN low ELSE IF a > high THEN high ELSE a
Size(n) == IF n < 0 THEN -n ELSE n

\* Mutation: the interval of a spell is taken as it is written.
PaceAsWritten(node) == Given(node.speed, 2000)

\* Monsters::deserializeSpell, the numbers every spell has.
Pace(node) == AtLeast(Given(node.speed, 2000), 1)
Chance(node) == IF Given(node.chance, 100) \in 0 .. 100 THEN Given(node.chance, 100) ELSE 100
Reach(node) == IF node.name = "melee" THEN 1 ELSE Between(Given(node.range, 0), 0, MaxRange)
Values(node) ==
    LET low == Given(node.min, 0)
        high == Given(node.max, 0)
    IN  IF node.max # Absent /\ Size(low) > Size(high) THEN <<high, low>> ELSE <<low, high>>

\* The part of deserializeSpell that makes the area: a length points where the caster looks,
\* a radius replaces it.
Area(node) ==
    [form |-> CASE node.radius # Absent -> "ball" [] Given(node.length, 0) > 0 -> "beam" [] OTHER -> "none",
     direction |-> Given(node.length, 0) > 0, target |-> node.radius # Absent /\ node.target]

\* The part of deserializeSpell that makes the effect.  Another kind gives its looks only
\* if it is known already.
Conditions == {"firecondition", "poisoncondition", "energycondition", "drowncondition"}
Known == {"melee", "physical", "fire", "healing", "speed", "outfit", "invisible", "drunk", "firefield"} \cup Conditions
Effect(node, seen) ==
    LET change == AtLeast(Given(node.change, 0), -1000)
        kindly == \/ node.name \in {"healing", "invisible"}
                  \/ node.name = "speed" /\ change > 0
                  \/ node.name = "outfit" /\ node.as \in seen
    IN  [aggressive |-> ~kindly,
         condition |-> CASE node.name = "speed" -> IF change > 0 THEN "haste" ELSE "paralyze"
                         [] node.name = "outfit" -> IF node.as \in seen THEN "outfit" ELSE "none"
                         [] node.name = "melee" -> IF node.poison THEN "poisoncondition" ELSE "none"
                         [] node.name \in Conditions \cup {"invisible", "drunk"} -> node.name
                         [] OTHER -> "none",
         start |-> IF node.name \in Conditions /\ Size(Given(node.start, 0)) <= Size(Values(node)[1])
                   THEN Size(Given(node.start, 0)) ELSE 0]

\* Monsters::deserializeSpell: a spell of the players is shared, every other is the kind's own.
DeserializeSpell(node, seen, age) ==
    [speed |-> Pace(node), chance |-> Chance(node), range |-> Reach(node), values |-> Values(node),
     spell |-> IF node.name = "shared" THEN [shared |-> TRUE, age |-> age]
               ELSE [shared |-> FALSE, area |-> Area(node), effect |-> Effect(node, seen)]]

Readable(node) == node.name \in Known \cup {"shared"}
Spells(nodes, seen, age) ==
    [i \in DOMAIN SelectSeq(nodes, Readable) |-> DeserializeSpell(SelectSeq(nodes, Readable)[i], seen, age)]

-----------------------------------------------------------------------------
(* Reading a kind.                                                         *)

Blank == [name |-> "", static |-> 95, distance |-> 1, change |-> 0, look |-> Absent, damage |-> {}, immune |-> {},
          attacks |-> <<>>, defenses |-> <<>>, voices |-> 0, loot |-> <<>>, summons |-> 0, max |-> 0,
          live |-> TRUE, seen |-> {}, age |-> 0]

\* Mutation: the attacks of the last time stay.
ResetButAttacks(t) == [Blank EXCEPT !.look = t.look, !.name = t.name, !.attacks = t.attacks]

\* MonsterType::reset, which leaves the name, the outfit and the corpse.
Reset(t) == [Blank EXCEPT !.look = t.look, !.name = t.name]

\* Monsters::loadMonster, the flags, the change of targets and the look.
Body(t, n, sheet) ==
    [t EXCEPT !.name = n, !.static = Between(Given(sheet.static, @), 0, 100),
              !.distance = AtLeast(Given(sheet.distance, @), 1),
              !.change = IF sheet.change = Absent THEN @ ELSE AtLeast(sheet.change, 1),
              !.look = Given(sheet.look, @)]

\* The part of loadMonster that reads the immunities.
Hurting == {"physical", "energy", "fire", "poison", "drown", "lifedrain"}
Immunities(t, sheet) ==
    [t EXCEPT !.damage = @ \cup (sheet.immunities \cap Hurting),
              !.immune = @ \cup (sheet.immunities \ {"physical"})]

\* The part of loadMonster that reads attacks and defenses.
Powers(t, sheet, seen, age) ==
    [t EXCEPT !.attacks = @ \o Spells(sheet.attacks, seen, age), !.defenses = @ \o Spells(sheet.defenses, seen, age),
              !.seen = seen, !.age = age]

\* Monsters::loadLootItem and loadLootContainer: an item without id is left out.
LoadLoot(sheet) ==
    [i \in DOMAIN SelectSeq(sheet.loot, LAMBDA b : b.id # 0) |->
        LET b == SelectSeq(sheet.loot, LAMBDA c : c.id # 0)[i]
        IN  [id |-> b.id, countmax |-> IF Given(b.countmax, 1) > 100 THEN 100 ELSE Given(b.countmax, 1)]]

\* The part of loadMonster that reads voices, loot and summons.
Followers(t, sheet) ==
    [t EXCEPT !.voices = @ + sheet.voices, !.loot = @ \o LoadLoot(sheet), !.summons = @ + sheet.summons,
              !.max = IF Given(sheet.max, @) > 100 THEN 100 ELSE Given(sheet.max, @)]

Read(t, n, sheet, seen, age) ==
    Followers(Powers(Immunities(Body(t, n, sheet), sheet), sheet, seen, age), sheet)

\* Monsters::loadMonster for the name n: the type it has is read again in place, and freed
\* with a file that cannot be read.
LoadMonster(st, n, again, age) ==
    LET old == IF again /\ st.names[n] # 0 THEN st.slots[st.names[n]] ELSE 0
        o == IF old # 0 THEN old ELSE Len(st.types) + 1
        blank == IF old # 0 THEN Reset(st.types[old]) ELSE Blank
        seen == {k \in Name : st.names[k] # 0}
        read == IF sheets[n].readable THEN Read(blank, n, sheets[n], seen, age)
                ELSE [blank EXCEPT !.live = FALSE]
    IN  [object |-> o, known |-> old # 0,
         types |-> IF old # 0 THEN [st.types EXCEPT ![old] = read] ELSE Append(st.types, read)]

\* One entry of monsters.xml; the ids are counted from one each time.
Enter(st, n, again, age) ==
    LET l == LoadMonster(st, n, again, age)
        id == st.id + 1
    IN  IF ~sheets[n].readable
        THEN [st EXCEPT !.types = l.types, !.stale = @ \/ l.known]
        ELSE [st EXCEPT !.types = l.types, !.id = id, !.names[n] = id, !.slots[id] = l.object,
                        !.stale = @ \/ \E m \in Range(listing.entries) \ {n} : st.names[m] = id]

\* Monsters::loadFromXml.
LoadFromXml(st, again, age) == FoldLeft(LAMBDA s, n : Enter(s, n, again, age), st, listing.entries)

-----------------------------------------------------------------------------

Ids == 1 .. 8
NoKinds == [names |-> [n \in Name |-> 0], slots |-> [i \in Ids |-> 0], types |-> <<>>, id |-> 0, stale |-> FALSE]

BestiaryInit ==
    /\ sheets \in [Name -> Sheets] /\ listing \in [entries : Lists, sound : {TRUE}]
    /\ \E st \in {LoadFromXml(NoKinds, FALSE, 0)} :
        names = st.names /\ slots = st.slots /\ types = st.types /\ stale = st.stale
    /\ beasts = [b \in Beast |-> 0] /\ spellAge = 0 /\ changes = 0 /\ reloads = 0

BestiaryTypeOK ==
    /\ sheets \in [Name -> Sheets] /\ listing.entries \in Lists /\ listing.sound \in BOOLEAN
    /\ names \in [Name -> Ids \cup {0}] /\ slots \in [Ids -> 0 .. Len(types)]
    /\ \A i \in DOMAIN types : DOMAIN types[i] = DOMAIN Blank
    /\ beasts \in [Beast -> 0 .. Len(types)] /\ spellAge \in 0 .. MaxReloads
    /\ changes \in 0 .. MaxChanges /\ reloads \in 0 .. MaxReloads /\ stale \in BOOLEAN

\* Somebody edits the files.
EditSheet ==
    /\ changes < MaxChanges /\ changes' = changes + 1
    /\ \E n \in Name, s \in Sheets : sheets[n] # s /\ sheets' = [sheets EXCEPT ![n] = s]
    /\ UNCHANGED <<listing, names, slots, types, beasts, spellAge, reloads, stale>>

EditListing ==
    /\ changes < MaxChanges /\ changes' = changes + 1
    /\ listing' \in [entries : Lists, sound : BOOLEAN] \ {listing}
    /\ UNCHANGED <<sheets, names, slots, types, beasts, spellAge, reloads, stale>>

AllListed == {n \in Name : names[n] # 0} \subseteq Range(listing.entries)

\* Commands::reloadInfo with "monsters" or "spells".  A list that is no list of monsters
\* changes nothing.  What follows once a type is astray is undefined.
Reload ==
    /\ ~stale /\ reloads < MaxReloads /\ reloads' = reloads + 1
    /\ spellAge' \in {spellAge, spellAge + 1}
    /\ IF ~listing.sound THEN stale' = (spellAge' # spellAge) /\ UNCHANGED <<names, slots, types>>
       ELSE \E st \in {LoadFromXml([names |-> names, slots |-> slots, types |-> types, id |-> 0, stale |-> FALSE],
                                   TRUE, spellAge')} :
                names' = st.names /\ slots' = st.slots /\ types' = st.types
                /\ stale' = (st.stale \/ (spellAge' # spellAge /\ ~AllListed))
    /\ UNCHANGED <<sheets, listing, beasts, changes>>

\* Monster::createMonster by a spawn, a raid, a spell or a command.
CreateMonster ==
    /\ ~stale
    /\ \E b \in Beast, n \in Name :
        /\ beasts[b] = 0 /\ names[n] # 0 /\ slots[names[n]] # 0
        /\ beasts' = [beasts EXCEPT ![b] = slots[names[n]]]
    /\ UNCHANGED <<sheets, listing, names, slots, types, spellAge, changes, reloads, stale>>

BestiaryNext == EditSheet \/ EditListing \/ Reload \/ CreateMonster

-----------------------------------------------------------------------------

\* A kind that is read again is the kind a first reading of its file would give, but for
\* its look: nothing of the last time is left in it and nothing is there twice
\* (monsters.cpp:46, monsters.cpp:724).
ReadAfresh ==
    \A i \in DOMAIN types : types[i].live /\ types[i].name # "" =>
        \E s \in Sheets : [types[i] EXCEPT !.look = Absent] =
            [Read(Blank, types[i].name, s, types[i].seen, types[i].age) EXCEPT !.look = Absent]

\* Whatever a file says, a spell's interval divides and its chance and range are in bounds
\* (monsters.cpp:289).
Fit ==
    \A i \in DOMAIN types : \A s \in Range(types[i].attacks \o types[i].defenses) :
        s.speed > 0 /\ s.chance \in 0 .. 100 /\ s.range \in 0 .. MaxRange

\* Unless it went astray: every name leads to its own kind, no monster's kind was freed, and
\* none casts a shared spell that was freed when the spells were replaced (monsters.cpp:347).
LeadToThemselves ==
    ~stale =>
        /\ \A n \in Range(listing.entries) :
            names[n] # 0 => types[slots[names[n]]].live /\ types[slots[names[n]]].name = n
        /\ \A b \in Beast : beasts[b] # 0 =>
            /\ types[beasts[b]].live
            /\ \A s \in Range(types[beasts[b]].attacks) : s.spell.shared => s.spell.age = spellAge

KindsHold == ReadAfresh /\ Fit /\ LeadToThemselves
=============================================================================
