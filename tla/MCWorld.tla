-------------------------------- MODULE MCWorld --------------------------------
(***************************************************************************)
(* Instances of Targets, Events, Spawns, Raids, Homes, Stores, Channels,    *)
(* Npcs and Beds for TLC: what goes on in the world, and what is kept of    *)
(* it.  The parts share no state, so a behaviour moves one of them and      *)
(* leaves the others where they start.                                      *)
(***************************************************************************)
EXTENDS Targets, Events, Spawns, Raids, Homes, Stores, Channels, Npcs, Beds

CONSTANTS h1, m1, m2, w1, w2, b1, b2, b3, r1, r2, r3, r4, d1, d2, d3,
    ann, bob, cat, coin, ann1, ann2, bob1, axe, bow

VARIABLE part

\* Three places in a row: the next one is in sight, the last one is protected and
\* cannot be walked to.
InSight == {e \in Cell \X Cell : e[1] - e[2] \in {-1, 0, 1}}
NextTo == {e \in Cell \X Cell : e[1] - e[2] \in {-1, 1}}
Paths == {e \in InSight : e[1] # 0}

\* A raid of three events, one of which is not told well: the last in the file comes
\* first.  A raid of a single event, one of none, and one without a chance to come.
TextAt(d) == [kind |-> "announce", tags |-> {"delay", "message"}, delay |-> d, monsters |-> {}]
Single ==
    [kind |-> "singlespawn", tags |-> {"delay", "name", "x", "y", "z"}, delay |-> 1, monsters |-> {}]
Area ==
    [kind |-> "areaspawn", tags |-> {"delay", "radius", "centerx", "centery", "centerz"},
     delay |-> 2, monsters |-> {{"name", "amount"}}]
RaidFile ==
    [r \in RaidNode |-> CASE r = r1 -> <<TextAt(7), [Single EXCEPT !.tags = @ \ {"z"}], Area>>
                         [] r = r2 -> <<Single>>
                         [] r = r3 -> <<[Area EXCEPT !.monsters = {{"amount"}}]>>
                         [] r = r4 -> <<Area>>]
RaidsXml ==
    [r \in RaidNode |-> IF r = r4 THEN {"name", "interval"} ELSE {"name", "chance", "interval"}]

\* A bed to the north, one to the west, and one without another half and out of houses.
BedIds == [b \in Bed |-> CASE b = d1 -> 1754 [] b = d2 -> 1756 [] b = d3 -> 1758]
BedsLie == [b \in Bed |-> CASE b = d1 -> "north" [] b = d2 -> "west" [] b = d3 -> "nowhere"]

\* Bob only sleeps, and wakes.
Rest == BedNext /\ (vigour'[bob] # vigour[bob] => bob \in ingame' \ ingame)

\* Texts of the lists of a house: bob, and everybody but bob.
TextsOfHouse ==
    {NoText, [NoText EXCEPT !.names = {bob}], [NoText EXCEPT !.never = {bob}, !.all = TRUE]}

\* One of the characters logs in twice.
CharacterOf == [b \in Body |-> IF b = bob1 THEN bob ELSE ann]

\* A script as it should be, one without a function, and one that fails.
Whole == [defines |-> Handlers, sound |-> TRUE]
Scripts == {Whole, [Whole EXCEPT !.defines = @ \ {"onThink"}], [defines |-> {"onThink"}, sound |-> FALSE]}

\* Bob comes only to a shop whose script is as it should be, and stays where he comes.
Shop ==
    /\ NpcNext
    /\ at'[bob] \in {LastPlace, Away}
    /\ shop' # Away /\ at'[bob] # Away => handles' = [h \in Handlers |-> Whole]

Init ==
    /\ part \in {"targets", "events", "spawns", "raids", "homes", "stores", "channels", "shop",
               "beds"}
    /\ TargetInit /\ EventInit /\ SpawnInit /\ RaidInit /\ HomeInit /\ StoreInit /\ ChannelInit
    /\ IF part = "shop" THEN TRUE ELSE at = [c \in Customer |-> Away]
    /\ NpcInit /\ BedInit
    /\ part # "targets" => pointer.at[h1] = 0
    /\ part # "spawns" => unplaced = {}
    /\ part # "homes" => house.owner = NoLodger
    /\ part # "stores" => estate.owner = NoHolder /\ record[ann].bag = Piece

Next ==
    \/ /\ part = "targets" /\ TargetNext
       /\ UNCHANGED <<part, eventVars, spawnVars, raidVars, homeVars, storeVars, channelVars,
                      npcVars, bedVars>>
    \/ /\ part = "events" /\ EventNext
       /\ UNCHANGED <<part, targetVars, spawnVars, raidVars, homeVars, storeVars, channelVars,
                      npcVars, bedVars>>
    \/ /\ part = "spawns" /\ SpawnNext
       /\ UNCHANGED <<part, targetVars, eventVars, raidVars, homeVars, storeVars, channelVars,
                      npcVars, bedVars>>
    \/ /\ part = "raids" /\ RaidNext
       /\ UNCHANGED <<part, targetVars, eventVars, spawnVars, homeVars, storeVars, channelVars,
                      npcVars, bedVars>>
    \/ /\ part = "homes" /\ HomeNext
       /\ UNCHANGED <<part, targetVars, eventVars, spawnVars, raidVars, storeVars, channelVars,
                      npcVars, bedVars>>
    \/ /\ part = "stores" /\ StoreNext
       /\ UNCHANGED <<part, targetVars, eventVars, spawnVars, raidVars, homeVars, channelVars,
                      npcVars, bedVars>>
    \/ /\ part = "channels" /\ ChannelNext
       /\ UNCHANGED <<part, targetVars, eventVars, spawnVars, raidVars, homeVars, storeVars,
                      npcVars, bedVars>>
    \/ /\ part = "shop" /\ Shop
       /\ UNCHANGED <<part, targetVars, eventVars, spawnVars, raidVars, homeVars, storeVars, channelVars,
                      bedVars>>
    \/ /\ part = "beds" /\ Rest
       /\ UNCHANGED <<part, targetVars, eventVars, spawnVars, raidVars, homeVars, storeVars, channelVars,
                      npcVars>>

Spec ==
    Init /\ [][Next]_<<part, targetVars, eventVars, spawnVars, raidVars, homeVars, storeVars,
                       channelVars, npcVars, bedVars>>

\* Every variable of the parts has its type.
WorldTypeOK ==
    /\ TargetTypeOK /\ EventTypeOK /\ SpawnTypeOK
    /\ RaidTypeOK /\ HomeTypeOK /\ StoreTypeOK /\ ChannelTypeOK /\ NpcTypeOK
    /\ BedTypeOK

\* What the world does by itself goes on: live creatures think and walk, spawns fill their
\* blocks again and a running raid comes to its end (creature.cpp:150, spawn.cpp:418,
\* raids.cpp:166).
WorldGoesOn == NoLostChain /\ NeverDeaf /\ RaidsMoveOn
=============================================================================
