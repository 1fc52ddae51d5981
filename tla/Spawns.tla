--------------------------------- MODULE Spawns ---------------------------------
(***************************************************************************)
(* One spawn: its blocks, the monsters it has registered under a block or, *)
(* once they have strayed from the zone, under 0, and the check that is in *)
(* the scheduler or not (spawn.cpp).  Whether a block's interval is over,  *)
(* whether a player looks on and whether there is room are choices.        *)
(***************************************************************************)
EXTENDS Integers, FiniteSets

CONSTANTS Block, RateSpawn,
          MaxStrays   \* bound

ASSUME SpawnsAssumption == IsFiniteSet(Block) /\ RateSpawn \in Nat \ {0} /\ MaxStrays \in Nat

VARIABLES
    spawned,       \* spawnedMap of a block: none, or where its monster is
    strays,        \* monsters registered under 0: how many live, how many are removed
    checkSpawnEvent,
    unplaced       \* history: blocks that found no room when the server started

spawnVars == <<spawned, strays, checkSpawnEvent, unplaced>>

SpawnTypeOK ==
    /\ spawned \in [Block -> {"none", "inZone", "outside", "removed"}]
    /\ strays \in [alive : 0 .. MaxStrays, removed : 0 .. MaxStrays]
    /\ checkSpawnEvent \in BOOLEAN /\ unplaced \in SUBSET Block

Registered == {b \in Block : spawned[b] # "none"}
Size == Cardinality(Registered) + strays.alive + strays.removed

-----------------------------------------------------------------------------

\* Spawns::startup places what it can and arms nothing.
SpawnInit ==
    /\ spawned \in [Block -> {"none", "inZone"}]
    /\ strays = [alive |-> 0, removed |-> 0]
    /\ checkSpawnEvent = FALSE
    /\ unplaced = {b \in Block : spawned[b] = "none"}

\* The first loop of checkSpawn: the removed are released, the others that are out
\* of the zone become strays.
Swept(b) == IF spawned[b] = "inZone" THEN "inZone" ELSE "none"
StraysSwept ==
    [alive |-> strays.alive + Cardinality({b \in Block : spawned[b] = "outside"}), removed |-> 0]

\* Spawn::checkSpawn: at most RateSpawn blocks are tried, and a try may find no
\* room.  The check arms itself again only for what is missing in number.
CheckSpawn ==
    LET swept == [b \in Block |-> Swept(b)]
        empty == {b \in Block : swept[b] = "none"}
    IN  /\ checkSpawnEvent
        /\ StraysSwept.alive <= MaxStrays
        /\ \E placed \in SUBSET empty :
            /\ Cardinality(placed) <= RateSpawn
            /\ spawned' = [b \in Block |-> IF b \in placed THEN "inZone" ELSE swept[b]]
        /\ strays' = StraysSwept
        /\ checkSpawnEvent' =
                (Cardinality({b \in Block : spawned'[b] # "none"}) + strays'.alive
                    < Cardinality(Block))
        /\ UNCHANGED unplaced

\* A monster walks, is pushed or is teleported over the border of the zone.
Wander ==
    \E b \in Block :
        /\ spawned[b] \in {"inZone", "outside"}
        /\ spawned' = [spawned EXCEPT ![b] = IF @ = "inZone" THEN "outside" ELSE "inZone"]
        /\ UNCHANGED <<strays, checkSpawnEvent, unplaced>>

\* Mutation: the removal leaves the check as it is.
NoSpawnCheck == checkSpawnEvent

\* Monster::onCreatureDisappear of itself, after a death, a despawn or a command:
\* Spawn::startSpawnCheck.
StartSpawnCheck == TRUE

Disappear ==
    /\ \/ \E b \in Block :
            /\ spawned[b] \in {"inZone", "outside"}
            /\ spawned' = [spawned EXCEPT ![b] = "removed"]
            /\ UNCHANGED strays
       \/ /\ strays.alive > 0
          /\ strays' = [strays EXCEPT !.alive = @ - 1, !.removed = @ + 1]
          /\ UNCHANGED spawned
    /\ checkSpawnEvent' = StartSpawnCheck
    /\ UNCHANGED unplaced

SpawnNext == CheckSpawn \/ Wander \/ Disappear

SpawnSpec == SpawnInit /\ [][SpawnNext]_spawnVars

-----------------------------------------------------------------------------

\* A spawn goes deaf only with its monsters about: while no check is in the
\* scheduler nothing it has registered is gone, and there is a monster, a stray if
\* need be, for every block but those that failed at the start.
NeverDeaf ==
    ~checkSpawnEvent =>
        /\ \A b \in Block : spawned[b] # "removed"
        /\ strays.removed = 0
        /\ Size + Cardinality(unplaced) >= Cardinality(Block)

=============================================================================
