---------------------------------- MODULE Beds ----------------------------------
(***************************************************************************)
(* The beds of houses: who sleeps in one leaves the game and is woken when *)
(* he comes back, with health and mana for the food he had; both halves of *)
(* a bed show whether it is taken.  The sleepers are written to beds.xml   *)
(* at a save of the server and read at its start (beds.cpp, game.cpp,      *)
(* actions.cpp).  gameLock makes a handler atomic.  On the map a bed's     *)
(* other half lies on a tile of its own.                                   *)
(***************************************************************************)
EXTENDS Integers

CONSTANTS Sleeper,              \* characters
          Empty,                \* sleeper ""
          Premium,              \* those who paid
          Bed,
          Housed,               \* beds on the tile of a house
          HeadId, Lies,         \* on the map: a bed's id and where its other half is
          Ticks, HealthGain, ManaGain,  \* of a vocation
          MaxHealth, MaxMana, MaxFood,
          MaxClock              \* bound: the clock, in seconds

Heads == {1754, 1756, 1758, 1760}
HalfId == 1754 .. 1769

ASSUME BedAssumption ==
    /\ Empty \notin Sleeper /\ Premium \subseteq Sleeper /\ Housed \subseteq Bed
    /\ HeadId \in [Bed -> Heads] /\ Lies \in [Bed -> {"north", "west", "nowhere"}]
    /\ Ticks \in Nat \ {0} /\ HealthGain \in Nat /\ ManaGain \in Nat
    /\ MaxHealth \in Nat /\ MaxMana \in Nat /\ MaxFood \in Nat /\ MaxClock \in Nat

VARIABLES
    beds,      \* the two halves, the sleeper and the begin of his sleep; and history, see Beds
    bedFile,   \* beds.xml
    ingame,     \* characters in the game
    infight,   \* those of them who fight
    vigour,    \* health, mana and food, in memory or stored
    clock

bedVars == <<beds, bedFile, ingame, infight, vigour, clock>>

\* ghosts look taken and are not: the sleeper was not found among the stored players.
Beds ==
    [head : [Bed -> HalfId], foot : [Bed -> HalfId], sleeper : [Bed -> Sleeper \cup {Empty}],
     since : [Bed -> 0 .. MaxClock], ghosts : SUBSET Bed]
Vigour == [health : 0 .. MaxHealth, mana : 0 .. MaxMana, food : 0 .. MaxFood]

BedTypeOK ==
    /\ beds \in Beds /\ bedFile \in [Bed -> Sleeper \cup {Empty}]
    /\ infight \subseteq ingame /\ ingame \subseteq Sleeper
    /\ vigour \in [Sleeper -> Vigour] /\ clock \in 0 .. MaxClock

-----------------------------------------------------------------------------

\* Bed::getOccupiedId and getEmptyId.
OccupiedId(id) ==
    CASE id \in {1754, 1755, 1758, 1759} -> id + 8
      [] id \in {1756, 1757} -> id + 12
      [] id \in {1760, 1761} -> id + 4
      [] OTHER -> id
EmptyId(id) ==
    CASE id \in {1762, 1763, 1766, 1767} -> id - 8
      [] id \in {1768, 1769} -> id - 12
      [] id \in {1764, 1765} -> id - 4
      [] OTHER -> id
Taken(id) == id \in 1762 .. 1769

\* Bed::getSecondPart looks on the next tile, in the direction the id of the head tells.
Direction(id) == IF id \in {1756, 1760, 1764, 1768} THEN "west" ELSE "north"

\* Both halves are transformed, the second one if the head finds it.
Made(w, b, taken) ==
    LET head == IF taken THEN OccupiedId(w.head[b]) ELSE EmptyId(w.head[b])
        foot == IF taken THEN OccupiedId(w.foot[b]) ELSE EmptyId(w.foot[b])
    IN  [w EXCEPT !.head[b] = head, !.foot[b] = IF Direction(head) = Lies[b] THEN foot ELSE @]

\* Bed::setSleeper; found is what IOPlayer::playerExists says.  If it is no, the bed is
\* to be emptied, which is not done where nobody slept.
SetSleeper(w, b, n, found) ==
    IF n = w.sleeper[b] THEN w
    ELSE IF n # Empty /\ found
    THEN [Made(w, b, TRUE) EXCEPT !.sleeper[b] = n, !.ghosts = @ \ {b}]
    ELSE IF n # Empty /\ w.sleeper[b] = Empty
    THEN [Made(w, b, TRUE) EXCEPT !.ghosts = @ \cup {b}]
    ELSE [Made(w, b, FALSE) EXCEPT !.sleeper[b] = Empty, !.ghosts = @ \ {b}]

\* Bed::getGainedHealth and getGainedMana: half of what the food would have given.
UsedFood(v, slept) == IF v.food < slept THEN v.food ELSE slept

\* Mutation: what is missing is no limit.
GainedTooMuch(missing, amount, used) == ((used \div Ticks) * amount) \div 2

Gained(missing, amount, used) ==
    LET gain == ((used \div Ticks) * amount) \div 2 IN IF missing < gain THEN missing ELSE gain

Rested(v, slept) ==
    LET used == UsedFood(v, slept)
    IN  [health |-> v.health + Gained(MaxHealth - v.health, HealthGain, used),
         mana |-> v.mana + Gained(MaxMana - v.mana, ManaGain, used),
         food |-> v.food - used]

\* Bed::wakeUp.
WakeUp(w, b) == SetSleeper(w, b, Empty, TRUE)

-----------------------------------------------------------------------------

\* The beds as the map has them.
OnMap ==
    [head |-> HeadId, foot |-> [b \in Bed |-> HeadId[b] + 1], sleeper |-> [b \in Bed |-> Empty],
     since |-> [b \in Bed |-> 0], ghosts |-> {}]

BedInit ==
    /\ beds = OnMap /\ bedFile = [b \in Bed |-> Empty]
    /\ ingame = {} /\ infight = {} /\ clock = 0
    /\ vigour = [n \in Sleeper |-> [health |-> 0, mana |-> 0, food |-> MaxFood]]

BedsOf(n) == {b \in Bed : beds.sleeper[b] = n}

\* The end of Game::placeCreature: Beds::getBedBySleeper, wakeUp.
PlaceSleeper(n) ==
    /\ n \notin ingame
    /\ ingame' = ingame \cup {n}
    /\ IF BedsOf(n) = {} THEN UNCHANGED <<beds, vigour>>
       ELSE \E b \in BedsOf(n) :    \* the first of them
                /\ beds' = WakeUp(beds, b)
                /\ vigour' = [vigour EXCEPT ![n] = Rested(@, clock - beds.since[b])]
    /\ UNCHANGED <<bedFile, infight, clock>>

\* Logged out, killed or kicked.
LeaveWorld(n) ==
    /\ n \in ingame
    /\ ingame' = ingame \ {n} /\ infight' = infight \ {n}
    /\ UNCHANGED <<beds, bedFile, vigour, clock>>

\* Blows, potions and meals.
Live(n, v) ==
    /\ n \in ingame
    /\ vigour' = [vigour EXCEPT ![n] = v]
    /\ infight' \in {infight \cup {n}, infight \ {n}}
    /\ UNCHANGED <<beds, bedFile, ingame, clock>>

\* Mutation: he is not kicked.
StaysUp(n) == ingame

\* Player::kickPlayer, of useBed.
Kicked(n) == ingame \ {n}

\* Bed::canUse and useBed.
UseBed(n, b, found) ==
    /\ n \in (ingame \cap Premium) \ infight
    /\ b \in Housed /\ beds.sleeper[b] = Empty
    /\ ingame' = Kicked(n)
    /\ beds' = [SetSleeper(beds, b, n, found) EXCEPT !.since[b] = clock]
    /\ UNCHANGED <<bedFile, infight, vigour, clock>>

\* IOBedsXML::saveBeds, the last but one thing Game::saveServer does.
SaveBeds ==
    /\ bedFile' = beds.sleeper
    /\ UNCHANGED <<beds, ingame, infight, vigour, clock>>

\* A bed after IOBedsXML::loadBeds.  The begin of a sleep is written as sleepstart and
\* read as startsleep, so that all sleep begins anew.
LoadedBeds(found) ==
    LET Set(b) == SetSleeper(OnMap, b, bedFile[b], b \in found) IN
    [head |-> [b \in Bed |-> Set(b).head[b]], foot |-> [b \in Bed |-> Set(b).foot[b]],
     sleeper |-> [b \in Bed |-> Set(b).sleeper[b]],
     since |-> [b \in Bed |-> IF bedFile[b] = Empty THEN 0 ELSE clock],
     ghosts |-> {b \in Bed : b \in Set(b).ghosts}]

\* The server stops or crashes, and starts.
RestartBeds(found) ==
    /\ beds' = LoadedBeds(found)
    /\ ingame' = {} /\ infight' = {}
    /\ UNCHANGED <<bedFile, vigour, clock>>

SecondPasses ==
    /\ clock < MaxClock /\ clock' = clock + 1
    /\ UNCHANGED <<beds, bedFile, ingame, infight, vigour>>

BedNext ==
    \/ \E n \in Sleeper : PlaceSleeper(n) \/ LeaveWorld(n)
    \/ \E n \in Sleeper, v \in Vigour : Live(n, v)
    \/ \E n \in Sleeper, b \in Bed, found \in BOOLEAN : UseBed(n, b, found)
    \/ SaveBeds \/ SecondPasses
    \/ \E found \in SUBSET Bed : RestartBeds(found)

BedSpec == BedInit /\ [][BedNext]_bedVars

-----------------------------------------------------------------------------

\* Nobody sleeps while he is in the game, or in two beds, now or after a restart; and a
\* bed shows on both halves whether somebody sleeps there.  Excepted are the ghosts.
BedsHold ==
    /\ \A b \in Bed : beds.sleeper[b] \notin ingame
    /\ \A a, b \in Bed : a # b =>
          /\ beds.sleeper[a] = beds.sleeper[b] => beds.sleeper[a] = Empty
          /\ bedFile[a] = bedFile[b] => bedFile[a] = Empty
    /\ \A b \in Bed :
          /\ Taken(beds.head[b]) <=> (beds.sleeper[b] # Empty \/ b \in beds.ghosts)
          /\ Direction(HeadId[b]) = Lies[b] => (Taken(beds.foot[b]) <=> Taken(beds.head[b]))

=============================================================================
