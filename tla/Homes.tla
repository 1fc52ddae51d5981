---------------------------------- MODULE Homes ----------------------------------
(***************************************************************************)
(* A house and who may be in it: its owner, the lists of subowners and     *)
(* guests, the windows in which they are edited, and where the players are *)
(* when they go in, leave the game and come back (house.cpp,               *)
(* housetile.cpp, spells.cpp, protocol79.cpp, map.cpp).  Gamemasters, whom *)
(* every house lets in, doors and beds are left out.                       *)
(***************************************************************************)
EXTENDS Integers

CONSTANTS Lodger,       \* players
          NoLodger,       \* houseOwner ""
          Texts         \* access lists, see AccessList

\* What parseList makes of a text: "!name" lines, "*", and names.
AccessList == [never : SUBSET Lodger, all : BOOLEAN, names : SUBSET Lodger]
NoText == [never |-> {}, all |-> FALSE, names |-> {}]

ASSUME HomeAssumption == NoLodger \notin Lodger /\ Texts \subseteq AccessList /\ NoText \in Texts

VARIABLES
    house,       \* houseOwner, guestList and subOwnerList
    present,     \* players in the game
    within,      \* players in the house, or whose loginPosition is in it
    window       \* Protocol79::house and listId: the list a player edits, or none

homeVars == <<house, present, within, window>>

HomeTypeOK ==
    /\ house \in [owner : Lodger \cup {NoLodger}, guests : Texts, subs : Texts]
    /\ present \subseteq Lodger /\ within \subseteq Lodger
    /\ window \in [Lodger -> {"none", "guests", "subs"}]

\* AccessList::isInList: what is excluded comes first.
IsInList(l, p) == p \notin l.never /\ (l.all \/ p \in l.names)

\* House::getHouseAccessLevel.
HouseLevel(h, p) ==
    IF p = h.owner THEN "owner"
    ELSE IF IsInList(h.subs, p) THEN "subowner"
    ELSE IF IsInList(h.guests, p) THEN "guest" ELSE "none"
IsInvited(h, p) == HouseLevel(h, p) # "none"

CanEditAccessList(h, l, p) ==
    HouseLevel(h, p) \in (IF l = "guests" THEN {"owner", "subowner"} ELSE {"owner"})

\* Mutation: nobody is put out.
StayingAll(h) == within

\* House::setAccessList teleports those who are not invited to the entry.
Staying(h) == {p \in within : p \in present => IsInvited(h, p)}

HomeInit ==
    /\ house \in [owner : Lodger \cup {NoLodger}, guests : {NoText}, subs : {NoText}]
    /\ present = {} /\ within = {}
    /\ window = [p \in Lodger |-> "none"]

\* Map::placeCreature: who is not invited any more appears at the entry.
AppearAtHome(p) ==
    /\ p \notin present
    /\ present' = present \cup {p}
    /\ within' = IF IsInvited(house, p) THEN within ELSE within \ {p}
    /\ UNCHANGED <<house, window>>

\* Player::onCreatureDisappear keeps the position.
LeaveGame(p) ==
    /\ p \in present
    /\ present' = present \ {p}
    /\ window' = [window EXCEPT ![p] = "none"]
    /\ UNCHANGED <<house, within>>

\* HouseTile::__queryAdd.
StepIn(p) ==
    /\ p \in present \ within /\ IsInvited(house, p)
    /\ within' = within \cup {p}
    /\ UNCHANGED <<house, present, window>>

StepOut(p) ==
    /\ p \in present \cap within
    /\ within' = within \ {p}
    /\ UNCHANGED <<house, present, window>>

\* House::kickPlayer: one's own or a lower level, and oneself.
LevelRank(h, p) == CASE HouseLevel(h, p) = "owner" -> 3 [] HouseLevel(h, p) = "subowner" -> 2
                [] HouseLevel(h, p) = "guest" -> 1 [] HouseLevel(h, p) = "none" -> 0
KickFromHouse(p, q) ==
    /\ {p, q} \subseteq present \cap within /\ LevelRank(house, p) >= LevelRank(house, q)
    /\ within' = within \ {q}
    /\ UNCHANGED <<house, present, window>>

\* The spells that open a window ask for the right to edit ...
OpenHouseWindow(p, l) ==
    /\ p \in present \cap within /\ CanEditAccessList(house, l, p)
    /\ window' = [window EXCEPT ![p] = l]
    /\ UNCHANGED <<house, present, within>>

\* ... Protocol79::parseHouseWindow, which stores the list, does not ask again.
SetAccessList(p, t) ==
    /\ p \in present /\ window[p] # "none"
    /\ LET h == IF window[p] = "guests" THEN [house EXCEPT !.guests = t] ELSE [house EXCEPT !.subs = t]
       IN house' = h /\ within' = Staying(h)
    /\ window' = [window EXCEPT ![p] = "none"]
    /\ UNCHANGED present

\* House::setHouseOwner, from commands, scripts, sales and rents: with an owner the lists
\* go, and everybody with them, before there is a new one.
SetHouseOwner(n) ==
    /\ n # house.owner
    /\ LET bare == [owner |-> NoLodger, guests |-> NoText, subs |-> NoText]
       IN IF house.owner = NoLodger
          THEN house' = [house EXCEPT !.owner = n] /\ UNCHANGED within
          ELSE house' = [bare EXCEPT !.owner = n] /\ within' = Staying(bare)
    /\ UNCHANGED <<present, window>>

HomeNext ==
    \/ \E p \in Lodger : AppearAtHome(p) \/ LeaveGame(p) \/ StepIn(p) \/ StepOut(p)
    \/ \E p, q \in Lodger : KickFromHouse(p, q)
    \/ \E p \in Lodger, l \in {"guests", "subs"} : OpenHouseWindow(p, l)
    \/ \E p \in Lodger, t \in Texts : SetAccessList(p, t)
    \/ \E n \in Lodger \cup {NoLodger} : SetHouseOwner(n)

HomeSpec == HomeInit /\ [][HomeNext]_homeVars

\* Whoever is in the game and in the house is invited, although lists and owners change
\* while others are inside, out of the game or at a window that was opened before.
OnlyInvitedInside == \A p \in present \cap within : IsInvited(house, p)

=============================================================================
