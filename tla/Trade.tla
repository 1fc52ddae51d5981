------------------------------- MODULE Trade --------------------------------
(***************************************************************************)
(* The safe trade of two players and the sale of a house that runs over it *)
(* (game.cpp, player.cpp, commands.cpp, house.cpp).  Every handler holds   *)
(* gameLock and is one step.  A trade lives across many of them, while its *)
(* players walk, log out, and while anybody moves the items: the notifica- *)
(* tions that tiles, containers and inventories send to players are what   *)
(* closes a trade in time, and they are part of every step here.           *)
(* An offer is an item, or a house: its transfer document.                 *)
(***************************************************************************)
EXTENDS Integers, FiniteSets, TLC

CONSTANTS Player,     \* characters
          Item,       \* things that can be picked up
          Container,  \* the items that hold others
          Fixed,      \* items with a unique id: nobody can move them
          Letter,     \* items with a text that can be written anew
          House,
          Cell,       \* where players and items are: integers on a line
          Slots,      \* how many items an inventory holds
          Capacity,   \* how many items a container holds
          None

ASSUME TradeAssumption ==
    /\ IsFiniteSet(Item) /\ Container \subseteq Item
    /\ Fixed \subseteq Item
    /\ Letter \subseteq Item
    /\ Cell \subseteq Int
    /\ Slots \in Nat
    /\ Capacity \in Nat
    /\ None \notin Player \cup Item \cup House \cup Cell
    /\ Player \cap (Item \cup House) = {}
    /\ Item \cap House = {}
    /\ Cell \cap (Player \cup Item) = {}

VARIABLES
    online,         \* players that are not removed
    pos,            \* their tiles
    parent,         \* the cylinder of each item, None once it is destroyed
    tradeState,     \* Player::tradeState
    tradePartner,   \* Player::tradePartner
    tradeItem,      \* Player::tradeItem
    tradeItems,     \* Game::tradeItems, None for an item that is no key
    houseOwner,     \* House::houseOwner
    transferItem,   \* houses with a transfer document
    shown,          \* history: what was in the offer when it was made
    writer,         \* history: who wrote last on an offered item since, if anybody
    altered,        \* history: offered items that were changed since
    crashed         \* a null pointer was dereferenced

bookVars == <<tradeState, tradePartner, tradeItem, tradeItems, shown>>
tradeVars == <<bookVars, writer>>
worldVars == <<online, pos, parent>>
houseVars == <<houseOwner, transferItem>>
vars == <<worldVars, tradeVars, houseVars, altered, crashed>>

Offer == Item \cup House
Cylinder == Player \cup Cell \cup Container
TradeState == {"none", "initiated", "accept", "acknowledge"}

TypeOK ==
    /\ online \subseteq Player
    /\ pos \in [Player -> Cell]
    /\ parent \in [Item -> Cylinder \cup {None}]
    /\ tradeState \in [Player -> TradeState]
    /\ tradePartner \in [Player -> Player \cup {None}]
    /\ tradeItem \in [Player -> Offer \cup {None}]
    /\ tradeItems \in [Offer -> Player \cup {None}]
    /\ houseOwner \in [House -> Player \cup {None}]
    /\ transferItem \subseteq House
    /\ shown \in [Player -> SUBSET Item]
    /\ writer \in [Item -> Player \cup {None}]
    /\ altered \subseteq Item
    /\ crashed \in BOOLEAN

Init ==
    /\ online = Player
    /\ pos \in [Player -> Cell]
    /\ parent \in [Item -> Cell]
    /\ tradeState = [p \in Player |-> "none"]
    /\ tradePartner = [p \in Player |-> None]
    /\ tradeItem = [p \in Player |-> None]
    /\ tradeItems = [o \in Offer |-> None]
    /\ houseOwner \in [House -> Player \cup {None}]
    /\ \A h, k \in House : houseOwner[h] = houseOwner[k] => h = k \/ houseOwner[h] = None
    /\ transferItem = {}
    /\ shown = [p \in Player |-> {}]
    /\ writer = [i \in Item |-> None]
    /\ altered = {}
    /\ crashed = FALSE

-----------------------------------------------------------------------------
(* Where things are.                                                        *)

\* The cylinders an item is in, from its parent up.
Above(i) ==
    LET up[n \in 0 .. Cardinality(Item)] ==
            IF n = 0 THEN {parent[i]}
            ELSE up[n - 1] \cup {parent[j] : j \in up[n - 1] \cap Item}
    IN  up[Cardinality(Item)]

\* Container::isHoldingItem; nothing holds a document or is held by one.
Holds(c, i) == c \in Item /\ i \in Item /\ c \in Above(i)

Contents(i) == {j \in Item : j = i \/ Holds(i, j)}

\* Thing::getPosition of an item.
Place(i) ==
    LET up == Above(i) IN
    IF up \cap Cell # {} THEN CHOOSE c \in Cell : c \in up
    ELSE pos[CHOOSE p \in Player : p \in up]

InRange(c, d, n) == c - d \in -n .. n

InWorld(i) == parent[i] # None

\* Items a player can take hold of: carried, at hand on a tile, or in a
\* container that is one of these.
Reaches(p, i) ==
    /\ InWorld(i)
    /\ Above(i) \cap Player \subseteq {p}
    /\ InRange(Place(i), pos[p], 1)

-----------------------------------------------------------------------------
(* Closing trades.                                                          *)

\* Mutant of Ended: the partner's side stays open.
EndedAlone(S) == S

\* What is left of the trades when Game::playerCloseTrade runs for the
\* players of S: each ends with its partner's, the offers leave tradeItems
\* and an offered house takes its document back (ON_TRADE_CANCEL).
Ended(S) == S \cup ({tradePartner[p] : p \in S} \ {None})

\* Mutant of EndTrades: the offers stay in tradeItems.
EndTradesKeys(E) ==
    /\ tradeState' = [p \in Player |-> IF p \in E THEN "none" ELSE tradeState[p]]
    /\ tradePartner' = [p \in Player |-> IF p \in E THEN None ELSE tradePartner[p]]
    /\ tradeItem' = [p \in Player |-> IF p \in E THEN None ELSE tradeItem[p]]
    /\ shown' = [p \in Player |-> IF p \in E THEN {} ELSE shown[p]]
    /\ writer' = [i \in Item |-> IF \E p \in E : i \in shown[p] THEN None ELSE writer[i]]
    /\ UNCHANGED tradeItems

EndTrades(E) ==
    /\ tradeState' = [p \in Player |-> IF p \in E THEN "none" ELSE tradeState[p]]
    /\ tradePartner' = [p \in Player |-> IF p \in E THEN None ELSE tradePartner[p]]
    /\ tradeItem' = [p \in Player |-> IF p \in E THEN None ELSE tradeItem[p]]
    /\ tradeItems' = [o \in Offer |-> IF \E p \in E : tradeItem[p] = o
                                      THEN None ELSE tradeItems[o]]
    /\ shown' = [p \in Player |-> IF p \in E THEN {} ELSE shown[p]]
    /\ writer' = [i \in Item |-> IF \E p \in E : i \in shown[p] THEN None ELSE writer[i]]

CloseTrades(S) ==
    /\ EndTrades(Ended(S))
    /\ transferItem' = transferItem \ {tradeItem[p] : p \in Ended(S)}

\* Player::checkTradeState: the offer of p is i or holds it.
IsOffered(p, i) == tradeItem[p] = i \/ Holds(tradeItem[p], i)

\* Who is told that i leaves its cylinder or is changed in it: everybody
\* near a tile, players within two tiles of a container, the owner of an
\* inventory.
Told(p, i) ==
    /\ p \in online
    /\ \/ parent[i] \in Cell
       \/ parent[i] \in Container /\ InRange(pos[p], Place(i), 2)
       \/ parent[i] = p

\* Mutant of LeaveCloses: the container around an offer may be moved.
LeaveClosesInner(i) == {p \in Player : Told(p, i) /\ IsOffered(p, i)}

\* onRemoveTileItem, onRemoveContainerItem, onRemoveInventoryItem.
LeaveCloses(i) ==
    {p \in Player :
        /\ Told(p, i)
        /\ tradeItem[p] # None
        /\ \/ IsOffered(p, i)
           \/ Holds(i, tradeItem[p])
           \/ /\ parent[i] \in Container
              /\ Holds(parent[i], tradeItem[p])
              /\ tradeItem[p] \in Item => parent[tradeItem[p]] # parent[i]}

\* onAddContainerItem; tiles and inventories close nothing when they get i.
EnterCloses(d) ==
    {p \in online : /\ d \in Container
                    /\ IsOffered(p, d)
                    /\ InRange(pos[p], Place(d), 2)}

\* onUpdateTileItem, onUpdateContainerItem, onUpdateInventoryItem.
UpdateCloses(i) ==
    {p \in Player :
        /\ Told(p, i)
        /\ IF parent[i] \in Cell THEN tradeItem[p] = i ELSE IsOffered(p, i)}

-----------------------------------------------------------------------------
(* Players and items.                                                       *)

\* A handler runs for a player that is not removed.
Playing(p) == ~crashed /\ p \in online

\* Player::onCreatureMove, run for the player that moved: a step, a push, a
\* teleport.
Walk(p, c) ==
    /\ Playing(p)
    /\ c # pos[p]
    /\ pos' = [pos EXCEPT ![p] = c]
    /\ LET o == tradeItem[p]
           q == tradePartner[p]
           here == IF o \in Item /\ p \notin Above(o) THEN Place(o) ELSE c
           far == \/ o # None /\ ~InRange(here, c, 1)
                  \/ q # None /\ ~InRange(pos[q], c, 2)
       IN  CloseTrades(IF far THEN {p} ELSE {})
    /\ UNCHANGED <<online, parent, houseOwner, altered, crashed>>

\* Game::removeCreature: onCreatureDisappear closes the trade before the
\* player is marked removed.
Logout(p) ==
    /\ Playing(p)
    /\ CloseTrades(IF tradePartner[p] # None THEN {p} ELSE {})
    /\ online' = online \ {p}
    /\ UNCHANGED <<pos, parent, houseOwner, altered, crashed>>

Login(p) ==
    /\ ~crashed
    /\ p \notin online
    /\ online' = online \cup {p}
    /\ UNCHANGED <<pos, parent, tradeVars, houseVars, altered, crashed>>

\* A cylinder has a place left, when par says where the items are.
Room(par, d) ==
    Cardinality({j \in Item : par[j] = d}) <
        (IF d \in Player THEN Slots ELSE Capacity)

\* Game::moveItem of player p; d is a tile, p's inventory or a container.
MoveItem(p, i, d) ==
    /\ Playing(p)
    /\ i \notin Fixed
    /\ Reaches(p, i)
    /\ d # parent[i]
    /\ \/ d \in Cell
       \/ d = p /\ Room(parent, d)
       \/ d \in Container /\ Reaches(p, d) /\ Room(parent, d) /\ d # i /\ ~Holds(i, d)
    /\ parent' = [parent EXCEPT ![i] = d]
    /\ CloseTrades(LeaveCloses(i) \cup EnterCloses(d))
    /\ UNCHANGED <<online, pos, houseOwner, altered, crashed>>

\* Game::internalRemoveItem: an item is used up, decays or is sold.
RemoveItem(i) ==
    /\ ~crashed
    /\ InWorld(i)
    /\ \A j \in Item : parent[j] # i
    /\ parent' = [parent EXCEPT ![i] = None]
    /\ CloseTrades(LeaveCloses(i))
    /\ UNCHANGED <<online, pos, houseOwner, altered, crashed>>

\* Game::playerWriteItem: the text of i is another one, and nobody is told of it.  (What
\* can be written once only becomes another item, which is TransformItem.)
WriteItem(p, i) ==
    /\ Playing(p)
    /\ i \in Letter
    /\ Reaches(p, i)
    /\ writer' = [writer EXCEPT ![i] = IF \E q \in Player : i \in shown[q] THEN p ELSE @]
    /\ UNCHANGED <<worldVars, bookVars, houseVars, altered, crashed>>

\* Game::transformItem and the counts of a stack: i changes where it is.
TransformItem(i) ==
    /\ ~crashed
    /\ InWorld(i)
    /\ CloseTrades(UpdateCloses(i))
    /\ altered' = {j \in altered \cup {i} : \E p \in Player : j \in shown'[p]}
    /\ UNCHANGED <<worldVars, houseOwner, crashed>>

-----------------------------------------------------------------------------
(* The trade handlers.                                                      *)

\* Game::internalStartTrade.
StartTrade(p, q, o) ==
    /\ \/ tradeState[p] = "none"
       \/ tradeState[p] = "acknowledge" /\ tradePartner[p] = q
    /\ tradeState[q] = "none" \/ tradePartner[q] = p
    /\ tradePartner' = [tradePartner EXCEPT ![p] = q,
                            ![q] = IF tradeState[q] = "none" THEN p ELSE @]
    /\ tradeState' = [tradeState EXCEPT ![p] = "initiated",
                            ![q] = IF @ = "none" THEN "acknowledge" ELSE @]
    /\ tradeItem' = [tradeItem EXCEPT ![p] = o]
    /\ tradeItems' = [tradeItems EXCEPT ![o] = p]
    /\ shown' = [shown EXCEPT ![p] = IF o \in Item THEN Contents(o) ELSE {}]
    /\ writer' = [i \in Item |-> IF i \in shown'[p] THEN None ELSE writer[i]]

\* Game::playerRequestTrade.
RequestTrade(p, q, i) ==
    /\ Playing(p) /\ q \in online \ {p}
    /\ InRange(pos[p], pos[q], 2)
    /\ Reaches(p, i)
    /\ \A o \in Item : tradeItems[o] # None => o # i /\ ~Holds(i, o) /\ ~Holds(o, i)
    /\ StartTrade(p, q, i)
    /\ UNCHANGED <<worldVars, houseVars, altered, crashed>>

Owns(p, h) == houseOwner[h] = p

\* Commands::sellHouse: the document is made, and unmade again when the
\* trade cannot start.
SellHouse(p, q, h) ==
    /\ Playing(p) /\ q \in online \ {p}
    /\ Owns(p, h)
    /\ \A k \in House : ~Owns(q, k)
    /\ InRange(pos[p], pos[q], 2)
    /\ h \notin transferItem
    /\ StartTrade(p, q, h)
    /\ transferItem' = transferItem \cup {h}
    /\ UNCHANGED <<worldVars, houseOwner, altered, crashed>>

\* Game::playerAcceptTrade before the partner has accepted.
AcceptFirst(p) ==
    /\ Playing(p)
    /\ tradeState[p] \in {"acknowledge", "initiated"}
    /\ \A q \in Player : tradePartner[p] = q => tradeState[q] # "accept"
    /\ tradeState' = [tradeState EXCEPT ![p] = "accept"]
    /\ UNCHANGED <<worldVars, tradePartner, tradeItem, tradeItems, shown, writer,
                   houseVars, altered, crashed>>

\* The partner has accepted: the second half of Game::playerAcceptTrade.
BothAccept(p, q) ==
    /\ Playing(p)
    /\ tradeState[p] \in {"acknowledge", "initiated"}
    /\ tradePartner[p] = q
    /\ tradeState[q] = "accept"

\* One of them has nothing on offer: the null item cannot be added, and the
\* cancel event is sent to it.
CrashTrade(p, q) ==
    /\ BothAccept(p, q)
    /\ None \in {tradeItem[p], tradeItem[q]}
    /\ crashed' = TRUE
    /\ UNCHANGED <<worldVars, tradeVars, houseVars, altered>>

\* Mutant of Destinations: the container on offer takes the other offer in.
DestinationsOffer(par, q) ==
    IF Room(par, q) THEN {q} ELSE {c \in Container : par[c] = q /\ Room(par, c)}

\* Player::__queryDestination(INDEX_WHEREEVER): a free slot, or a container
\* in the inventory, though never the one on offer.
Destinations(par, q) ==
    IF Room(par, q) THEN {q}
    ELSE {c \in Container : par[c] = q /\ c # tradeItem[q] /\ Room(par, c)}

\* Mutant of CancelTrade: a trade that fails is left in its transfer.
CancelTradeStuck(p, q) ==
    /\ BothAccept(p, q)
    /\ None \notin {tradeItem[p], tradeItem[q]}
    /\ tradeState' = [tradeState EXCEPT ![p] = "transfer", ![q] = "transfer"]
    /\ UNCHANGED <<worldVars, houseVars, tradePartner, tradeItem, tradeItems,
                   shown, writer, altered, crashed>>

\* No room or no capacity on one side: both keep what they have.
CancelTrade(p, q) ==
    /\ BothAccept(p, q)
    /\ None \notin {tradeItem[p], tradeItem[q]}
    /\ CloseTrades({p})
    /\ UNCHANGED <<worldVars, houseOwner, altered, crashed>>

\* internalMoveItem fails for an item with a unique id, but for one in an
\* inventory; internalRemoveItem has let it pass.
Stuck(o) == o \in Fixed /\ parent[o] \notin Player

\* Where the items may be after internalMoveItem brings offer o to q; the
\* document of a house is removed again at once.
Moved(par, q, o) ==
    IF o \in House \/ Stuck(o) THEN {par}
    ELSE {[par EXCEPT ![o] = d] : d \in Destinations(par, q)}

\* House::executeTransfer, for the offers of both.
NewOwner(p, q) ==
    [h \in House |-> IF h = tradeItem[p] THEN q
                     ELSE IF h = tradeItem[q] THEN p ELSE houseOwner[h]]

\* Both offers fit, by a test before anything moves.  The second item moves
\* after the first; ON_TRADE_TRANSFER gives an offered house its new owner.
TransferTrade(p, q) ==
    LET o1 == tradeItem[p]
        o2 == tradeItem[q]
        others == (UNION {LeaveCloses(o) : o \in {o1, o2} \cap Item}) \ {p, q}
    IN
    /\ BothAccept(p, q)
    /\ None \notin {o1, o2}
    /\ Destinations(parent, q) # {} /\ Destinations(parent, p) # {}
    /\ \E par \in Moved(parent, q, o1) : parent' \in Moved(par, p, o2)
    /\ houseOwner' = NewOwner(p, q)
    /\ CloseTrades({p} \cup others)
    /\ UNCHANGED <<online, pos, altered, crashed>>

\* Game::playerCloseTrade asked for by the client.
CloseTrade(p) ==
    /\ Playing(p)
    /\ CloseTrades({p})
    /\ UNCHANGED <<worldVars, houseOwner, altered, crashed>>

-----------------------------------------------------------------------------
(* Houses.                                                                  *)

\* Commands::buyHouse.
BuyHouse(p, h) ==
    /\ Playing(p)
    /\ \A k \in House : ~Owns(p, k)
    /\ houseOwner[h] = None
    /\ houseOwner' = [houseOwner EXCEPT ![h] = p]
    /\ UNCHANGED <<worldVars, tradeVars, transferItem, altered, crashed>>

\* Commands::leaveHouse: the document of the house is not asked for.
LeaveHouse(p, h) ==
    /\ Playing(p)
    /\ Owns(p, h)
    /\ houseOwner' = [houseOwner EXCEPT ![h] = None]
    /\ UNCHANGED <<worldVars, tradeVars, transferItem, altered, crashed>>

-----------------------------------------------------------------------------
World ==
    \/ \E p \in Player :
          \/ \E c \in Cell : Walk(p, c)
          \/ Logout(p)
          \/ Login(p)
          \/ \E i \in Item, d \in Cylinder : MoveItem(p, i, d)
          \/ \E i \in Item : WriteItem(p, i)
    \/ \E i \in Item : RemoveItem(i) \/ TransformItem(i)

Trading ==
    \E p \in Player :
       \/ AcceptFirst(p)
       \/ CloseTrade(p)
       \/ \E q \in Player :
             \/ CrashTrade(p, q) \/ CancelTrade(p, q) \/ TransferTrade(p, q)
             \/ \E i \in Item : RequestTrade(p, q, i)
             \/ \E h \in House : SellHouse(p, q, h)

Housing == \E p \in Player, h \in House : BuyHouse(p, h) \/ LeaveHouse(p, h)

Next == World \/ Trading \/ Housing

Spec == Init /\ [][Next]_vars

-----------------------------------------------------------------------------
(* Properties.                                                              *)

\* Two players are in a trade together or not at all: a partner is never
\* somebody who trades with a third or who left, and nobody is left with an
\* offer, or half-way through, after the partner's trade was closed.
PartnersAgree ==
    \A p \in Player :
        LET q == tradePartner[p] IN
        /\ q = None <=> tradeState[p] = "none"
        /\ q = None => tradeItem[p] = None
        /\ q # None => /\ p \in online /\ q \in online \ {p}
                       /\ tradePartner[q] = p
                       /\ tradeItem[p] # None \/ tradeItem[q] # None
                       /\ ~(tradeState[p] = "accept" /\ tradeState[q] = "accept")
        /\ tradeState[p] = "initiated" => tradeItem[p] # None
        /\ tradeState[p] = "acknowledge" => tradeItem[p] = None

\* tradeItems, by which an item is refused a second time and its reference
\* is given back, lists the offers of all trades and nothing else; no offer
\* is part of another; a house has a document just while it is on offer.
OffersExact ==
    /\ \A o \in Offer, p \in Player : tradeItems[o] = p <=> tradeItem[p] = o
    /\ \A p, q \in Player : ~Holds(tradeItem[p], tradeItem[q])
    /\ transferItem = {tradeItem[p] : p \in Player} \cap House

\* The book of trades is in order: what both partners and tradeItems say of
\* every trade agrees, however trades were opened and closed (game.cpp).
TradesAgree == PartnersAgree /\ OffersExact

\* (1) What is on offer exists, is at hand for the one who offers it, and the
\* partner stands near: the notifications close every other trade in time.
OfferAtHand ==
    \A p \in Player :
        /\ tradeItem[p] \in Item => Reaches(p, tradeItem[p])
        /\ tradePartner[p] # None => InRange(pos[p], pos[tradePartner[p]], 2)

\* (2) The content of an offer is the one its partner was shown: nothing is put in, taken
\* out or made into something else under a trade, however deep it lies.  The text of a letter
\* is excepted: it may be written anew and no trade is told (game.cpp:1999).
OfferAsShown ==
    \A p \in Player : tradeItem[p] \in Item =>
        /\ Contents(tradeItem[p]) = shown[p]
        /\ altered \cap shown[p] = {}

\* (3) Such a letter is written anew by him who offers it and by nobody else, as long as he
\* carries the offer; where it lies, anybody at hand may write (game.cpp:1985).
LettersOwn ==
    \A p \in Player : tradeItem[p] \in Item /\ p \in Above(tradeItem[p]) =>
        \A i \in shown[p] : writer[i] \in {None, p}

\* What was agreed on is still there to be exchanged: no move, removal or change of
\* an item leaves a trade open over something else or out of reach, but for the text of
\* a letter.
OffersStand == OfferAtHand /\ OfferAsShown /\ LettersOwn

\* A trade that is open is open for both, in the books and over what was shown
\* (game.cpp:2280, player.cpp:1278).
OffersHold == TradesAgree /\ OffersStand

\* What a player carries gets into the hands of another one only in a trade
\* of the two, as what was offered, and in return for the other offer, unless
\* that has a unique id and lies on the ground, when it stays there.
Exchange ==
    [][\A p, q \in Player, i \in Item :
          p # q /\ p \in Above(i) /\ q \in Above(i)' =>
              /\ tradePartner[p] = q
              /\ i \in shown[p]
              /\ \/ tradeItem[q] \in House /\ houseOwner'[tradeItem[q]] = p
                 \/ \E j \in Item : j = tradeItem[q] /\ (Stuck(j) \/ p \in Above(j)')]_vars

\* commands.cpp:1447 "why is he trying to buy a house? he alreadly has one":
\* nobody has two houses.
OneHouse ==
    \A h, k \in House : houseOwner[h] = houseOwner[k] => h = k \/ houseOwner[h] = None

-----------------------------------------------------------------------------

\* For TLC: players, and where nothing tells them apart houses, are interchangeable.
Symmetry == Permutations(Player)
HouseSymmetry == Symmetry \cup Permutations(House)
=============================================================================
