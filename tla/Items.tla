-------------------------------- MODULE Items --------------------------------
(***************************************************************************)
(* Things and where they are: tiles, containers and inventories, the cy-   *)
(* linders of cylinder.h, and the operations of Game that move, add, take  *)
(* and transform items through their queries (game.cpp, container.cpp,     *)
(* player.cpp, tile.cpp).  Every operation runs under gameLock and is one  *)
(* step; inside it, cylinders are asked what they accept, things are taken *)
(* and added, an exchange may go first, and notifications refresh what     *)
(* players remember: the weight they carry and their open containers.      *)
(* A position in a cylinder is a number from 1: a slot of an inventory, a  *)
(* place in a container's list.  0 is INDEX_WHEREEVER, -1 "move up" (254). *)
(***************************************************************************)
EXTENDS Integers, SequencesExt

CONSTANTS Player, Item, Kind, None,
          Tile,        \* integers on a line; tiles refuse no item
          Stackable, Bag, Pickupable, Weapon, TwoHanded,   \* sets of kinds
          Worn,        \* kinds for the slot of the backpack
          Coins,       \* kinds of coins, the most valuable first
          Worth,       \* of one coin of each kind
          Weight,      \* of one thing of each kind
          DecayTo,     \* the kind a kind decays to, None to vanish, itself if it stays
          StackMax,    \* 100 in the code
          Capacity,    \* Container::maxSize, by kind
          Strength,    \* Player::capacity
          Cid,         \* ids of a client's windows for containers
          Supplies     \* bound: how much of each account scripts bring to the world,
                       \* as alternatives

Account == (Kind \ ToSet(Coins)) \cup {"money"}

ASSUME ItemsAssumption ==
    /\ Stackable \cup Bag \cup Pickupable \cup Weapon \cup TwoHanded \cup Worn \subseteq Kind
    /\ Stackable \cap Bag = {}
    /\ ToSet(Coins) \subseteq Stackable \cap Pickupable
    /\ Worth \in [ToSet(Coins) -> Nat \ {0}]
    /\ Weight \in [Kind -> Nat]
    /\ DecayTo \in [Kind -> Kind \cup {None}]
    /\ \A k \in ToSet(Coins) : \A d \in Kind : DecayTo[d] = k <=> d = k
    /\ Tile \subseteq Int
    /\ Item \subseteq Nat /\ Item \cap Tile = {}
    /\ Capacity \in [Bag -> Nat]
    /\ {StackMax, Strength} \subseteq Nat
    /\ Supplies \subseteq [Account -> Nat]

VARIABLES
    world,   \* the things: a record, see Worlds
    open,    \* Player::containerVec: the container in each window
    pos,     \* the tile of each player
    goods    \* history: what scripts brought in and took out, by kind; coins by worth

vars == <<world, open, pos, goods>>

Slot == 1 .. 3
Back == 1                     \* SLOT_BACKPACK; the other slots of clothes obey its rule
Hand == {2, 3}                \* SLOT_RIGHT, SLOT_LEFT
Other(h) == 5 - h
Cylinder == Player \cup Tile \cup Item

\* kind is None for memory that is not in use; things lists what a cylinder
\* holds, the slots of a player as a sequence of their length; weight is
\* Player::inventoryWeight.
Worlds ==
    [kind : [Item -> Kind \cup {None}], count : [Item -> 0 .. StackMax],
     parent : [Item -> Cylinder \cup {None}], things : [Cylinder -> Seq(Item \cup {None})],
     weight : [Player -> Nat]]

TypeOK ==
    /\ world \in Worlds
    /\ open \in [Player -> [Cid -> Item \cup {None}]]
    /\ pos \in [Player -> Tile]
    /\ goods \in [Account -> Nat]

-----------------------------------------------------------------------------
(* Reading the world.                                                       *)

IsBag(w, i) == i \in Item /\ w.kind[i] \in Bag
Free(w) == {i \in Item : w.kind[i] = None}
New(w) == Min(Free(w))

\* The cylinders that hold i, from its parent up.
Above(w, i) ==
    LET up[n \in 0 .. Cardinality(Item), j \in Item] ==
            LET c == w.parent[j] IN
            {c} \cup (IF n > 0 /\ c \in Item THEN up[n - 1, c] ELSE {})
    IN  up[Cardinality(Item), i]

\* Who carries c or the tile it is on; None for what is not in the world.
Root(w, c) ==
    IF c \in Player \cup Tile \cup {None} THEN c
    ELSE LET R == Above(w, c) \ Item IN IF R = {} THEN None ELSE CHOOSE r \in R : TRUE

\* Thing::getPosition.
At(w, c) == LET r == Root(w, c) IN IF r \in Player THEN pos[r] ELSE r

Near(x, y) == x \in Tile /\ y \in Tile /\ x - y \in -1 .. 1

Inside(w, c) == {i \in Item : w.kind[i] # None /\ c \in Above(w, i)}

Heavy(w, i, n) == Weight[w.kind[i]] * n
WeightOf(w, S) == MapThenSumSet(LAMBDA i : Heavy(w, i, w.count[i]), S)

\* Player::hasCapacity.
HasCapacity(w, p, i, n) ==
    \/ Root(w, i) = p
    \/ LET own == IF w.kind[i] \in Stackable THEN Heavy(w, i, n)
                  ELSE WeightOf(w, {i} \cup Inside(w, i))
       IN  own < Strength - w.weight[p]

ThingAt(w, c, k) == IF k \in DOMAIN w.things[c] THEN w.things[c][k] ELSE None

\* __getIndexOfThing, 0 if i is not there.
IndexOf(w, c, i) == SelectInSeq(w.things[c], LAMBDA j : j = i)

SameStack(w, i, t) == t # None /\ w.kind[t] = w.kind[i] /\ w.kind[i] \in Stackable

-----------------------------------------------------------------------------
(* The queries of cylinders.                                                *)

\* Mutant of Fits: the other hand is not looked at.
FitsAnyHand(w, p, k, i) == IF k = Back THEN w.kind[i] \in Worn ELSE k \in Hand

\* Whether slot k is for i, given what is in the other hand.
Fits(w, p, k, i) ==
    \/ k = Back /\ w.kind[i] \in Worn
    \/ /\ k \in Hand
       /\ LET o == w.things[p][Other(k)] IN
          \/ o \in {None, i}
          \/ /\ w.kind[i] \notin TwoHanded
             /\ w.kind[o] \notin TwoHanded
             /\ ~{w.kind[i], w.kind[o]} \subseteq Weapon

\* Player::__queryAdd.
PlayerQueryAdd(w, p, k, i, n) ==
    LET o == ThingAt(w, p, k) IN
    IF w.kind[i] \notin Pickupable \/ ~Fits(w, p, k, i) THEN "refused"
    ELSE IF o # None /\ ~SameStack(w, i, o) THEN "exchange"
    ELSE IF HasCapacity(w, p, i, n) THEN "ok" ELSE "refused"

\* Container::__queryAdd, with the question to the top parent.
ContainerQueryAdd(w, c, k, i, n) ==
    IF /\ w.kind[i] \in Pickupable
       /\ i # c /\ i \notin Above(w, c)
       /\ k = 0 => Len(w.things[c]) < Capacity[w.kind[c]]
       /\ Root(w, c) \in Player => HasCapacity(w, Root(w, c), i, n)
    THEN "ok" ELSE "refused"

QueryAdd(w, c, k, i, n) ==
    CASE c \in Tile   -> "ok"
      [] c \in Player -> PlayerQueryAdd(w, c, k, i, n)
      [] OTHER        -> ContainerQueryAdd(w, c, k, i, n)

\* Player::__queryMaxCount, where t is in the slot.
SlotMaxCount(w, i, t) ==
    IF SameStack(w, i, t) THEN StackMax - w.count[t]
    ELSE IF t # None THEN 0
    ELSE IF w.kind[i] \in Stackable THEN StackMax ELSE 1

\* How many of n things i cylinder c takes at k (maxQueryCount).
QueryMaxCount(w, c, k, i, n) ==
    LET t    == ThingAt(w, c, k)
        fill == IF SameStack(w, i, t) THEN StackMax - w.count[t] ELSE 0
        free == Max({0, Capacity[w.kind[c]] - Len(w.things[c])})
    IN  CASE c \in Tile -> Max({1, n})
          [] c \in Player -> SlotMaxCount(w, i, t)
          [] OTHER -> IF w.kind[i] \in Stackable THEN free * StackMax + fill ELSE free

\* The same answer of tiles, containers and inventories to __queryRemove.
QueryRemove(w, c, i, n) ==
    /\ i \in ToSet(w.things[c])
    /\ n # 0
    /\ w.kind[i] \in Stackable => n <= w.count[i]

\* __queryDestination: the cylinder and position meant by position k of c,
\* and the thing i would be put on.
Destination(w, c, k, i) ==
    LET t == ThingAt(w, c, k)
        into(d) == [to |-> d, at |-> 0, on |-> None]
        fit  == {s \in Slot : w.things[c][s] = None
                              /\ PlayerQueryAdd(w, c, s, i, w.count[i]) = "ok"}
        bags == {s \in Slot : IsBag(w, w.things[c][s])
                              /\ ContainerQueryAdd(w, w.things[c][s], 0, i, w.count[i]) = "ok"}
    IN  CASE c \in Tile -> [to |-> c, at |-> 0, on |-> ThingAt(w, c, 1)]
          [] c \in Item /\ k = -1 -> into(IF IsBag(w, w.parent[c]) THEN w.parent[c] ELSE c)
          [] c \in Player /\ k = 0 ->
                IF fit # {} THEN [to |-> c, at |-> Min(fit), on |-> None]
                ELSE into(IF bags # {} THEN w.things[c][Min(bags)] ELSE c)
          [] OTHER -> IF IsBag(w, t) THEN into(t)
                      ELSE IF c \in Item /\ k > Capacity[w.kind[c]] THEN into(c)
                      ELSE [to |-> c, at |-> k, on |-> t]

-----------------------------------------------------------------------------
(* Changing the world.                                                      *)

Create(w, i, k, n) == [w EXCEPT !.kind[i] = k, !.count[i] = n]

\* FreeThing of i: a container releases what it holds with it.
Destroy(w, i) ==
    LET gone == {i} \cup Inside(w, i) IN
    [w EXCEPT !.kind   = [j \in Item |-> IF j \in gone THEN None ELSE @[j]],
              !.count  = [j \in Item |-> IF j \in gone THEN 0 ELSE @[j]],
              !.parent = [j \in Item |-> IF j \in gone THEN None ELSE @[j]],
              !.things = [c \in Cylinder |-> IF c \in gone THEN <<>> ELSE @[c]]]

\* __addThing: an inventory has its slots, tiles and containers a front.
Put(w, c, k, i) ==
    [w EXCEPT !.parent[i] = c,
              !.things[c] = IF c \in Player THEN [@ EXCEPT ![k] = i] ELSE <<i>> \o @]

\* __removeThing of n things i.
Take(w, c, i, n) ==
    IF w.kind[i] \in Stackable /\ n # w.count[i]
    THEN [w EXCEPT !.count[i] = Max({0, @ - n})]
    ELSE [w EXCEPT !.parent[i] = None,
                   !.things[c] = IF c \in Player THEN [@ EXCEPT ![IndexOf(w, c, i)] = None]
                                   ELSE Remove(@, i)]

\* Mutant of Refreshed: the weight is what it was.
RefreshedNever(w, C) == w

\* postAddNotification and postRemoveNotification of the cylinders of C:
\* the players that carry them add up their weight again.
Refreshed(w, C) ==
    [w EXCEPT !.weight = [p \in Player |->
        IF \E c \in C : Root(w, c) = p THEN WeightOf(w, Inside(w, p)) ELSE @[p]]]

\* Mutant of Poured: a stack takes whatever is dropped on it.
PouredOver(w, i, t, n) == IF t # None /\ SameStack(w, i, t) THEN n ELSE 0

\* How many of n things i go on the stack t.
Poured(w, i, t, n) ==
    IF t # None /\ SameStack(w, i, t) THEN Min({StackMax - w.count[t], n}) ELSE 0

Pour(w, t, n) == IF n = 0 THEN w ELSE [w EXCEPT !.count[t] = @ + n]

\* The part of internalMoveItem that moves m things i from a cylinder to k
\* of another: what does not fit on stack t is a new stack f.
Moved(w, from, to, k, i, m, t, f) ==
    LET s      == Poured(w, i, t, m)
        taken  == Pour(Take(w, from, i, m), t, s)
        stack  == IF m - s > 0 THEN Put(Create(taken, f, w.kind[i], m - s), to, k, f) ELSE taken
        rest   == IF stack.parent[i] = None THEN Destroy(stack, i) ELSE stack
        placed == IF w.kind[i] \in Stackable THEN rest ELSE Put(taken, to, k, i)
    IN  Refreshed(placed, {from, to})

\* The thing on the destination goes to the source first.
CanExchange(w, from, d, i) ==
    LET n == w.count[d.on] IN
    /\ QueryAdd(w, from, IndexOf(w, from, i), d.on, n) = "ok"
    /\ QueryMaxCount(w, from, 0, d.on, n) # 0
    /\ QueryRemove(w, d.to, d.on, n)

Exchanged(w, from, d) ==
    Refreshed(Put(Take(w, d.to, d.on, w.count[d.on]), from, 0, d.on), {from, d.to})

\* The part of internalMoveItem after the exchange, if there was one: n things
\* i go to k of cylinder c and on the stack t.
MoveTo(w, from, c, k, i, n, t, f) ==
    LET most == QueryMaxCount(w, c, k, i, n)
        m    == IF w.kind[i] \in Stackable THEN Min({n, most}) ELSE most
    IN  IF QueryAdd(w, c, k, i, n) # "ok" \/ most = 0 \/ ~QueryRemove(w, from, i, m)
        THEN w
        ELSE Moved(w, from, c, k, i, m, t, f)

MoveOrExchange(w, from, d, i, n, f) ==
    IF d.on = i THEN w
    ELSE IF QueryAdd(w, d.to, d.at, i, n) = "exchange" /\ CanExchange(w, from, d, i)
    THEN MoveTo(Exchanged(w, from, d), from, d.to, d.at, i, n, None, f)
    ELSE MoveTo(w, from, d.to, d.at, i, n, d.on, f)

\* Game::internalMoveItem of n things i; f is memory for a new stack.
MoveItem(w, from, c, k, i, n, f) == MoveOrExchange(w, from, Destination(w, c, k, i), i, n, f)

\* Game::internalAddItem of the new thing i at destination d.  If it is partly
\* put on a stack the rest is a copy f, and i itself is forgotten: no cylinder
\* holds it and nobody frees it.
AddTo(w, d, i, f) ==
    LET n == w.count[i]
        s == Poured(w, i, d.on, n)
        most == QueryMaxCount(w, d.to, d.at, i, n)
        poured == Pour(w, d.on, s)
    IN  IF \/ QueryAdd(w, d.to, d.at, i, n) # "ok"
           \/ most = 0
           \/ w.kind[i] \in Stackable /\ most < n
        THEN [ok |-> FALSE, w |-> w]
        ELSE [ok |-> TRUE,
              w  |-> CASE s = 0 -> Refreshed(Put(w, d.to, d.at, i), {d.to})
                       [] s = n -> Destroy(poured, i)
                       [] OTHER -> Refreshed(Put(Create(poured, f, w.kind[i], n - s),
                                                 d.to, d.at, f), {d.to})]

AddItem(w, c, i, f) == AddTo(w, Destination(w, c, 0, i), i, f)

\* Game::internalPlayerAddItem of the new thing i: what p cannot take falls at
\* its feet.
AddOrDrop(w, p, i, f) ==
    LET r == AddItem(w, p, i, f) IN IF r.ok THEN r.w ELSE AddItem(w, pos[p], i, f).w

\* n new things of kind k for p.
PlayerAddItem(w, p, k, n) ==
    LET i == New(w)
        new == Create(w, i, k, n)
    IN  AddOrDrop(new, p, i, New(new))

\* Game::internalRemoveItem.
RemoveItem(w, i, n) ==
    LET c == w.parent[i]
        taken == Take(w, c, i, n)
    IN  IF c = None \/ ~QueryRemove(w, c, i, n) THEN w
        ELSE Refreshed(IF taken.parent[i] = None THEN Destroy(taken, i) ELSE taken, {c})

\* What p carries, as removeItemOfType and removeMoney come upon it: the
\* slots, then the containers level by level.
Belongings(w, p) ==
    LET below(L) == FlattenSeq([j \in DOMAIN L |-> w.things[L[j]]])
        levels[n \in 0 .. Cardinality(Item), L \in Seq(Item)] ==
            IF n = 0 \/ L = <<>> THEN L ELSE L \o levels[n - 1, below(L)]
    IN  levels[Cardinality(Item), SelectSeq(w.things[p], LAMBDA i : i # None)]

\* Mutant of RemoveItemOfType: a stack that is used up is not counted.
RemoveItemOfTypeTwice(w, p, k, n) ==
    LET have == SelectSeq(Belongings(w, p), LAMBDA i : w.kind[i] = k)
        step(a, i) ==
            IF a.due <= 0 THEN a
            ELSE LET m == IF a.due < a.w.count[i] THEN a.due ELSE a.w.count[i]
                 IN  [w |-> RemoveItem(a.w, i, m),
                      due |-> IF a.due = a.w.count[i] THEN a.due ELSE a.due - m]
    IN  FoldLeft(step, [w |-> w, due |-> n], have)

\* Game::removeItemOfType of n things of a kind that holds nothing.
RemoveItemOfType(w, p, k, n) ==
    LET have == SelectSeq(Belongings(w, p), LAMBDA i : w.kind[i] = k)
        step(a, i) ==
            IF a.due <= 0 THEN a
            ELSE LET m == Min({a.due, a.w.count[i]})
                 IN  [w |-> RemoveItem(a.w, i, m), due |-> a.due - m]
    IN  FoldLeft(step, [w |-> w, due |-> n], have)

IsCoin(w, i) == w.kind[i] \in ToSet(Coins)
Value(w, i) == IF IsCoin(w, i) THEN Worth[w.kind[i]] * w.count[i] ELSE 0

\* The change of removeMoney: coins of every kind, the most valuable first,
\* to the player or at its feet.
GiveChange(w, p, sum) ==
    LET step(a, k) ==
            LET n == a.due \div Worth[k]
            IN  IF n = 0 THEN a
                ELSE [w |-> PlayerAddItem(a.w, p, k, n), due |-> a.due - n * Worth[k]]
    IN  FoldLeft(step, [w |-> w, due |-> sum], Coins).w

\* Game::removeMoney once there is enough: stacks of coins in the order of
\* their worth, and change for the last one.
RemoveMoney(w, p, sum) ==
    LET have == SelectSeq(Belongings(w, p), LAMBDA i : IsCoin(w, i))
        cheaper(x, y) == \/ Value(w, have[x]) < Value(w, have[y])
                         \/ Value(w, have[x]) = Value(w, have[y]) /\ x < y
        step(a, x) ==
            LET v == Value(w, have[x])
                r == RemoveItem(a.w, have[x], w.count[have[x]])
            IN  IF a.due = 0 THEN a
                ELSE IF v <= a.due THEN [w |-> r, due |-> a.due - v]
                ELSE [w |-> GiveChange(r, p, v - a.due), due |-> 0]
    IN  FoldLeft(step, [w |-> w, due |-> sum], SetToSortSeq(DOMAIN have, cheaper)).w

\* Game::transformItem of a thing in the world to kind k.  Between containers
\* and between other things the object stays, else f takes its place.
TransformItem(w, i, k, f) ==
    LET c == w.parent[i] IN
    CASE w.kind[i] \in Bag /\ k \in Bag -> Refreshed([w EXCEPT !.kind[i] = k], {c})
      [] w.kind[i] \notin Bag /\ k \notin Bag ->
            Refreshed([w EXCEPT !.kind[i] = k,
                                !.count[i] = IF k \in Stackable THEN @ ELSE 1], {c})
      [] OTHER ->
            LET new == [Create(w, f, k, 1) EXCEPT
                            !.parent[f] = c, !.parent[i] = None,
                            !.things[c] = [@ EXCEPT ![IndexOf(w, c, i)] = f]]
            IN  Refreshed(Destroy(new, i), {c})

\* Game::internalDecayItem.
DecayItem(w, i, f) ==
    LET k == DecayTo[w.kind[i]] IN
    IF k = None THEN RemoveItem(w, i, w.count[i]) ELSE TransformItem(w, i, k, f)

-----------------------------------------------------------------------------
(* What players are told of containers.                                     *)

\* Player::postRemoveNotification of container i keeps its window.
StillOpen(w, p, i) == Root(w, i) \in Tile \cup {p} /\ Near(pos[p], At(w, i))

\* Player::autoCloseContainers: the windows of i and of what it holds close.
\* v is the world before, where what was in a removed container is still in it.
AutoClosed(v, w, p, i) ==
    [d \in Cid |->
        LET c == open[p][d] IN
        IF c # None /\ (c = i \/ i \in Above(v, c) \/ Root(w, c) = None) THEN None ELSE c]

\* Those that are told that something left c: the carrier, or all around.
Told(w, c) == IF Root(w, c) \in Player THEN {Root(w, c)} ELSE Player

\* The windows after i left its cylinder.
ClosedFor(v, w, i) ==
    [p \in Player |->
        IF v.kind[i] \in Bag /\ p \in Told(v, v.parent[i]) /\ ~StillOpen(w, p, i)
        THEN AutoClosed(v, w, p, i) ELSE open[p]]

-----------------------------------------------------------------------------
(* The books.                                                               *)

InWorld(w, i) == Root(w, i) # None

Money(w, S) == MapThenSumSet(LAMBDA i : Value(w, i), S)
Total(w, S, k) == MapThenSumSet(LAMBDA i : w.count[i], {i \in S : w.kind[i] = k})

\* What the things of S amount to, account by account.
Balance(w, S) ==
    [a \in Account |-> IF a = "money" THEN Money(w, S) ELSE Total(w, S, a)]

\* The books without the things of S.
Without(S) == [a \in Account |-> goods[a] - Balance(world, S)[a]]

\* n things of kind k more, or fewer.
Booked(k, n) ==
    IF k \in ToSet(Coins) THEN [goods EXCEPT !["money"] = @ + n * Worth[k]]
    ELSE [goods EXCEPT ![k] = @ + n]

-----------------------------------------------------------------------------
(* The handlers.                                                            *)

Windows(p) == {open[p][d] : d \in Cid} \ {None}

\* What p can name in a message: its inventory, tiles, its open containers.
Named(p) == {p} \cup Tile \cup Windows(p)

Positions(c) == CASE c \in Tile -> {0} [] c \in Player -> 0 .. 3 
                  [] OTHER -> -1 .. Capacity[world.kind[c]]

\* What p can move out of c: on a tile, what lies on top.
Movable(c) ==
    LET S == ToSet(world.things[c]) \ {None} IN
    IF c \in Tile /\ S # {} THEN {Head(world.things[c])} ELSE S

\* Game::thingMove, moveItem.
ThingMove(p, from, to, k, i, n) ==
    /\ Near(pos[p], At(world, from))
    /\ world.kind[i] \in Stackable => Free(world) # {}
    /\ world' = MoveItem(world, from, to, k, i, n, New(world))
    /\ open' = IF world' = world THEN open ELSE ClosedFor(world, world', i)
    /\ UNCHANGED <<pos, goods>>

\* A script gives p n things of kind k (luaDoPlayerAddItem).
GiveItem(p, k, n) ==
    /\ n \in 1 .. (IF k \in Stackable THEN StackMax ELSE 1)
    /\ \E S \in Supplies : \A a \in Account : Booked(k, n)[a] <= S[a]
    /\ Cardinality(Free(world)) >= (IF k \in Stackable THEN 2 ELSE 1)
    /\ world' = PlayerAddItem(world, p, k, n)
    /\ goods' = Booked(k, n)
    /\ UNCHANGED <<open, pos>>

\* A script or a rule of the game takes n things i away (luaDoRemoveItem).
LoseItem(i, n) ==
    /\ InWorld(world, i)
    /\ n \in 1 .. world.count[i]
    /\ world' = RemoveItem(world, i, n)
    /\ open' = ClosedFor(world, world', i)
    /\ goods' = IF n = world.count[i] THEN Without({i} \cup Inside(world, i))
                ELSE Booked(world.kind[i], -n)
    /\ UNCHANGED pos

\* Time is up for i (Game::checkDecay).  What a container holds goes with it
\* unless it becomes another container.
Decay(i) ==
    LET k == DecayTo[world.kind[i]]
        lost == {i} \cup (IF k \in Bag THEN {} ELSE Inside(world, i))
    IN  /\ InWorld(world, i)
        /\ k # world.kind[i]
        /\ Free(world) # {}
        /\ world' = DecayItem(world, i, New(world))
        /\ open' = ClosedFor(world, world', i)
        /\ goods' = [a \in Account |-> Without(lost)[a] +
                IF a # k THEN 0 ELSE IF k \in Stackable THEN world.count[i] ELSE 1]
        /\ UNCHANGED pos

\* luaDoPlayerRemoveItem, where p has n things of kind k.
SellItem(p, k, n) ==
    /\ k \notin Bag
    /\ n \in 1 .. MapThenSumSet(LAMBDA i : world.count[i],
                                {i \in Inside(world, p) : world.kind[i] = k})
    /\ world' = RemoveItemOfType(world, p, k, n).w
    /\ goods' = Booked(k, -n)
    /\ UNCHANGED <<open, pos>>

\* luaDoPlayerRemoveMoney and the price of a house, where p has enough.
Pay(p, sum) ==
    /\ sum \in 1 .. Money(world, Inside(world, p))
    /\ Cardinality(Free(world)) >= 2
    /\ world' = RemoveMoney(world, p, sum)
    /\ goods' = [goods EXCEPT !["money"] = @ - sum]
    /\ UNCHANGED <<open, pos>>

\* What p can use: things it wears, on tiles near it, in its open containers.
AtHand(p) ==
    UNION {ToSet(world.things[c]) : c \in {p} \cup Windows(p) \cup {t \in Tile : Near(pos[p], t)}}

\* Actions::openContainer for window d: what is open already is closed.
UseContainer(p, i, d) ==
    /\ i \in AtHand(p) /\ IsBag(world, i)
    /\ open' = [open EXCEPT ![p] =
            IF i \in Windows(p)
            THEN [@ EXCEPT ![Min({e \in Cid : open[p][e] = i})] = None]
            ELSE [@ EXCEPT ![d] = i]]
    /\ UNCHANGED <<world, pos, goods>>

\* Protocol79::parseCloseContainer.
CloseContainer(p, d) ==
    /\ open[p][d] # None
    /\ open' = [open EXCEPT ![p][d] = None]
    /\ UNCHANGED <<world, pos, goods>>

\* Protocol79::parseUpArrowContainer.
UpArrow(p, d) ==
    /\ open[p][d] # None
    /\ IsBag(world, world.parent[open[p][d]])
    /\ open' = [open EXCEPT ![p][d] = world.parent[@]]
    /\ UNCHANGED <<world, pos, goods>>

\* Mutant of Walk: windows stay as they are.
WalkOpen(p, t) ==
    /\ t # pos[p]
    /\ pos' = [pos EXCEPT ![p] = t]
    /\ UNCHANGED <<world, open, goods>>

\* Tile::moveCreature, on foot or by teleport, and Player::postAddNotification:
\* windows of containers that are left behind close.
Walk(p, t) ==
    /\ t # pos[p]
    /\ pos' = [pos EXCEPT ![p] = t]
    /\ open' = [open EXCEPT ![p] = [d \in Cid |->
            IF \E c \in Windows(p) : /\ Root(world, c) # p
                                     /\ ~Near(t, At(world, c))
                                     /\ @[d] = c \/ c \in Above(world, @[d])
            THEN None ELSE @[d]]]
    /\ UNCHANGED <<world, goods>>

Init ==
    /\ world = [kind |-> [i \in Item |-> None], count |-> [i \in Item |-> 0],
                parent |-> [i \in Item |-> None],
                things |-> [c \in Cylinder |-> IF c \in Player THEN <<None, None, None>>
                                               ELSE <<>>],
                weight |-> [p \in Player |-> 0]]
    /\ open = [p \in Player |-> [d \in Cid |-> None]]
    /\ pos \in [Player -> Tile]
    /\ goods = [a \in Account |-> 0]

Next ==
    \/ \E p \in Player : \E from, to \in Named(p) :
          \E i \in Movable(from), k \in Positions(to) :
             \E n \in 1 .. world.count[i] : ThingMove(p, from, to, k, i, n)
    \/ \E p \in Player, k \in Kind, n \in 1 .. StackMax : GiveItem(p, k, n)
    \/ \E i \in Item, n \in 1 .. StackMax : LoseItem(i, n)
    \/ \E i \in Item : Decay(i)
    \/ \E p \in Player, k \in Kind, n \in 1 .. StackMax * Cardinality(Item) : SellItem(p, k, n)
    \/ \E p \in Player, sum \in 1 .. Money(world, Item) : Pay(p, sum)
    \/ \E p \in Player, i \in Item, d \in Cid : UseContainer(p, i, d)
    \/ \E p \in Player, d \in Cid : CloseContainer(p, d)
    \/ \E p \in Player, d \in Cid : UpArrow(p, d)
    \/ \E p \in Player, t \in Tile : Walk(p, t)

Spec == Init /\ [][Next]_vars

-----------------------------------------------------------------------------
(* Properties.                                                              *)

\* What a cylinder lists has it as its parent and is listed once, and what
\* is in the world is, over its parents, on a tile or with a player: no
\* sequence of moves puts a container into itself (container.cpp).
Placed ==
    \A i \in Item :
        /\ \A c \in Cylinder :
              LET K == {k \in DOMAIN world.things[c] : world.things[c][k] = i} IN
              Cardinality(K) = (IF world.parent[i] = c THEN 1 ELSE 0)
        /\ world.parent[i] # None => world.kind[i] # None /\ InWorld(world, i)

\* Moves and exchanges by players, whatever they split, merge or refuse, and
\* what is taken as a payment neither lose nor double anything: the world
\* holds what scripts brought in less what they took out and what decayed.
Conserved == goods = Balance(world, {i \in Item : InWorld(world, i)})

\* Everything is in one place and nothing is lost or doubled.
Kept == Placed /\ Conserved

\* A stack has at least one and at most StackMax things, and a container no
\* more than its places (container.cpp, player.cpp).
Room ==
    \A i \in Item :
        /\ world.kind[i] # None => world.count[i] \in 1 .. StackMax
        /\ IsBag(world, i) => Len(world.things[i]) <= Capacity[world.kind[i]]

\* The weight a player remembers is that of the things it carries
\* (player.cpp, updateInventoryWeigth).
WeightExact == \A p \in Player : world.weight[p] = WeightOf(world, Inside(world, p))

\* Nobody carries what he has no strength for, however it came to him: in a
\* container, by a stack that grows, in exchange or as change (player.cpp,
\* Player::hasCapacity).
NotOverloaded ==
    \A p \in Player :
        LET S == Inside(world, p) IN S # {} => WeightOf(world, S) < Strength

\* Every window of a client shows a container that is still there, within
\* reach of the player and not carried by another (player.cpp,
\* autoCloseContainers): the pointers in containerVec are not counted.
WindowsReachable ==
    \A p \in Player : \A c \in Windows(p) :
        IsBag(world, c) /\ StillOpen(world, p, c)

\* What players keep beside the items themselves, the weight and the windows,
\* follows the items wherever they go (player.cpp).
BooksFollow == WeightExact /\ WindowsReachable

\* A player holds one weapon at most, and nothing beside a weapon that takes
\* both hands (player.cpp, Player::__queryAdd), however it came to hold it: by
\* a move, an exchange of hands or a script.  Stacks are excepted: a stack of
\* spears in one hand is not compared with what is moved out of it.
OneWeapon ==
    \A p \in Player : \A h \in Hand :
        LET i == world.things[p][h]
            o == world.things[p][Other(h)]
        IN  i # None /\ o # None =>
                /\ world.kind[i] \notin TwoHanded
                /\ {world.kind[i], world.kind[o]} \subseteq Weapon =>
                       world.kind[i] \in Stackable

\* What the queries refuse never comes about by any other way.
Limits == Room /\ OneWeapon /\ NotOverloaded

\* Whatever moves, merges, splits and exchanges there were: things keep their limits, and
\* what players keep beside the things follows them.
LimitsAndBooks == Limits /\ BooksFollow

=============================================================================
