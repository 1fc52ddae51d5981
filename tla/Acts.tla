--------------------------------- MODULE Acts ---------------------------------
(***************************************************************************)
(* What a player does with things (protocol79.cpp, player.cpp, game.cpp,   *)
(* actions.cpp): using, turning, moving and trading an item, at once or    *)
(* after walking to it, writing into a book, and pushing a creature.       *)
(* Between the order and the deed the item may be moved, changed or taken  *)
(* by others, and the order is kept in fields that the thread of the       *)
(* connection writes one by one without gameLock, while the walk event     *)
(* reads them and clears them one by one, both in the order of the code.   *)
(* The tiles are a line.                                                   *)
(***************************************************************************)
EXTENDS Integers, Sequences, FiniteSets, TLC

CONSTANTS LastTile,     \* the tiles are 0 .. LastTile
          Sanctuary,    \* the tiles of a protection zone
          FarReach,     \* how far an item can be used on something, 7 in the code
          MinAction,    \* MIN_ACTIONTIME
          Aims,         \* the tiles on which things are used and to which they are moved
          MaxPushes     \* pushes that wait for their second; nothing else is asked meanwhile

ASSUME ActsAssumption ==
    /\ {LastTile, FarReach, MinAction, MaxPushes} \subseteq Nat \ {0}
    /\ Sanctuary \cup Aims \subseteq 0 .. LastTile

VARIABLES
    spot,       \* where the player and the other creature are
    stuff,      \* the item: where it is (ground, a player or gone) and its sprite
    order,      \* walkToItem: kind, from, sprite, to
    asking,     \* the order that the thread of the connection writes, and the fields left to it
    event,      \* how far the walk event is, what it has read, and the fields left to clear
    steps,      \* listWalkDir
    rest,       \* what is left of MIN_ACTIONTIME since lastAction
    pushes,     \* the events of moveCreature
    window,     \* readItem: a text window for the item is open
    mark,       \* history: whose order each field is of
    deed        \* history: how things were done, and whether for the order that is there

actVars == <<spot, stuff, order, asking, event, steps, rest, pushes, window, mark, deed>>

TileNo == 0 .. LastTile
Sprite == {1, 2}
Deferred == {"use", "useEx", "move", "trade", "rotate"}
Nowhere == -5
Theirs == -8
Gone == -11
Beside(a, b) == a - b \in -1 .. 1

\* walkToItem_t.  A position is one field here.  The stack positions, toSpriteId and the index
\* are left out: a deed may go by those of a cleared order or of the next one.
Order(kind, from, sprite, to) == [kind |-> kind, from |-> from, sprite |-> sprite, to |-> to]
Field == {"kind", "from", "to", "sprite"}
Nothing == Order("none", Nowhere, 0, Nowhere)

\* What a client asks for: it sees where the item is, its sprite may have changed since.
Asked == {Order(k, stuff.at, s, t) : k \in Deferred, s \in Sprite, t \in Aims}

\* history: a field is of the last order, of the one before, or cleared.
Mark == {"new", "old", "cleared"}
Quiet == [stage |-> "none", kind |-> "none", sprite |-> 0, marks |-> [f \in {"kind", "sprite"} |-> "cleared"],
          left |-> {}, raced |-> FALSE]

ActsTypeOK ==
    /\ spot \in [me : TileNo, other : TileNo]
    /\ stuff.at \in TileNo \cup {Theirs, Gone} /\ stuff.sprite \in Sprite
    /\ order.kind \in Deferred \cup {"none"} /\ order.from \in TileNo \cup {Nowhere}
    /\ order.sprite \in Sprite \cup {0} /\ order.to \in TileNo \cup {Nowhere}
    /\ asking.left \cup event.left \subseteq Field /\ rest \in 0 .. MinAction
    /\ event.stage \in {"none", "call", "look", "clear"}
    /\ steps \in Seq({-1, 1}) /\ pushes \subseteq [from : TileNo, to : TileNo]
    /\ mark \in [Field -> Mark]
    /\ {window, deed.done, deed.near, deed.whole, deed.once, deed.rested, event.raced} \subseteq BOOLEAN

ActsInit ==
    /\ spot \in {[me |-> 0, other |-> p] : p \in TileNo \ {0}}
    /\ stuff \in {[at |-> p, sprite |-> 1] : p \in TileNo}
    /\ order = Nothing /\ asking = [left |-> {}, order |-> Nothing] /\ event = Quiet
    /\ mark = [f \in Field |-> "cleared"]
    /\ steps = <<>> /\ rest = 0 /\ pushes = {}
    /\ window = FALSE
    /\ deed = [near |-> TRUE, whole |-> TRUE, once |-> TRUE, rested |-> TRUE, done |-> FALSE]

-----------------------------------------------------------------------------

\* w: where the player is and what a deed changes, as a record.
Scene == [me |-> spot.me, stuff |-> stuff, rest |-> rest, window |-> window, deed |-> deed]

\* Game::internalGetThing finds what lies there now; its sprite is compared with the one
\* that the client saw.
Found(w, o) == w.stuff.at = o.from /\ w.stuff.sprite = o.sprite

\* history: the deed was done from beside, out of one order, for the first time for the order
\* of its kind, and after a rest; marks: of whose order are the fields that it goes by.
\* done: something was done for the order whose kind is still there.
Did(w, o, marks, checked) ==
    LET used == {marks[f] : f \in Field \ (IF o.kind \in {"useEx", "move"} THEN {} ELSE {"to"})}
    IN  [w EXCEPT !.deed.near = @ /\ (event.raced \/ Beside(w.me, o.from)),
                  !.deed.whole = @ /\ (event.raced \/ used \in {{"new"}, {"old"}}),
                  !.deed.once = @ /\ ~w.deed.done,
                  !.deed.done = @ \/ marks["kind"] = mark["kind"],
                  !.deed.rested = @ /\ (checked => w.rest = 0),
                  !.rest = IF checked THEN MinAction ELSE @]

\* transformItem: another sprite, or the item is replaced and the old one removed.
Turned(w) == {[w EXCEPT !.stuff.sprite = 3 - @], [w EXCEPT !.stuff.at = Gone]}

\* Player::sendTextWindow: the item is remembered when it may be written.
OpensWindow(w) == {[w EXCEPT !.window = writes] : writes \in BOOLEAN}

\* Actions::canUse and canUseFar; an action may be one for near things only.
CanUse(w, o) == Beside(w.me, o.from)
CanUseFar(w, p) == p - w.me \in -FarReach .. FarReach

\* Mutation: the sprite is not compared.
UsesWhatLiesThere(w, o, marks) ==
    IF w.stuff.at = o.from /\ w.rest = 0
    THEN {w} \cup (LET d == Did(w, o, marks, TRUE) IN {d} \cup Turned(d)) ELSE {w}

\* Game::playerUseItem once canUse has agreed, Actions::useItem and internalUseItem: a door, a
\* script, a text or a container, or nothing that can be used, after which there is no rest.
PlayerUseItem(w, o, marks) ==
    IF Found(w, o) /\ w.rest = 0
    THEN {w} \cup (LET d == Did(w, o, marks, TRUE) IN {d} \cup Turned(d) \cup OpensWindow(d)) ELSE {w}

\* Game::playerUseItemEx once canUse has agreed, and Actions::useItemEx.
PlayerUseItemEx(w, o, marks) ==
    IF Found(w, o) /\ w.rest = 0 /\ CanUseFar(w, o.to)
    THEN {w} \cup (LET d == Did(w, o, marks, TRUE) IN {d} \cup Turned(d)) ELSE {w}

\* Game::moveItem; the other tile may refuse it.
MoveThing(w, o, marks) ==
    IF Found(w, o) /\ Beside(w.me, w.stuff.at) /\ o.to \in TileNo
    THEN {w, [Did(w, o, marks, FALSE) EXCEPT !.stuff.at = o.to]} ELSE {w}

\* Game::playerRequestTrade, whose rest is in module Trade.
PlayerRequestTrade(w, o, marks) ==
    IF Found(w, o) /\ Beside(w.me, w.stuff.at) THEN {w, Did(w, o, marks, FALSE)} ELSE {w}

\* Game::playerRotateItem.
PlayerRotateItem(w, o, marks) ==
    IF Found(w, o) /\ Beside(w.me, w.stuff.at) THEN {w} \cup Turned(Did(w, o, marks, FALSE)) ELSE {w}

Carry(w, o, marks) ==
    CASE o.kind = "use" -> PlayerUseItem(w, o, marks)
      [] o.kind = "useEx" -> PlayerUseItemEx(w, o, marks)
      [] o.kind = "move" -> MoveThing(w, o, marks)
      [] o.kind = "trade" -> PlayerRequestTrade(w, o, marks)
      [] o.kind = "rotate" -> PlayerRotateItem(w, o, marks)

Becomes(w) ==
    stuff' = w.stuff /\ rest' = w.rest /\ window' = w.window /\ deed' = w.deed

-----------------------------------------------------------------------------

\* Player::setFollowItem(fromPos): who is not beside the item walks there, if there is a way.
Way(from) == IF from > spot.me THEN [n \in 1 .. from - spot.me - 1 |-> 1]
             ELSE [n \in 1 .. spot.me - from - 1 |-> -1]

\* gameLock is free: the walk event holds it from its first step to its last.
Unlocked == event.stage = "none"

\* parseUseItem, parseUseItemEx, parseThrow, parseRequestTrade, parseRotateItem: without
\* gameLock as long as it only walks, which begins before the order is written; without a
\* way the deed is tried at once, out of the message and not out of walkToItem.
Parse ==
    /\ asking.left = {} /\ stuff.at \in TileNo /\ pushes = {}
    /\ \E o \in Asked :
        /\ o.kind \notin {"useEx", "move"} => o.to = CHOOSE p \in Aims : TRUE
        /\ o.kind = "move" => o.to # o.from
        /\ \/ /\ ~Beside(spot.me, o.from)
              /\ steps' = Way(o.from) /\ asking' = [left |-> Field, order |-> o]
              /\ event' = [event EXCEPT !.raced = ~Unlocked,
                                        !.marks = [f \in DOMAIN @ |-> IF @[f] = "new" THEN "old" ELSE @[f]]]
              /\ mark' = [f \in Field |-> IF mark[f] = "new" THEN "old" ELSE mark[f]]
              /\ UNCHANGED <<spot, stuff, order, rest, pushes, window, deed>>
           \/ /\ Unlocked /\ (o.kind \in {"use", "useEx"} => CanUse(Scene, o))
              /\ \E w \in Carry(Scene, o, [f \in Field |-> "new"]) :
                    Becomes([w EXCEPT !.deed.once = TRUE, !.deed.done = deed.done])
              /\ UNCHANGED <<spot, order, asking, event, steps, pushes, mark>>

\* Player::setFollowItem(walkToType, ...): assignments that no lock guards, one after the other.
NextField(left) ==
    LET turn == <<"kind", "from", "to", "sprite">>
    IN  turn[CHOOSE n \in DOMAIN turn : turn[n] \in left /\ \A k \in 1 .. n - 1 : turn[k] \notin left]

SetFollowItem ==
    /\ asking.left # {}
    /\ LET f == NextField(asking.left) IN
        /\ order' = [order EXCEPT ![f] = asking.order[f]] /\ mark' = [mark EXCEPT ![f] = "new"]
        /\ asking' = IF asking.left = {f} THEN [left |-> {}, order |-> Nothing]
                     ELSE [asking EXCEPT !.left = @ \ {f}]
        /\ deed' = [deed EXCEPT !.done = @ /\ f # "kind"]
        /\ UNCHANGED <<spot, stuff, event, steps, rest, pushes, window>>

\* Creature::onWalk: a step of the list, if the tile is free.
Stepped ==
    LET q == spot.me + steps[1]
    IN  IF steps = <<>> \/ q \notin TileNo \ {spot.other} THEN spot.me ELSE q

\* Player::onWalk, on each event of walking: beside the item the order is carried out, and
\* then forgotten, whether that succeeded or not.
OnWalkEvent ==
    /\ Unlocked /\ (order.kind # "none" \/ steps # <<>>)
    /\ spot' = [spot EXCEPT !.me = Stepped] /\ steps' = IF steps = <<>> THEN <<>> ELSE Tail(steps)
    /\ IF order.kind # "none" /\ Beside(Stepped, order.from)
       THEN event' = [Quiet EXCEPT !.stage = "call", !.raced = asking.left # {}]
       ELSE UNCHANGED event
    /\ UNCHANGED <<stuff, order, asking, rest, pushes, window, mark, deed>>

\* The switch and the call: the sprite is passed by value, the positions by reference.
\* playerUseItem and playerUseItemEx begin with canUse.
Clearing(e) == [e EXCEPT !.stage = "clear", !.kind = "none", !.sprite = 0,
                         !.marks = Quiet.marks, !.left = Field]
Call ==
    /\ event.stage = "call"
    /\ event' = IF order.kind \in {"use", "useEx"} /\ ~CanUse(Scene, order) THEN Clearing(event)
                ELSE [event EXCEPT !.stage = "look", !.kind = order.kind, !.sprite = order.sprite,
                                   !.marks = [f \in DOMAIN @ |-> mark[f]]]
    /\ UNCHANGED <<spot, stuff, order, asking, steps, rest, pushes, window, mark, deed>>

\* internalGetThing looks where the order says now.
Look ==
    /\ event.stage = "look" /\ event' = Clearing(event)
    /\ \E w \in Carry(Scene, Order(event.kind, order.from, event.sprite, order.to), event.marks @@ mark) :
        Becomes(w)
    /\ UNCHANGED <<spot, order, asking, steps, pushes, mark>>

\* Mutation: the order is kept until the next one.
KeptForLater(f) == order[f]

\* Player::setFollowItem(0, ...), while the thread of the connection may write the next one.
Cleared(f) == Nothing[f]
Clear ==
    /\ event.left # {}
    /\ LET f == NextField(event.left) IN
        /\ order' = [order EXCEPT ![f] = Cleared(f)]
        /\ mark' = [mark EXCEPT ![f] = IF Cleared(f) = Nothing[f] THEN "cleared" ELSE @]
        /\ deed' = [deed EXCEPT !.done = @ /\ mark'["kind"] # "cleared"]
        /\ event' = IF event.left = {f} THEN Quiet ELSE [event EXCEPT !.left = @ \ {f}]
        /\ UNCHANGED <<spot, stuff, asking, steps, rest, pushes, window>>

\* Protocol79::parseMoveNorth and the like, Game::movePlayer: they do not touch the order.
MovePlayer ==
    /\ Unlocked
    /\ \E d \in {-1, 1} :
        /\ spot.me + d \in TileNo \ {spot.other}
        /\ spot' = [spot EXCEPT !.me = @ + d] /\ steps' = <<>>
    /\ UNCHANGED <<stuff, order, asking, event, rest, pushes, window, mark, deed>>

\* Game::playerUseBattleWindow: from a list of creatures.  The item may be anywhere.
PlayerUseBattleWindow ==
    /\ Unlocked /\ stuff.at \in TileNo /\ rest = 0 /\ CanUseFar(Scene, spot.other)
    /\ \E w \in {[Scene EXCEPT !.rest = MinAction]} \cup Turned([Scene EXCEPT !.rest = MinAction]) : Becomes(w)
    /\ UNCHANGED <<spot, order, asking, event, steps, pushes, mark>>

-----------------------------------------------------------------------------

\* Game::thingMove of a creature: one second later.
ThingMoveCreature ==
    /\ \E to \in TileNo :
        /\ Unlocked /\ Cardinality(pushes) < MaxPushes /\ order.kind = "none" /\ asking.left = {}
        /\ pushes' = pushes \cup {[from |-> spot.me, to |-> to]}
    /\ UNCHANGED <<spot, stuff, order, asking, event, steps, rest, window, mark, deed>>

\* Mutation: the creature may have moved on since.
MayPushAnyway(p) ==
    /\ spot.me = p.from /\ p.to # spot.me /\ Beside(spot.other, p.to)
    /\ spot.other \in Sanctuary => p.to \in Sanctuary

\* Game::moveCreature asks again whether the player stands where it stood, beside the
\* creature, and whether the tile is one beside the creature and not out of a zone.
MayPush(p) ==
    /\ spot.me = p.from /\ Beside(spot.other, spot.me)
    /\ p.to # spot.me /\ Beside(spot.other, p.to)
    /\ spot.other \in Sanctuary => p.to \in Sanctuary

MoveCreature ==
    /\ Unlocked
    /\ \E p \in pushes :
        /\ pushes' = pushes \ {p}
        /\ spot' = IF MayPush(p) THEN [spot EXCEPT !.other = p.to] ELSE spot
    /\ deed' = [deed EXCEPT !.near = @ /\ (spot' = spot \/ Beside(spot.me, spot.other))]
    /\ UNCHANGED <<stuff, order, asking, event, steps, rest, window, mark>>

\* Protocol79::parseTextWindow and Game::playerWriteItem: the answer to the last window, if
\* the item is still in the world, not carried by another and beside the player.
WriteItem ==
    /\ Unlocked /\ window /\ window' = FALSE
    /\ IF stuff.at \in TileNo /\ Beside(spot.me, stuff.at)
       THEN \E w \in {Scene} \cup Turned(Scene) : stuff' = w.stuff
       ELSE UNCHANGED stuff
    /\ UNCHANGED <<spot, order, asking, event, steps, rest, pushes, mark, deed>>

\* Others walk, and move, take, drop and change the item.
OthersAct ==
    /\ Unlocked
    /\ \/ \E d \in {-1, 1} :
            /\ spot.other + d \in TileNo \ {spot.me}
            /\ spot' = [spot EXCEPT !.other = @ + d] /\ UNCHANGED stuff
       \/ /\ stuff.at # Gone /\ UNCHANGED spot
          /\ \/ \E p \in TileNo \cup {Theirs} : stuff' = [stuff EXCEPT !.at = p]
             \/ stuff' = [stuff EXCEPT !.sprite = 3 - @]
    /\ UNCHANGED <<order, asking, event, steps, rest, pushes, window, mark, deed>>

Rests ==
    /\ rest > 0 /\ rest' = rest - 1
    /\ UNCHANGED <<spot, stuff, order, asking, event, steps, pushes, window, mark, deed>>

ActNext ==
    \/ Parse \/ SetFollowItem \/ OnWalkEvent \/ Call \/ Look \/ Clear
    \/ MovePlayer \/ PlayerUseBattleWindow
    \/ ThingMoveCreature \/ MoveCreature \/ WriteItem \/ OthersAct \/ Rests

-----------------------------------------------------------------------------

\* However the writing of an order, the walk events and the clearing of the order before cut
\* across each other, field by field, what is left when all are through is of one order,
\* with fields missing or not.  What a player does is what one order said, as a whole, which
\* is carried out once; an order that was half cleared does nothing; it stands beside the
\* item then, and has rested before a use; and it pushes only who still stands beside it.
\* Excepted are the place and the wholeness of a deed during whose event the thread of the
\* connection was writing (player.cpp:1342-1371, 3231-3242; game.cpp:739, 1833-1897).
ActsAsOrdered ==
    /\ deed.near /\ deed.whole /\ deed.once /\ deed.rested
    /\ (Unlocked /\ asking.left = {}) => ~({"new", "old"} \subseteq {mark[f] : f \in Field})
=============================================================================
