---------------------------------- MODULE View ----------------------------------
(***************************************************************************)
(* What one client is told of the map and what it makes of it: tiles with  *)
(* stacks of things, of which a client keeps the first ten, messages that  *)
(* name a thing by its place in the stack, rows and columns that come into *)
(* sight, and the list of the creatures a client knows (protocol79.cpp,    *)
(* tile.cpp).  One floor; hidden gamemasters are left out.  The client is  *)
(* not part of the repository: a message without a place in the stack is   *)
(* taken to put the thing where the server puts it.                        *)
(***************************************************************************)
EXTENDS Integers, SequencesExt

CONSTANTS Viewer,               \* the player of the client
          Other,                \* creatures
          TopItem, DownItem,
          Field,                \* magic fields, of which a tile has one
          Ground,               \* the tiles there are, as <<x, y>>
          West, East, North, South,    \* how far a client sees
          StackLimit,           \* 10
          RefreshAbove,         \* 8
          KnownLimit,           \* 150
          Casts                 \* bound: the sets of things that are about together

Creatures == Other \cup {Viewer}
Goods == TopItem \cup DownItem
Things == Creatures \cup Goods

ASSUME ViewAssumption ==
    /\ Viewer \notin Other /\ Creatures \cap Goods = {} /\ TopItem \cap DownItem = {}
    /\ Field \subseteq DownItem /\ Ground \subseteq Nat \X Nat
    /\ UNION Casts \subseteq Things
    /\ {West, East, North, South, KnownLimit} \subseteq Nat
    /\ StackLimit \in Nat \ {0} /\ RefreshAbove \in Nat /\ RefreshAbove < StackLimit

VARIABLES
    stack,    \* the things on each tile, without the ground, which has place 0
    face,     \* what an item looks like
    client,   \* what the connection and its client keep, see Client
    cast      \* what is about in this world

viewVars == <<stack, face, client, cast>>

\* known is knownPlayers, the rest is the client's.  Two fields are history: unsaid
\* are the tiles where something was not told since they were described, of which
\* shown does not keep what the client makes, and overrun tells that more creatures were in sight than can be known.
Client ==
    [shown : [Ground -> Seq(Things)], look : [Goods -> BOOLEAN], met : SUBSET Creatures,
     known : Seq(Creatures), unsaid : SUBSET Ground, overrun : BOOLEAN]

ViewTypeOK ==
    /\ stack \in [Ground -> Seq(Things)]
    /\ face \in [Goods -> BOOLEAN]
    /\ client \in Client /\ cast \in Casts
    /\ \A t \in Ground : Len(client.shown[t]) < StackLimit

-----------------------------------------------------------------------------
(* Tiles.  s is the function of stacks.                                     *)

Rank(x) == CASE x \in TopItem -> 1 [] x \in Creatures -> 2 [] x \in DownItem -> 3

\* Tile::__addThing: before the things of its kind.
Stacked(q, x) == InsertAt(q, 1 + Len(SelectSeq(q, LAMBDA y : Rank(y) < Rank(x))), x)
Unstacked(q, x) == SelectSeq(q, LAMBDA y : y # x)
PlaceOf(q, x) == CHOOSE k \in DOMAIN q : q[k] = x

Holds(s, t, x) == x \in ToSet(s[t])
OnMap(s, x) == \E t \in Ground : Holds(s, t, x)
TileOf(s, x) == CHOOSE t \in Ground : Holds(s, t, x)

\* Protocol79::canSee.
Around(m) ==
    {t \in Ground : t[1] \in m[1] - West .. m[1] + East /\ t[2] \in m[2] - North .. m[2] + South}
InView(s) == IF OnMap(s, Viewer) THEN Around(TileOf(s, Viewer)) ELSE {}

Topmost(q) == SubSeq(q, 1, IF Len(q) < StackLimit THEN Len(q) ELSE StackLimit - 1)

-----------------------------------------------------------------------------
(* Messages.  v is the client's record.                                     *)

\* Protocol79::checkCreatureAsKnown: the first that is out of sight makes room;
\* when none is, the client forgets the last one and the server the new one.
CheckCreatureAsKnown(s, v, c) ==
    LET all == Append(Unstacked(v.known, c), c)
        sighted == UNION {ToSet(s[t]) : t \in InView(s)}
        spare == {k \in 1 .. KnownLimit : all[k] \notin sighted}
        k == CHOOSE j \in spare : \A l \in spare : j <= l
    IN  IF Len(all) <= KnownLimit
        THEN [v EXCEPT !.known = all, !.met = @ \cup {c}]
        ELSE IF spare = {}
        THEN [v EXCEPT !.met = (@ \ {all[KnownLimit]}) \cup {c}, !.overrun = TRUE]
        ELSE [v EXCEPT !.known = SubSeq(all, k + 1, Len(all)) \o SubSeq(all, 1, k - 1),
                       !.met = (@ \ {all[k]}) \cup {c}]

\* GetTileDescription.
Described(s, v, t) ==
    LET q == Topmost(s[t])
        named == FoldLeft(LAMBDA r, c : CheckCreatureAsKnown(s, r, c), v,
                          SelectSeq(q, LAMBDA x : x \in Creatures))
    IN  [named EXCEPT !.shown[t] = q, !.unsaid = @ \ {t},
                      !.look = [i \in Goods |-> IF i \in ToSet(q) THEN face[i] ELSE @[i]]]

\* GetMapDescription; the order of the tiles does not matter here.
DescribedAll(s, v, S) == FoldSet(LAMBDA t, r : Described(s, r, t), v, S)

\* What has scrolled out is gone, and what was never told with it.
Scrolled(s, v) ==
    [v EXCEPT !.shown = [t \in Ground |-> IF t \in InView(s) THEN @[t] ELSE <<>>],
              !.unsaid = @ \cap InView(s)]

\* AddTileItem, AddTileCreature.
Added6A(s, v, t, x) ==
    IF t \notin InView(s) THEN v
    ELSE LET u == IF x \in Creatures THEN CheckCreatureAsKnown(s, v, x)
                                     ELSE [v EXCEPT !.look[x] = face[x]]
         IN  IF t \in v.unsaid THEN u ELSE [u EXCEPT !.shown[t] = Topmost(Stacked(@, x))]

\* RemoveTileItem.
Removed6C(s, v, t, k) ==
    IF t \notin InView(s) \/ t \in v.unsaid \/ k >= StackLimit THEN v
    ELSE [v EXCEPT !.shown[t] = RemoveAt(@, k)]

\* The move of what the client has at a place; nothing is said of what lies deeper.
Moved6D(v, t, k, u) ==
    IF k >= StackLimit \/ t \in v.unsaid
    THEN [v EXCEPT !.unsaid = @ \cup {u}, !.shown[u] = <<>>]
    ELSE [v EXCEPT !.shown[t] = RemoveAt(@, k),
                   !.shown[u] = IF u \in v.unsaid THEN @ ELSE Topmost(Stacked(@, v.shown[t][k]))]

\* Mutation: a tile is not described again when something below comes up.
NotRefreshed(s, v, t) == v

\* Tile::postRemoveNotification.
Refreshed(s, v, t) ==
    IF Len(s[t]) + 1 > RefreshAbove /\ t \in InView(s) THEN Described(s, v, t) ELSE v

-----------------------------------------------------------------------------

ViewInit ==
    /\ stack = [t \in Ground |-> <<>>]
    /\ face = [i \in Goods |-> FALSE]
    /\ client = [shown |-> [t \in Ground |-> <<>>], look |-> [i \in Goods |-> FALSE],
                 met |-> {}, known |-> <<>>, unsaid |-> {}, overrun |-> FALSE]
    /\ cast \in Casts

\* Game::placeCreature, sendAddCreature.
Appear ==
    \E c \in Creatures \cap cast, t \in Ground :
        LET s == [stack EXCEPT ![t] = Stacked(@, c)] IN
        /\ ~OnMap(stack, c)
        /\ stack' = s
        /\ client' = IF c = Viewer THEN DescribedAll(s, client, InView(s))
                                   ELSE Added6A(s, client, t, c)
        /\ UNCHANGED <<face, cast>>

\* Game::removeCreature; with the viewer the connection goes.
Disappear ==
    \E c \in Creatures :
        /\ OnMap(stack, c)
        /\ LET t == TileOf(stack, c)
               s == [stack EXCEPT ![t] = Unstacked(@, c)]
           IN /\ stack' = s
              /\ client' = IF c = Viewer
                           THEN [client EXCEPT !.shown = [u \in Ground |-> <<>>], !.met = {},
                                     !.known = <<>>, !.unsaid = {}, !.overrun = FALSE]
                           ELSE Refreshed(s, Removed6C(s, client, t, PlaceOf(stack[t], c)), t)
        /\ UNCHANGED <<face, cast>>

\* Protocol79::sendMoveCreature to somebody else.
SeesMove(s, v, c, t, u, k, teleport) ==
    IF teleport \/ {t, u} \cap InView(s) # {t, u}
    THEN Added6A(s, Removed6C(s, v, t, k), u, c)
    ELSE Moved6D(v, t, k, u)

\* What comes into sight: a row at the old x, then a column at the new y.
RowsAhead(t, u) ==
    {g \in Around(u) \cup Around(<<t[1], u[2]>>) :
        \/ u[2] < t[2] /\ g[2] = u[2] - North /\ g[1] \in t[1] - West .. t[1] + East
        \/ u[2] > t[2] /\ g[2] = u[2] + South /\ g[1] \in t[1] - West .. t[1] + East
        \/ u[1] > t[1] /\ g[1] = u[1] + East
        \/ u[1] < t[1] /\ g[1] = u[1] - West}

\* To the mover itself.
OwnMove(s, v, t, u, k, teleport) ==
    IF teleport THEN DescribedAll(s, Scrolled(s, Removed6C(s, v, t, k)), InView(s))
    ELSE Scrolled(s, DescribedAll(s, Moved6D(v, t, k, u), RowsAhead(t, u)))

\* Tile::moveCreature.
MoveOn ==
    \E c \in Creatures, u \in Ground, teleport \in BOOLEAN :
        /\ OnMap(stack, c)
        /\ LET t == TileOf(stack, c)
               k == PlaceOf(stack[t], c)
               s == [stack EXCEPT ![t] = Unstacked(@, c), ![u] = Stacked(@, c)]
           IN /\ t # u
              /\ ~teleport => t[1] - u[1] \in {-1, 0, 1} /\ t[2] - u[2] \in {-1, 0, 1}
              /\ stack' = s
              /\ client' = Refreshed(s, IF c = Viewer THEN OwnMove(s, client, t, u, k, teleport)
                                        ELSE SeesMove(s, client, c, t, u, k, teleport), t)
        /\ UNCHANGED <<face, cast>>

\* An item comes to a tile; the field that was there goes, without a notification.
Fresh(s, v, t, i) ==
    LET old == {f \in Field : i \in Field /\ Holds(s, t, f)}
        q == SelectSeq(s[t], LAMBDA x : x \notin old)
        freed == IF old = {} THEN v
                 ELSE Removed6C(s, v, t, PlaceOf(s[t], CHOOSE f \in old : TRUE))
        after == [s EXCEPT ![t] = Stacked(q, i)]
    IN  [stack |-> after, client |-> Added6A(after, freed, t, i)]

AddItem ==
    \E i \in Goods \cap cast, t \in Ground :
        LET r == Fresh(stack, client, t, i) IN
        /\ ~OnMap(stack, i)
        /\ stack' = r.stack /\ client' = r.client
        /\ UNCHANGED <<face, cast>>

\* Game::internalRemoveItem, or internalMoveItem to another tile.
TakeItem ==
    \E i \in Goods :
        /\ OnMap(stack, i)
        /\ LET t == TileOf(stack, i)
               v == Removed6C(stack, client, t, PlaceOf(stack[t], i))
               s == [stack EXCEPT ![t] = Unstacked(@, i)]
           IN \/ stack' = s /\ client' = Refreshed(s, v, t)
              \/ \E u \in Ground \ {t} :
                    LET r == Fresh(s, v, u, i) IN
                    /\ i \in DownItem
                    /\ stack' = r.stack /\ client' = Refreshed(r.stack, r.client, t)
        /\ UNCHANGED <<face, cast>>

\* Game::transformItem and onUpdateTileItem.  Bound: once for each item.
ChangeItem ==
    \E i \in Goods :
        /\ OnMap(stack, i) /\ ~face[i]
        /\ face' = [face EXCEPT ![i] = TRUE]
        /\ LET t == TileOf(stack, i)
               v == Refreshed(stack, client, t)
           IN client' = IF t \in InView(stack) /\ PlaceOf(stack[t], i) < StackLimit
                        THEN [v EXCEPT !.look[i] = TRUE] ELSE v
        /\ UNCHANGED <<stack, cast>>

ViewNext == Appear \/ Disappear \/ MoveOn \/ AddItem \/ TakeItem \/ ChangeItem

ViewSpec == ViewInit /\ [][ViewNext]_viewVars

-----------------------------------------------------------------------------

\* The client shows what is there: of every tile in sight the top of the stack, place
\* by place and with its looks, and only creatures that it and the server know.
\* Excepted are the tiles to which something was moved from below the limit, of which
\* nothing is said, and a crowd of more creatures than a client can know.
ShowsWhatIsThere ==
    /\ \A t \in InView(stack) \ client.unsaid :
        /\ client.shown[t] = Topmost(stack[t])
        /\ \A i \in Goods \cap ToSet(client.shown[t]) : client.look[i] = face[i]
    /\ ~client.overrun =>
        /\ ToSet(client.known) = client.met
        /\ \A t \in InView(stack) \ client.unsaid : Creatures \cap ToSet(client.shown[t]) \subseteq client.met

=============================================================================
