--------------------------------- MODULE Paths ---------------------------------
(***************************************************************************)
(* Finding a way and following (map.cpp, game.cpp, creature.cpp): one      *)
(* creature follows another over a floor with walls and boxes, where a     *)
(* third one, the bystander, comes and goes.  The way is searched when     *)
(* following starts and when it is found to be out of date.  The steps of  *)
(* the two, what is put on a tile and who appears or disappears tell the   *)
(* follower to look at its way again; a step of the bystander does not.    *)
(***************************************************************************)
EXTENDS Integers, Sequences, FiniteSets, SequencesExt

CONSTANTS Floor,        \* the tiles: pairs of x and y
          Wall,         \* tiles that nobody enters and nothing is thrown over
          BoxPlaces,    \* where boxes may stand, which nobody enters
          ByTheWay,     \* the tiles on which the bystander may be
          Away,         \* where it is when it is out of sight
          Sight,        \* how far a creature sees
          MaxClosed,    \* nodes that a search closes, 100 in the code
          MaxNodes,     \* nodes that a search opens, MAX_NODES
          Fighting      \* the distances at which the followers fight

ASSUME PathsAssumption ==
    /\ Floor \subseteq Int \X Int /\ Wall \cup BoxPlaces \subseteq Floor
    /\ ByTheWay \subseteq Floor \ Wall /\ Away \notin Floor
    /\ {Sight, MaxClosed, MaxNodes} \subseteq Nat \ {0} /\ Fighting \subseteq Nat \ {0}

VARIABLES
    stand,      \* where the follower, the leader and the bystander are
    boxes,      \* the tiles with a box
    walk,       \* listWalkDir, internalUpdateFollow, followCreature
    hunter,     \* the follower: its kind, and the distance at which it fights
    verdict     \* history: what the last search for a way said

pathVars == <<stand, boxes, walk, hunter, verdict>>

Follower == [kind : {"player", "summon", "monster"}, distance : Fighting]
Direction == {<<x, y>> \in (-1 .. 1) \X (-1 .. 1) : <<x, y>> # <<0, 0>>}

\* walk.own: the client of the player gave the list.  walk.crept is history: the bystander
\* has walked since the follower last looked at its way.
PathTypeOK ==
    /\ {stand["self"], stand["leader"]} \subseteq Floor /\ stand["bystander"] \in ByTheWay \cup {Away}
    /\ boxes \subseteq BoxPlaces /\ walk.list \in Seq(Direction)
    /\ {walk.update, walk.following, walk.own, walk.crept} \subseteq BOOLEAN
    /\ hunter \in Follower /\ verdict \in {"none", "found", "right", "limited", "wrong"}

PathInit ==
    /\ \E p, q \in Floor \ Wall :
        p # q /\ stand = [self |-> p, leader |-> q, bystander |-> Away]
    /\ boxes = {}
    /\ walk = [list |-> <<>>, update |-> FALSE, following |-> FALSE, own |-> FALSE, crept |-> FALSE]
    /\ hunter \in Follower /\ verdict = "none"

-----------------------------------------------------------------------------

Plus(p, d) == <<p[1] + d[1], p[2] + d[2]>>
Minus(p, q) == <<p[1] - q[1], p[2] - q[2]>>
Amount(n) == IF n < 0 THEN -n ELSE n
Sign(n) == IF n < 0 THEN -1 ELSE 1
Most(a, b) == IF a > b THEN a ELSE b
Apart(p, q) == Most(Amount(p[1] - q[1]), Amount(p[2] - q[2]))
Sees(p, q) == Apart(p, q) <= Sight

\* w: the world as a record of stand, boxes and walk.
World == [stand |-> stand, boxes |-> boxes, walk |-> walk]

\* Tile::__queryAdd with FLAG_PATHFINDING: a tile with another creature is not entered.
Enters(w, p) == p \in Floor \ (Wall \cup w.boxes) /\ p \notin {w.stand["leader"], w.stand["bystander"]}

\* Map::canThrowObjectTo on one floor: the tiles between, one in each column (or row) of
\* the longer side; errory has passed half a tile.
Between(p, q) ==
    LET d == Minus(q, p)
        swap == Amount(d[2]) > Amount(d[1])
        long == IF swap THEN d[2] ELSE d[1]
        short == IF swap THEN d[1] ELSE d[2]
        At(i) == LET a == i * Sign(long)
                     b == Sign(short) * ((2 * i * Amount(short) + Amount(long)) \div (2 * Amount(long)))
                 IN  Plus(p, IF swap THEN <<b, a>> ELSE <<a, b>>)
    IN  {At(i) : i \in 1 .. Amount(long) - 1}
CanThrowObjectTo(p, q) == Between(p, q) \cap Wall = {}

-----------------------------------------------------------------------------
\* Map::getPathTo, from the goal back to the creature.

\* AStarNodes: the nodes in the order in which they were opened.
Node(p, h, parent) == [at |-> p, h |-> h, parent |-> parent, open |-> TRUE]
ClosedNodes(nodes) == Cardinality({n \in DOMAIN nodes : ~nodes[n].open})

\* getBestNode: the first of those with the least h.
BestNode(nodes) ==
    LET open == {n \in DOMAIN nodes : nodes[n].open}
    IN  IF open = {} THEN 0
        ELSE CHOOSE n \in open : \A k \in open :
                nodes[n].h < nodes[k].h \/ (nodes[n].h = nodes[k].h /\ n <= k)

Neighbours == <<<<-1, -1>>, <<-1, 0>>, <<-1, 1>>, <<0, -1>>, <<0, 0>>, <<0, 1>>, <<1, -1>>, <<1, 0>>, <<1, 1>>>>

\* Mutation: only the four tiles beside it.
OpenedBeside(w, nodes, current, d) ==
    LET p == Plus(nodes[current].at, d)
        s == w.stand["self"]
    IN  IF d[1] * d[2] = 0 /\ (p = s \/ Enters(w, p)) /\ (\A n \in DOMAIN nodes : nodes[n].at # p)
           /\ Len(nodes) < MaxNodes
        THEN Append(nodes, Node(p, Minus(p, s)[1] * Minus(p, s)[1] + Minus(p, s)[2] * Minus(p, s)[2], current))
        ELSE nodes

\* A neighbour is opened once, if it can be entered or the creature stands there.
Opened(w, nodes, current, d) ==
    LET p == Plus(nodes[current].at, d)
        s == w.stand["self"]
    IN  IF (p = s \/ Enters(w, p)) /\ (\A n \in DOMAIN nodes : nodes[n].at # p) /\ Len(nodes) < MaxNodes
        THEN Append(nodes, Node(p, Minus(p, s)[1] * Minus(p, s)[1] + Minus(p, s)[2] * Minus(p, s)[2], current))
        ELSE nodes

\* One round: search ends when the creature is found, nothing is open or enough is closed.
FoundAt(w, nodes) == {n \in DOMAIN nodes \ {1} : nodes[n].at = w.stand["self"]}
Round(w, nodes) ==
    LET best == BestNode(nodes)
    IN  IF FoundAt(w, nodes) # {} \/ best = 0 THEN nodes
        ELSE FoldLeft(LAMBDA s, d : Opened(w, s, best, d), [nodes EXCEPT ![best].open = FALSE], Neighbours)

Searched(w, goal) ==
    FoldLeft(LAMBDA s, n : Round(w, s), <<Node(goal, 0, 0)>>, [n \in 1 .. MaxClosed |-> n])

\* A diagonal is walked around a corner when one of the two tiles can be entered.
Cornered(w, p, q) ==
    LET d == Minus(q, p)
        across == <<d[1], 0>>
        along == <<0, d[2]>>
    IN  CASE d[1] = 0 \/ d[2] = 0 -> <<d>>
          [] d[1] # 0 /\ d[2] # 0 /\ Enters(w, Plus(p, along)) -> <<along, across>>
          [] OTHER -> IF Enters(w, Plus(p, across)) THEN <<across, along>> ELSE <<d>>

\* The search ended with nodes left to close, or without room for all it met.
MetItsLimit(w, goal) ==
    LET nodes == Searched(w, goal)
    IN  FoundAt(w, nodes) = {} /\ (BestNode(nodes) # 0 \/ Len(nodes) = MaxNodes)

\* The directions from the creature to the goal; none for no way.
GetPathTo(w, goal) ==
    LET nodes == Searched(w, goal)
        Way[n \in DOMAIN nodes] ==
            IF nodes[n].parent = 0 THEN <<>>
            ELSE Cornered(w, nodes[n].at, nodes[nodes[n].parent].at) \o Way[nodes[n].parent]
    IN  IF FoundAt(w, nodes) = {} THEN <<>> ELSE Way[CHOOSE n \in FoundAt(w, nodes) : TRUE]

\* Game::getPathToEx: the tiles around the target on the side of the creature or on all
\* sides, the farthest first, row by row; the first way is kept unless a later is shorter.
Tried(w, target, distance, full) ==
    LET d == Minus(w.stand["self"], target)
        xs == (IF full \/ d[1] <= 0 THEN -distance ELSE 0) .. (IF full \/ d[1] >= 0 THEN distance ELSE 0)
        ys == (IF full \/ d[2] <= 0 THEN -distance ELSE 0) .. (IF full \/ d[2] >= 0 THEN distance ELSE 0)
    IN  {Plus(target, <<x, y>>) : x \in xs, y \in ys}

InRows(target, d) ==
    LET side == 2 * d + 1
        Row(k) == <<((k - 1) % side) - d, ((k - 1) \div side) - d>>
    IN  [k \in 1 .. side * side |-> Plus(target, Row(k))]

Better(w, target, reachable, best, p) ==
    LET self == w.stand["self"]
        far == Amount(p[1] - self[1]) + Amount(p[2] - self[2])
        path == IF p = self \/ ~Enters(w, p) THEN <<>> ELSE GetPathTo(w, p)
    IN  IF /\ far <= best.far \/ p = self \/ best.far = -1
           /\ ~reachable \/ CanThrowObjectTo(p, target)
           /\ p = self \/ path # <<>>
           /\ far < best.far \/ Len(path) < Len(best.path) \/ best.far = -1
        THEN [far |-> far, path |-> path] ELSE best

GetPathToEx(w, target, distance, full, reachable) ==
    LET self == w.stand["self"]
        nothing == [far |-> -1, path |-> <<>>]
        At(d) == SelectSeq(InRows(target, d),
                    LAMBDA p : p \in Tried(w, target, distance, full) /\ Apart(p, target) = d)
        best == [d \in 1 .. distance |-> FoldLeft(LAMBDA b, p : Better(w, target, reachable, b, p), nothing, At(d))]
        good == {d \in 1 .. distance : best[d] # nothing}
    IN  IF ~Sees(self, target) THEN [ok |-> FALSE, path |-> <<>>]
        ELSE IF Apart(self, target) = distance /\ (~reachable \/ CanThrowObjectTo(self, target))
        THEN [ok |-> TRUE, path |-> <<>>]
        ELSE IF good = {} THEN [ok |-> FALSE, path |-> <<>>]
        ELSE [ok |-> TRUE, path |-> best[CHOOSE d \in good : \A e \in good : e <= d].path]

-----------------------------------------------------------------------------

\* Map::isPathValid.
Ends(p, path) ==
    LET Sum(i) == FoldLeft(LAMBDA n, d : n + d[i], 0, path)
    IN  Plus(p, <<Sum(1), Sum(2)>>)
GoesFree(w, p, path) == \A n \in 1 .. Len(path) : Enters(w, Ends(p, SubSeq(path, 1, n)))
IsPathValid(w) ==
    LET self == w.stand["self"]
    IN  GoesFree(w, self, w.walk.list) /\ Apart(Ends(self, w.walk.list), w.stand["leader"]) <= 1

\* Creature::validateWalkPath.
Validated(w) ==
    IF w.walk.update \/ ~w.walk.following THEN w
    ELSE [w EXCEPT !.walk.update = w.walk.list = <<>> \/ ~IsPathValid(w), !.walk.crept = FALSE]

\* setFollowCreature(NULL); a player stops walking, too.
NoFollow(w) ==
    [w EXCEPT !.walk.following = FALSE, !.walk.list = IF hunter.kind = "player" THEN <<>> ELSE @]

\* Mutation: it does not look at its way when it has moved itself.
MovesOnly(w, who, q) ==
    LET moved == [w EXCEPT !.stand[who] = q]
    IN  IF ~w.walk.following THEN moved
        ELSE IF ~Sees(moved.stand["self"], moved.stand["leader"]) THEN NoFollow(moved)
        ELSE IF who = "self" THEN moved ELSE Validated(moved)

\* Creature::onCreatureMove, of the follower itself or the leader.
Moves(w, who, q) ==
    LET moved == [w EXCEPT !.stand[who] = q]
    IN  IF ~w.walk.following THEN moved
        ELSE IF ~Sees(moved.stand["self"], moved.stand["leader"]) THEN NoFollow(moved)
        ELSE Validated(moved)

Set(w) == \E v \in {w} : stand' = v.stand /\ boxes' = v.boxes /\ walk' = v.walk

\* Creature::getPathSearchParams and Monster::getPathSearchParams: a summon keeps two tiles
\* from its master.  Following begins with a search on all sides.
Distance == IF hunter.kind = "summon" THEN 2 ELSE hunter.distance
AllSides(w) == ~w.walk.following \/ ~CanThrowObjectTo(w.stand["self"], w.stand["leader"])

\* Whether there really is a way: every tile that can be reached.
WithinReach(w) ==
    LET Beside(q) == {p \in Floor : Enters(w, p) /\ Apart(p, q) = 1}
        Far[n \in 0 .. Cardinality(Floor)] ==
            IF n = 0 THEN {w.stand["self"]} ELSE UNION {{q} \cup Beside(q) : q \in Far[n - 1]}
    IN  Far[Cardinality(Floor)]
IsThereAWay(w) ==
    /\ Sees(w.stand["self"], w.stand["leader"])
    /\ \E p \in WithinReach(w) :
        /\ p \in Tried(w, w.stand["leader"], Distance, AllSides(w))
        /\ p # w.stand["leader"] /\ CanThrowObjectTo(p, w.stand["leader"])

\* Creature::setFollowCreature.  Without a way a player drops the target, others
\* do not follow any more and forget the list, which was emptied.
SetFollow(w) ==
    LET to == w.stand["leader"]
        sees == Sees(w.stand["self"], to)
    IN  \E found \in {GetPathToEx(w, to, Distance, AllSides(w), TRUE)} :
        /\ IF found.ok THEN Set([w EXCEPT !.walk = [list |-> found.path, update |-> w.walk.update,
                                                     following |-> TRUE, own |-> FALSE, crept |-> FALSE]])
           ELSE Set(NoFollow([w EXCEPT !.walk.list = IF sees THEN <<>> ELSE @]))
        /\ verdict' = IF found.ok THEN "found"
                      ELSE IF ~IsThereAWay(w) THEN "right"
                      ELSE IF \E p \in Tried(w, to, Distance, AllSides(w)) : Enters(w, p) /\ MetItsLimit(w, p)
                      THEN "limited" ELSE "wrong"

Follow ==
    /\ ~walk.following
    /\ SetFollow(World)
    /\ UNCHANGED hunter

\* Creature::onThinkAttacking: out of sight it follows no more, out of date it searches.
ThinkAttacking ==
    /\ walk.following
    /\ IF hunter.kind # "summon" /\ ~Sees(stand["self"], stand["leader"])
       THEN Set(NoFollow(World)) /\ UNCHANGED verdict
       ELSE walk.update /\ SetFollow([World EXCEPT !.walk.update = FALSE])
    /\ UNCHANGED hunter

\* Game::internalMoveCreature, by one tile; with boxes aside, nobody enters a box.
MayEnter(w, q) == q \in Floor \ (Wall \cup w.boxes) /\ \A who \in DOMAIN w.stand : q # w.stand[who]
Walks(w, d) ==
    LET q == Plus(w.stand["self"], d)
    IN  IF MayEnter(w, q) THEN Moves(w, "self", q) ELSE [w EXCEPT !.walk.update = TRUE]

\* Creature::onWalk and Creature::getNextStep: a drunk one walks elsewhere.
Elsewhere == {<<0, -1>>, <<-1, 0>>, <<0, 1>>, <<1, 0>>}
OnWalk ==
    /\ walk.list # <<>> /\ (walk.following \/ hunter.kind # "monster")
    /\ \E d \in {walk.list[1]} \cup Elsewhere : Set(Walks([World EXCEPT !.walk.list = Tail(@)], d))
    /\ UNCHANGED <<hunter, verdict>>

\* Monster::getNextStep: without a target anywhere, beside the target around it.
RandomStep ==
    /\ hunter.kind = "monster" /\ (walk.list = <<>> \/ ~walk.following)
    /\ \E d \in Elsewhere :
        LET q == Plus(stand["self"], d)
            far == IF walk.following THEN Apart(stand["self"], stand["leader"]) ELSE 0
        IN  /\ Enters(World, q)
            /\ far = 0 \/ Apart(q, stand["leader"]) = far
            /\ Set(Walks(World, d))
    /\ UNCHANGED <<hunter, verdict>>

\* Game::playerAutoWalk and playerStopAutoWalk: the client gives a list of directions.
AutoWalk ==
    /\ hunter.kind = "player"
    /\ \E d \in Elsewhere : walk' = [walk EXCEPT !.list = <<d>>, !.own = TRUE]
    /\ UNCHANGED <<stand, boxes, hunter, verdict>>
StopAutoWalk ==
    /\ hunter.kind = "player" /\ walk.list # <<>>
    /\ walk' = [walk EXCEPT !.list = <<>>, !.own = TRUE]
    /\ UNCHANGED <<stand, boxes, hunter, verdict>>

\* The leader walks, and boxes come and go (onAddTileItem, onRemoveTileItem).
LeaderMoves ==
    /\ \E d \in Direction :
        LET q == Plus(stand["leader"], d) IN MayEnter(World, q) /\ Set(Moves(World, "leader", q))
    /\ UNCHANGED <<hunter, verdict>>

BoxMoves ==
    /\ \E p \in BoxPlaces :
        /\ \A who \in DOMAIN stand : p # stand[who]
        /\ Set(Validated([World EXCEPT !.boxes = IF p \in @ THEN @ \ {p} ELSE @ \cup {p}]))
    /\ UNCHANGED <<hunter, verdict>>

\* Creature::onCreatureMove of a third creature: neither the follower nor whom it follows, so
\* its way is not looked at, although the tile is refused now (tile.cpp:514, 549).
BystanderWalks ==
    /\ \E q \in ByTheWay \cup {Away} :
        /\ q # stand["bystander"] /\ (q # Away => MayEnter(World, q))
        /\ Away \notin {q, stand["bystander"]} => Apart(q, stand["bystander"]) = 1
        /\ stand' = [stand EXCEPT !["bystander"] = q]
        /\ walk' = [walk EXCEPT !.crept = walk.following]
    /\ UNCHANGED <<boxes, hunter, verdict>>

\* Creature::onCreatureAppear and onCreatureDisappear: who comes into the game and who
\* leaves it or dies is noticed.
BystanderAppears ==
    /\ stand["bystander"] = Away
    /\ \E q \in ByTheWay : MayEnter(World, q) /\ Set(Validated([World EXCEPT !.stand["bystander"] = q]))
    /\ UNCHANGED <<hunter, verdict>>
BystanderDisappears ==
    /\ stand["bystander"] # Away
    /\ Set(Validated([World EXCEPT !.stand["bystander"] = Away]))
    /\ UNCHANGED <<hunter, verdict>>

PathNext ==
    \/ Follow \/ ThinkAttacking \/ OnWalk \/ RandomStep \/ AutoWalk \/ StopAutoWalk
    \/ LeaderMoves \/ BoxMoves \/ BystanderWalks \/ BystanderAppears \/ BystanderDisappears

-----------------------------------------------------------------------------

\* A creature that follows and does not mean to search again has a list that takes it, over
\* tiles that can be entered, to a tile from which it can reach the leader: whichever of
\* the two moved, however it stumbled and whatever was put in its way (creature.cpp:318-408).
\* Two exceptions: where the client of a player gave the list it may be any list, and a
\* bystander who has walked since the way was last looked at may stand on it.  Where the
\* way goes is right then, too.
LeadsThere ==
    LET end == Ends(stand["self"], walk.list)
        alone == [World EXCEPT !.stand["bystander"] = Away]
    IN  walk.following /\ ~walk.update /\ ~walk.own =>
            /\ GoesFree(IF walk.crept THEN alone ELSE World, stand["self"], walk.list)
            /\ Apart(end, stand["leader"]) \in 1 .. Distance
            /\ CanThrowObjectTo(end, stand["leader"])

\* A creature gives up following for want of a way only when there is none to the tiles it
\* looks at, or when a search for one met the limit of nodes (map.cpp:502): a best-first
\* search with a heuristic that misleads must be complete below the limit
\* (map.cpp:480-612, game.cpp:2685-2771).
GivesUpRightly == verdict # "wrong"

FollowsWell == LeadsThere /\ GivesUpRightly
=============================================================================
