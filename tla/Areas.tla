--------------------------------- MODULE Areas ---------------------------------
(***************************************************************************)
(* Combat over an area (combat.cpp): a script gives the shape of an area   *)
(* to the north, and one to the north-west; the other directions are made  *)
(* from them when the script is loaded (setupArea, setupExtArea).  A cast  *)
(* turns the area to its target and strikes who stands there (CombatFunc). *)
(***************************************************************************)
EXTENDS Integers, FiniteSets, Sequences

CONSTANTS Shapes,       \* matrices of the area to the north
          ExtShapes,    \* matrices of the area to the north-west
          Place,        \* the tiles: pairs of a row and a column
          Hunter,       \* the caster
          CasterAt,     \* where he stands
          Blocked,      \* tiles that nothing can be thrown to
          Haven,        \* tiles of a protection zone
          Stander,      \* who else stands there
          StandsAt,     \* on which tile
          Immune        \* those whom no player may attack

\* Matrix: rows, columns, the cells that are set and the center, all counted from 0.
Matrix == [rows : Nat, cols : Nat, cells : SUBSET (Nat \X Nat), center : Nat \X Nat]
Dir == {"N", "S", "E", "W", "NW", "NE", "SW", "SE"}
NoMatrix == [rows |-> 0, cols |-> 0, cells |-> {}, center |-> <<0, 0>>]

ASSUME AreasAssumption ==
    /\ CasterAt \in Place /\ Blocked \cup Haven \subseteq Place
    /\ StandsAt \in [Stander -> Place] /\ Hunter \notin Stander

VARIABLES
    shape,      \* what the script gave: the matrix, and whether there is one to the north-west
    ext,
    turned,     \* areas: a matrix for each direction
    shot        \* the cast: its target and its kind, and who was struck

areaVars == <<shape, ext, turned, shot>>

NoShot == [at |-> CasterAt, aggressive |-> FALSE, topmost |-> FALSE, struck |-> {}, done |-> FALSE]

AreaTypeOK ==
    /\ shape \in Shapes /\ ext \in ExtShapes \cup {NoMatrix}
    /\ DOMAIN turned \subseteq Dir
    /\ \A d \in DOMAIN turned : \A c \in turned[d].cells :
        c[1] \in 0 .. turned[d].rows - 1 /\ c[2] \in 0 .. turned[d].cols - 1
    /\ shot.at \in Place /\ shot.struck \subseteq Stander \cup {Hunter}

AreaInit ==
    /\ shape \in Shapes /\ ext \in ExtShapes \cup {NoMatrix}
    /\ turned = <<>> /\ shot = NoShot

-----------------------------------------------------------------------------

Larger(m) == IF m.rows > m.cols THEN m.rows ELSE m.cols

\* copyArea, rotation: about the center of the input, into a matrix of twice the size
\* whose center is a constant.  The angles are 90, 180 and 270 degrees.
Rotate(m, angle) ==
    LET size == 2 * Larger(m)
        mid == size \div 2 - 1
        Turn(y, x) == CASE angle = 90 -> <<x, -y>> [] angle = 180 -> <<-y, -x>> [] OTHER -> <<-x, y>>
        To(c) == LET t == Turn(c[1] - m.center[1], c[2] - m.center[2]) IN <<t[1] + mid, t[2] + mid>>
    IN  [rows |-> size, cols |-> size, cells |-> {To(c) : c \in m.cells}, center |-> <<mid, mid>>]

\* copyArea, mirror and flip: the output has the size that setupExtArea gives it.
Mirror(m, size) ==
    [rows |-> size, cols |-> size, cells |-> {<<c[1], m.cols - 1 - c[2]>> : c \in m.cells},
     center |-> <<m.center[1], (m.rows - 1) - m.center[2]>>]
Flip(m, size) ==
    [rows |-> size, cols |-> size, cells |-> {<<m.rows - 1 - c[1], c[2]>> : c \in m.cells},
     center |-> <<(m.cols - 1) - m.center[1], m.center[2]>>]

\* setupArea and setupExtArea.
SetupArea == [d \in {"N", "S", "E", "W"} |->
    CASE d = "N" -> shape [] d = "E" -> Rotate(shape, 90)
      [] d = "S" -> Rotate(shape, 180) [] d = "W" -> Rotate(shape, 270)]

SetupExtArea ==
    LET size == 2 * Larger(ext)
        sw == Flip(ext, size)
    IN  [d \in {"NW", "NE", "SW", "SE"} |->
            CASE d = "NW" -> ext [] d = "NE" -> Mirror(ext, size)
              [] d = "SW" -> sw [] d = "SE" -> Mirror(sw, size)]

Load ==
    /\ turned = <<>>
    /\ turned' = [d \in {"N", "S", "E", "W"} \cup (IF ext = NoMatrix THEN {} ELSE {"NW", "NE", "SW", "SE"}) |->
                    IF d \in {"N", "S", "E", "W"} THEN SetupArea[d] ELSE SetupExtArea[d]]
    /\ UNCHANGED <<shape, ext, shot>>

\* AreaCombat::getArea: the way from the caster to the target; his own tile is south.
DirTo(from, to) ==
    LET dy == to[1] - from[1]
        dx == to[2] - from[2]
        diagonal == CASE dx < 0 /\ dy < 0 -> "NW" [] dx > 0 /\ dy < 0 -> "NE"
                      [] dx < 0 /\ dy > 0 -> "SW" [] dx > 0 /\ dy > 0 -> "SE" [] OTHER -> "none"
    IN  IF ext # NoMatrix /\ diagonal # "none" THEN diagonal
        ELSE CASE dx < 0 -> "W" [] dx > 0 -> "E" [] dx = 0 /\ dy < 0 -> "N" [] OTHER -> "S"

\* Mutation: the area is laid with its corner on the target.
ListFromCorner(at, m) == {<<at[1] + c[1], at[2] + c[2]>> : c \in m.cells} \cap (Place \ Blocked)

\* AreaCombat::getList: the center of the matrix is laid on the target.
GetList(at, m) ==
    {<<at[1] + c[1] - m.center[1], at[2] + c[2] - m.center[2]>> : c \in m.cells} \cap (Place \ Blocked)

\* Combat::canDoCombat for a tile, and for a creature.
CanStrikeTile(p, aggressive) == ~(aggressive /\ p \in Haven)
CanStrike(c, aggressive) == ~aggressive \/ c \notin Immune

\* CombatFunc over the creatures of a tile, the caster first or last among them.  With
\* targetCasterOrTopMost the loop stops at the caster on his own tile, and leaves out all
\* but the top creature on others.
StruckOn(p, aggressive, topmost, casterFirst) ==
    LET others == {c \in Stander : StandsAt[c] = p /\ CanStrike(c, aggressive)}
        caster == IF aggressive THEN {} ELSE {Hunter}
    IN  IF ~CanStrikeTile(p, aggressive) THEN {}
        ELSE IF p # CasterAt THEN others
        ELSE IF topmost /\ casterFirst THEN caster ELSE caster \cup others

CastOver ==
    \E at \in Place, aggressive, topmost, casterFirst \in BOOLEAN :
        /\ turned # <<>> /\ ~shot.done
        /\ LET tiles == GetList(at, turned[DirTo(CasterAt, at)])
           IN  shot' = [at |-> at, aggressive |-> aggressive, topmost |-> topmost, done |-> TRUE,
                        struck |-> UNION {StruckOn(p, aggressive, topmost, casterFirst) : p \in tiles}]
        /\ UNCHANGED <<shape, ext, turned>>

AreaNext == Load \/ CastOver

-----------------------------------------------------------------------------

\* What a shape covers, as steps from its center, and how these steps look in another
\* direction: quarter turns of the north, reflections of the north-west.
Steps(m) == {<<c[1] - m.center[1], c[2] - m.center[2]>> : c \in m.cells}
Seen(d, s) ==
    CASE d \in {"N", "NW"} -> s [] d = "E" -> <<s[2], -s[1]>> [] d \in {"S", "SE"} -> <<-s[1], -s[2]>>
      [] d = "W" -> <<-s[2], s[1]>> [] d = "NE" -> <<s[1], -s[2]>> [] d = "SW" -> <<-s[1], s[2]>>
Square(m) == m.rows = m.cols

\* A cast strikes exactly those who stand where its shape lies when it is turned to the
\* target, each of them once, and nobody whom it must spare: the turned matrices cover what
\* they should, wherever the script put the center, and nothing leaves the matrix
\* (combat.cpp:889-1190).  Areas to the north-west that are not square are left out: mirror
\* and flip take the rows for the columns (combat.cpp:971, 981).  On the tile of the caster
\* topmost may mean more than the caster.
StrikesItsShape ==
    LET d == DirTo(CasterAt, shot.at)
        steps == {Seen(d, s) : s \in Steps(IF d \in {"N", "S", "E", "W"} THEN shape ELSE ext)}
        At(c) == IF c = Hunter THEN CasterAt ELSE StandsAt[c]
        Meant(c) == /\ <<At(c)[1] - shot.at[1], At(c)[2] - shot.at[2]>> \in steps
                    /\ At(c) \notin Blocked
                    /\ shot.aggressive => At(c) \notin Haven /\ c \notin Immune /\ c # Hunter
        loose == IF shot.topmost THEN {c \in Stander : StandsAt[c] = CasterAt} ELSE {}
    IN  shot.done /\ (d \in {"N", "S", "E", "W"} \/ Square(ext)) =>
            \A c \in (Stander \cup {Hunter}) \ loose : c \in shot.struck <=> Meant(c)
=============================================================================
