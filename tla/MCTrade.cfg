\* Three players, so that two can compete for a third, a container with a letter to
\* put in it, an item that nobody can move and a house to sell: offers that lie in
\* containers, hold others and are moved and written on by any player.  A transfer with
\* an empty side stops the server.
SPECIFICATION Spec
CONSTANTS
    None = None
    Player = {p1, p2, p3}
    Item = {bag, note, rock}
    Container = {bag}
    Fixed = {rock}
    Letter = {note}
    House = {h1}
    Cell = {0, 3}
    Slots = 1
    Capacity = 1
SYMMETRY Symmetry
INVARIANTS
    TypeOK
    OffersHold
PROPERTIES
    Exchange
CHECK_DEADLOCK FALSE
