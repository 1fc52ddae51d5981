\* What a comment of Commands::buyHouse takes for granted.
SPECIFICATION Spec
CONSTANTS
    None = None
    Player = {p1, p2, p3}
    Item = {coin}
    Container = {}
    Fixed = {}
    Letter = {}
    House = {h1, h2}
    Cell = {0}
    Slots = 1
    Capacity = 1
SYMMETRY HouseSymmetry
INVARIANTS
    OneHouse
CHECK_DEADLOCK FALSE
