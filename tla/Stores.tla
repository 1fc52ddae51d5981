--------------------------------- MODULE Stores ---------------------------------
(***************************************************************************)
(* Where the belongings of players are: in memory while they are in the    *)
(* game, in their stored record else, and on the floor of a house.  Mail,  *)
(* rent and a change of owner load and store a player behind his back; a   *)
(* save of the server is three transactions, between and after which the   *)
(* server may crash (ioplayersql.cpp, iomapserializesql.cpp, mailbox.cpp,  *)
(* house.cpp, player.cpp, game.cpp, map.cpp).  gameLock makes a handler    *)
(* atomic.  Items on other tiles are not stored at all; players are not    *)
(* deleted.                                                                *)
(***************************************************************************)
EXTENDS Integers, FiniteSets

CONSTANTS Holder,         \* players
          NoHolder,       \* houseOwner ""
          Piece,          \* things that can be owned
          Money,          \* those of them that pay a rent
          WarnLimit,      \* 7 warnings
          MaxRare         \* bound: owners, rents, failures, saves of the server and crashes

ASSUME StoreAssumption ==
    /\ NoHolder \notin Holder /\ Money \subseteq Piece
    /\ WarnLimit \in Nat /\ MaxRare \in Nat

VARIABLES
    owned,     \* what a player in the game owns
    online,    \* players in the game
    record,    \* the stored players
    estate,    \* the house: owner, rent and what lies on its floor
    stored,    \* the stored house
    saving,    \* where a save of the server is
    past       \* history, see Past

storeVars == <<owned, online, record, estate, stored, saving, past>>

Belongings == [bag : SUBSET Piece, depot : SUBSET Piece]
Nothing == [bag |-> {}, depot |-> {}]
Building ==
    [owner : Holder \cup {NoHolder}, due : BOOLEAN, warnings : 0 .. WarnLimit, floor : SUBSET Piece]

\* paid is spent; moved has gone from one store to another since the last save of the
\* server, and late since that save has stored the players; spoilt was lost or doubled.
Past ==
    [paid : SUBSET Money, moved : SUBSET Piece, late : SUBSET Piece, spoilt : SUBSET Piece,
     rare : 0 .. MaxRare]

StoreTypeOK ==
    /\ owned \in [Holder -> Belongings] /\ record \in [Holder -> Belongings]
    /\ online \subseteq Holder
    /\ estate \in Building /\ stored \in Building
    /\ saving \in {"no", "players", "map"}
    /\ past \in Past

-----------------------------------------------------------------------------
(* A world is a record of the variables that belong to the game.             *)

World ==
    [owned |-> owned, online |-> online, record |-> record, estate |-> estate, past |-> past]
Becomes(w) ==
    /\ owned' = w.owned /\ online' = w.online /\ record' = w.record
    /\ estate' = w.estate /\ past' = w.past

Seldom(w) == [w EXCEPT !.past.rare = @ + 1]
MayBe(k) == past.rare + k <= MaxRare

All(e) == e.bag \cup e.depot

\* The stores a thing is in, and those a restart would find it in.
Where(w, x) ==
    {n \in Holder : x \in All(IF n \in w.online THEN w.owned[n] ELSE w.record[n])}
        \cup (IF x \in w.estate.floor THEN {NoHolder} ELSE {})
WhereStored(w, s, x) ==
    {n \in Holder : x \in All(w.record[n])} \cup (IF x \in s.floor THEN {NoHolder} ELSE {})

Moves(w, S) ==
    [w EXCEPT !.past.moved = @ \cup S, !.past.late = IF saving = "no" THEN {} ELSE @ \cup S]
Spoils(w, S) == [w EXCEPT !.past.spoilt = @ \cup S]

\* A player that is loaded if he is not in the game, and what becomes of him after.
Loaded(w, n) == IF n \in w.online THEN w.owned[n] ELSE w.record[n]
PutBack(w, n, e, ok) ==
    IF n \in w.online THEN [w EXCEPT !.owned[n] = e]
    ELSE IF ok THEN [w EXCEPT !.record[n] = e] ELSE w

-----------------------------------------------------------------------------
(* Owners and rents.                                                        *)

\* Mutation: they are put into the depot and stay.
TransferCopies(w, ok) ==
    PutBack(w, w.estate.owner, [Loaded(w, w.estate.owner) EXCEPT !.depot = @ \cup w.estate.floor], ok)

\* House::transferToDepot.
TransferToDepot(w, ok) ==
    LET n == w.estate.owner
        S == w.estate.floor
        e == Loaded(w, n)
        v == PutBack(Moves(w, S), n, [e EXCEPT !.depot = @ \cup S], ok)
    IN  [(IF ok \/ n \in w.online THEN v ELSE Spoils(v, S)) EXCEPT !.estate.floor = {}]

\* House::setHouseOwner.
OwnedBy(w, n, ok) ==
    IF w.estate.owner = n THEN w
    ELSE IF w.estate.owner = NoHolder THEN [w EXCEPT !.estate.owner = n]
    ELSE LET v == TransferToDepot(w, ok)
         IN  [v EXCEPT !.estate = [owner |-> n, due |-> TRUE, warnings |-> 0, floor |-> @.floor]]

\* Houses::payHouses.  An owner who is not in the game was loaded before the house is
\* taken from him and is stored after it: what went to his depot is overwritten.
Rented(w, letters, ok) ==
    LET n == w.estate.owner
        e == Loaded(w, n)
        piece == CHOOSE c \in e.depot \cap Money : TRUE
        kept == ok \/ n \in w.online
        paid == PutBack(w, n, [e EXCEPT !.depot = @ \ {piece}], ok)
    IN  IF n = NoHolder \/ ~w.estate.due THEN w
        ELSE IF e.depot \cap Money # {}
        THEN IF kept THEN [Moves(paid, {piece}) EXCEPT !.estate.due = FALSE, !.past.paid = @ \cup {piece}]
                     ELSE [paid EXCEPT !.estate.due = FALSE]
        ELSE IF w.estate.warnings < WarnLimit
        THEN IF letters THEN [w EXCEPT !.estate.warnings = @ + 1] ELSE w
        ELSE IF n \in w.online THEN OwnedBy(w, NoHolder, ok)
        ELSE Spoils(PutBack(OwnedBy(w, NoHolder, ok), n, e, ok), w.estate.floor)

-----------------------------------------------------------------------------

\* The server has just started; the warnings are from before.
StoreInit ==
    /\ owned = [n \in Holder |-> Nothing] /\ online = {}
    /\ \E has \in [Piece -> Holder], n \in Holder \cup {NoHolder}, k \in {0, WarnLimit} :
        /\ record = [p \in Holder |-> [Nothing EXCEPT !.bag = {x \in Piece : has[x] = p}]]
        /\ estate = [owner |-> n, due |-> FALSE, floor |-> {},
                     warnings |-> IF n = NoHolder THEN 0 ELSE k]
    /\ stored = estate
    /\ saving = "no"
    /\ past = [paid |-> {}, moved |-> {}, late |-> {}, spoilt |-> {}, rare |-> 0]

\* IOPlayerSQL::loadPlayer.
Load(n) ==
    /\ saving = "no" /\ n \notin online
    /\ owned' = [owned EXCEPT ![n] = record[n]]
    /\ online' = online \cup {n}
    /\ UNCHANGED <<record, estate, stored, saving, past>>

\* Player::onCreatureDisappear: three tries to save, and the player is gone anyway.
Disconnect(n, ok) ==
    /\ saving = "no" /\ n \in online /\ (ok \/ MayBe(1))
    /\ LET w == [World EXCEPT !.online = @ \ {n}, !.owned[n] = Nothing]
           lost == {x \in Piece : Where(w, x) # Where(World, x)}
       IN Becomes(IF ok THEN [w EXCEPT !.record[n] = owned[n]] ELSE Seldom(Spoils(w, lost)))
    /\ UNCHANGED <<stored, saving>>

\* Things are carried into a house and out of it, into a depot and out of it.
Drop(n, x) ==
    /\ saving = "no" /\ n \in online /\ x \in owned[n].bag
    /\ Becomes([Moves(World, {x}) EXCEPT !.owned[n].bag = @ \ {x}, !.estate.floor = @ \cup {x}])
    /\ UNCHANGED <<stored, saving>>

PickUp(n, x) ==
    /\ saving = "no" /\ n \in online /\ x \in estate.floor
    /\ Becomes([Moves(World, {x}) EXCEPT !.owned[n].bag = @ \cup {x}, !.estate.floor = @ \ {x}])
    /\ UNCHANGED <<stored, saving>>

Shelve(n, x) ==
    /\ saving = "no" /\ n \in online /\ x \in All(owned[n])
    /\ owned' = [owned EXCEPT ![n] =
                    IF x \in @.bag THEN [bag |-> @.bag \ {x}, depot |-> @.depot \cup {x}]
                                   ELSE [bag |-> @.bag \cup {x}, depot |-> @.depot \ {x}]]
    /\ UNCHANGED <<online, record, estate, stored, saving, past>>

\* Mailbox::sendItem, to somebody in the game or not; whether the save succeeds is not asked.
SendItem(n, to, x, ok) ==
    /\ saving = "no" /\ n \in online /\ x \in owned[n].bag /\ (ok \/ (to \notin online /\ MayBe(1)))
    /\ LET w == [Moves(World, {x}) EXCEPT !.owned[n].bag = @ \ {x}]
           v == PutBack(w, to, [Loaded(w, to) EXCEPT !.depot = @ \cup {x}], ok)
       IN Becomes(IF ok THEN v ELSE Seldom(Spoils(v, {x})))
    /\ UNCHANGED <<stored, saving>>

\* Commands::setHouseOwner, buyHouse and leaveHouse, House::executeTransfer, and scripts.
ChangeOwner(n, ok) ==
    /\ saving = "no" /\ n # estate.owner /\ MayBe(1)
    /\ Becomes(OwnedBy(Seldom(World), n, ok))
    /\ UNCHANGED <<stored, saving>>

RentFallsDue ==
    /\ saving = "no" /\ ~estate.due /\ estate.owner # NoHolder /\ MayBe(1)
    /\ Becomes([Seldom(World) EXCEPT !.estate.due = TRUE])
    /\ UNCHANGED <<stored, saving>>

\* The command of the admin protocol, with letters.
PayHouses(ok) ==
    /\ saving = "no" /\ MayBe(1)
    /\ Becomes(Rented(Seldom(World), TRUE, ok))
    /\ UNCHANGED <<stored, saving>>

-----------------------------------------------------------------------------
(* Game::saveServer.                                                        *)

SavePlayers ==
    /\ saving = "no" /\ MayBe(1) /\ saving' = "players"
    /\ Becomes([Seldom(World) EXCEPT !.record =
                    [n \in Holder |-> IF n \in online THEN owned[n] ELSE @[n]]])
    /\ UNCHANGED stored

\* Houses::payHouses, and the things in the houses: the first part of Map::saveMap.
SaveTiles ==
    /\ saving = "players" /\ saving' = "map"
    /\ LET w == Rented(World, FALSE, TRUE)
       IN /\ Becomes([w EXCEPT !.past.moved = w.past.late, !.past.late = {}])
          /\ stored' = [stored EXCEPT !.floor = w.estate.floor]

\* IOMapSerializeSQL::saveHouseInfo.
SaveHouseInfo ==
    /\ saving = "map" /\ saving' = "no"
    /\ stored' = estate
    /\ UNCHANGED <<owned, online, record, estate, past>>

\* The server stops and starts: Map::loadMap and loadHouseInfo.
Crash ==
    /\ MayBe(1)
    /\ LET w == [Seldom(World) EXCEPT !.owned = [n \in Holder |-> Nothing], !.online = {},
                                      !.estate = stored, !.past.moved = {}, !.past.late = {}]
       IN Becomes(Spoils(w, {x \in Piece : WhereStored(World, stored, x) # Where(World, x)}))
    /\ saving' = "no"
    /\ UNCHANGED stored

StoreNext ==
    \/ \E n \in Holder : Load(n)
    \/ \E n \in Holder, ok \in BOOLEAN : Disconnect(n, ok)
    \/ \E n \in Holder, x \in Piece : Drop(n, x) \/ PickUp(n, x) \/ Shelve(n, x)
    \/ \E n, to \in Holder, x \in Piece, ok \in BOOLEAN : SendItem(n, to, x, ok)
    \/ \E n \in Holder \cup {NoHolder}, ok \in BOOLEAN : ChangeOwner(n, ok)
    \/ RentFallsDue
    \/ \E ok \in BOOLEAN : PayHouses(ok)
    \/ SavePlayers \/ SaveTiles \/ SaveHouseInfo \/ Crash

StoreSpec == StoreInit /\ [][StoreNext]_storeVars

-----------------------------------------------------------------------------

\* A thing is in one store, unless it is spent, and a restart finds it there if it has
\* not gone from one store to another since the last save of the server.  Excepted is
\* what was spoilt: by a save that failed, by a crash after it had moved, and by the
\* eviction of an owner who is not in the game.
BelongingsKept ==
    \A x \in Piece \ past.spoilt :
        /\ Cardinality(Where(World, x)) = (IF x \in past.paid THEN 0 ELSE 1)
        /\ x \notin past.moved => WhereStored(World, stored, x) = Where(World, x)

=============================================================================
