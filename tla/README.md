# evolution078ots: a TLA+ model of the game server

evolution078ots is a game server in C++ for clients of version 7.8/7.9: one
process, one thread per connection, one thread that runs timed events, and one
big lock, `Game::gameLock`. These modules model the parts where threads, locks,
callbacks, object lifetimes and rules that are spread over many places meet,
check them with TLC on small instances and prove a large part of what is checked
with TLAPS for every value of the constants.

Contents: 1 inventory, 2 modules, 3 runs, bounds and fairness, 4 properties and
findings, 5 proofs, 6 observations met while modelling, 7 what is not modelled,
8 plan.

## 1. Inventory

| component | source (`src/source`) | state | operations | hard behaviour |
|---|---|---|---|---|
| Scheduler | `game.cpp` 225-368, `scheduler.h` | `eventList`, `eventIdMap`, `eventIdCount`, `eventSignal`, `eventLock` | `addEvent`, `stopEvent`, `eventThread` | signal and id read after unlock, time-out against addition and stop, tasks that take `gameLock` |
| Game sessions, server status | `otserv.cpp` 130-540, `protocol79.cpp` 72-200, 655-683, `game.cpp` 562-690, `status.cpp` | socket, key, `pendingLogout`, `listPlayer`, `useCount`, `ToReleaseThings`, players online | login, reattachment, read loop, logout, kick, death, release | code between two sections of `gameLock`, sockets with two owners, reference counts |
| Bans | `ban.cpp`, `otserv.cpp` | lists of bans, attempts of addresses | give, show, remove, ask, save, load | asked before a pause, given meanwhile; numbers of a list |
| Account manager | `game.cpp` 3600-, `ioaccountsql.cpp` | conversation, rows of accounts and players, premium time | create, rename, pay, save, log in | read and write of a row with the game between |
| Trade, house documents | `game.cpp` 2010-2330, `player.cpp` 1058-1297, `commands.cpp` 870-1512 | `tradePartner`, `tradeItem`, `tradeState`, `tradeItems`, owner of a house | request, accept, transfer, close, every item event | two sides that must agree, items that change under an offer, a transfer of two moves |
| Parties | `party.cpp`, `protocol79.cpp` 2588-2635 | leader, members, invitations; `Player::party` | create, invite, join, revoke, kick, pass on, leave, disband | pointers looked up before the lock and used after it |
| Items, containers, tiles | `game.cpp` 916-1627, `container.cpp`, `tile.cpp`, `player.cpp` | the tree of cylinders, counts, `inventoryWeight`, `containerVec` | move, exchange, split, merge, pay, transform, decay, windows | several cylinders asked before they change, values remembered |
| Acting on things | `protocol79.cpp`, `player.cpp`, `actions.cpp` | the order kept while walking, `readItem` | use, rotate, move, trade, write, push | the order is written without the lock |
| Blows, fights, advances | `game.cpp` 2847-3100, `creature.cpp`, `player.cpp` | damage map, skulls, frags, levels, skills | blow, heal, die, kill, gain | books that must balance, timers of skulls and fights |
| Conditions | `condition.cpp`, `movement.cpp` | list of conditions, speed, abilities | add, merge, tick, end, equip | effects are added and taken back, never recomputed |
| Spells, weapons, areas | `spells.cpp`, `weapons.cpp`, `combat.cpp` | mana, soul, charges, matrices | cast, conjure, summon, strike | check, deed and price at different places |
| View of the client | `protocol79.cpp`, `tile.cpp` | stacks, known creatures | describe, add, remove, move | ten things of a stack, a bounded list on both sides |
| Creature events and targets | `creature.cpp`, `monster.cpp` | ids of events; attacked, followed, master, target list | think, attack, walk, come, go, die | results of `stopEvent` ignored, plain pointers |
| Monsters, their kinds, spawns, raids | `monster.cpp`, `monsters.cpp`, `spawn.cpp`, `raids.cpp` | counters, kinds by id, spawned maps, the running raid | think, summon, reload, check, start | checks that re-arm themselves, reloads in place |
| Ways and following | `map.cpp`, `game.cpp`, `creature.cpp` | `listWalkDir`, `forceUpdateFollowPath` | search, walk, follow | a way kept while the world changes |
| NPCs and shops | `npc.cpp`, `data/npc/scripts/lib` | handlers, focus, queue, talk state | load, speak, walk, sell, travel | one conversation for all customers |
| Houses, persistence | `house.cpp`, `housetile.cpp`, `ioplayersql.cpp`, `iomapserializesql.cpp`, `mailbox.cpp` | owner, lists, stored records, depots | enter, edit, kick, rent, mail, save, load | rights asked early, three transactions, a player stored behind his back |
| Chat channels and guilds | `chat.cpp`, `guilds.cpp` | users, invitations, guilds | open, invite, exclude, join, leave | pointers to users |
| Lua scripts | `luascript.cpp` | environments, uids, timers, objects | call, name, start, stop, reload | re-entrance into the game |
| Commands, talk, remote control | `commands.cpp`, `game.cpp`, `admin.cpp` | access of commands, state of the server, mutes, connections | say, reload, kick, close, save, shut down | two files of rights, a counter without a lock |
| Beds | `beds.cpp`, `game.cpp` 602, `actions.cpp` 210 | sleeper, begin of the sleep, ids of both halves, `beds.xml` | use, wake up, save, load | a sleeper who is kicked, stored and woken by different parts; two files |
| Map, depots, arena, wire protocol, loaders | | tables, buffers | look up, parse, format | see section 7 |

How they interact. A connection thread (`ConnectionHandler`) creates a `Player`
and a `Protocol79` under `gameLock` and then runs `ReceiveLoop`, whose handlers
lock `gameLock` for each message; an Account Manager conversation and the remote
control run on threads like these, mostly without that lock. The event thread
runs tasks; most of them lock `gameLock` first, raids do not. Trades, parties,
houses and items are only changed under `gameLock`, except that several handlers
read before they lock. Objects that several parties refer to are reference
counted (`useThing2`, `releaseThing2`, `FreeThing`); between creatures, channels
and users, monsters and kinds there are plain pointers that notifications clear.
Components observe each other by callbacks: an item that leaves a container, a
tile or an inventory tells its owner (`onRemove...`), which may close a trade, a
window or an order. Scripts run in the middle of handlers and call back.

What makes each component correct is the list of properties in section 4; the
hazards they are aimed at are listed, each at its line, in `PROJECT.json`.

## 2. Modules

One module models one component. `gameLock` makes a handler one action; where the
code leaves the lock between two statements, or never takes it, the statements are
actions of their own. A component's constants, assumption, variables, `...TypeOK`,
`...Init`, actions, `...Next`, `...Spec` and properties follow each other in this
order. The mutated forms that stand before some definitions (their names say how they
differ) are plausible mistakes which the properties must notice; no specification
uses them.

| module | what it models |
|---|---|
| `Timers` | the promise of the scheduler: an event fires once, not before it is due, and not after a stop that answered true |
| `Scheduler` | the code of the scheduler, one action per critical section |
| `Session` | `ConnectionHandler`, `ReceiveLoop`, logout, kick, death, reattachment, reference counts, the counter of players |
| `Bans` | bans of addresses, characters and accounts, their numbers, attempts to log in, restarts |
| `Accounts` | the Account Manager, rows, premium time, promotions |
| `Trade` | trades, the items below them and the house documents sold through them |
| `Party` | class `Party`, its five handlers in two steps each, logout |
| `Items` | what `Game` does to items, the queries of the cylinders, payments, decay, windows |
| `Acts` | using, turning, moving, trading and writing, at once or after walking; pushes |
| `Blows` | damage, healing, mana shield, the damage map and its shares |
| `Beasts`, `Bestiary` | what a monster does by itself; kinds of monsters and their reload |
| `Conditions` | conditions and equipment of one player |
| `Fight`, `Advance` | skulls, deaths and the end of fights; levels, skills and what a death takes |
| `View` | what one client is told of the map and makes of it |
| `Casts`, `Areas` | what spells and weapons ask and take; whom an area strikes |
| `Targets`, `Events` | pointers between creatures; the events that keep them going |
| `Spawns`, `Raids` | blocks and strays; the files of raids and their chains of events |
| `Homes`, `Stores` | who may be in a house; where belongings are stored, mail, rent, crashes |
| `Beds` | beds, those who sleep in them, and their file |
| `Channels` | chat channels and guilds |
| `Npcs` | a shopkeeper, its script and its conversation |
| `Scripts` | Lua environments, names, timers, objects |
| `Paths` | searching a way, following, stumbling |
| `Orders`, `Admin`, `Talk` | commands and who may give them; the remote control, which extends `Orders`; mutes and yells |
| `MC...` | instances for TLC; `Scheduler` and `Trade`, and `Session` and `Party` for their findings, are run as they are |
| `...Proofs` | proofs, see section 5 |

`MCServer`, `MCWorld`, `MCDeeds`, `MCCreatures`, `MCServices` and `MCEndings` run
several components that share no state in one instance: the variable `part` is
chosen at the start, one component moves and the others stay in their initial states.
The product of components that do not meet would say nothing more. Components
that do meet are in one module (`Trade` with its items and houses, `Stores` with
players, mail, rent and saves) or extend each other (`Admin` and `Orders`).

### Scheduler
`eventLock` makes each critical section one action: `AddEvent`, `StopEvent`,
`PopTop`. `WaitSignal` enters the untimed or timed wait, `Timeout` and
`SpuriousWake` leave it, `SendSignal` and `ReturnId` are the two statements of
`addEvent` after its unlock, `RunTask` and `DeleteTask` are the call and the
deletion of a task outside `eventLock`. A task may take `gameLock` and may add
and stop events itself. Ids and times are bounded by `MaxEvent` and `MaxTime`.
`ImplementsTimers` maps `Scheduler` to `Timers` by `StatusOf`.

### Session
A member of `Conn` names the thread, the socket, the `Player` and the
`Protocol79` of one accepted connection; a connection is used once, which bounds
the model. `pc` follows `ConnectionHandler` and `ReceiveLoop`: `EndRead`,
`CloseSocket`, `ZeroSocket`, `CheckPending`, `FightWait`, `RemoveOrResume` are the
statements after a failed read, which run without `gameLock` up to the last.
`Kick` and `KickClose`, `KickZero` are `logout()` called by another thread.
`RemovePlayerRead` and `RemovePlayerWrite` are the unlocked decrement of the players
online. `FlushSendBuffers` empties `ToReleaseThings`. The runs use
`AllowClones = FALSE`; with clones (the value of the `config.lua` in the repository)
no session is ever reattached; the proofs hold for both. Players whose access
lets them pass by the waiting list are not modelled, nor is the order of that list.

### Bans and Accounts
`Bans` keeps a sequence per kind, so that a number removes what stands there *now*;
`shown` is what the operator saw. A connection passes its questions in `Connects`, the
pause of a second, and the login. `Accounts` gives a conversation a step for each
answer that writes, and the saves of the game steps between; `torn`, `shared` and
`doubled` remember the accounts where the code's unlocked read and write have already
crossed, which the properties except by name.

### Trade
`Item`s lie in cells of the ground, in a player's slots or in a container. The
guards of `RequestTrade` are those of `playerRequestTrade` and
`internalStartTrade`; `TransferTrade` is the whole of `playerAcceptTrade` when
both have accepted, with its two queries, two moves and the events that follow;
`MoveItem`, `RemoveItem` and `TransformItem` are the ways an item changes under
an offer, with the notifications (`LeaveCloses`, `EnterCloses`, `UpdateCloses`)
that close trades, and `WriteItem` the one that tells none: a letter on offer gets
another text, and `writer` remembers by whom. `CrashTrade` is the transfer with an empty side: the code
dereferences a null pointer and the model stops. `SellHouse`, `BuyHouse` and
`LeaveHouse` are the house commands; the document of a house is the item that
`HouseTransferItem::onTradeEvent` treats specially. What is above an item
(`Above`) is found by a function over the steps up, not by recursion.

### Party
A handler of `Protocol79` is two steps: `Parse...` looks up without the lock, the
operation runs under it with what was looked up. `live` are the parties that
exist; a call on a deleted one, or `members.erase(end())`, is undefined behaviour
and sets `broken`, which ends the behaviour. `MaxParty`, `MaxSize` (members and
invitations in all parties together) and `MaxCall` (threads between the two
steps) bound the instance.

### Items
The things are one variable, the record `world`, so that an operation of `Game`
is a function from worlds to worlds and a handler a composition of them, in the
order of the calls: `MoveItem` is `Destination` (`__queryDestination`),
`QueryAdd`, perhaps `Exchanged`, `QueryAdd` again, `QueryMaxCount`, `QueryRemove`
and `Moved`. A position counts from 1, 0 is "wherever" and -1 is "move up". An
inventory has three slots, one of clothes and the hands: the rules of the other
slots are that of the first. A moved stack is a new item, as in the code; a
member of `Item` is a piece of memory that is used again after it was released,
at once and not when the last reference is gone. `Refreshed` is what the
notifications do to `inventoryWeight`, `ClosedFor` what they do to the windows of
containers (`open`). `goods` is a history variable: the books of what scripts
brought in, took out and what decayed.

### Acts, Blows, Beasts, Bestiary
`Acts` keeps the pending order in the fields of the code. The thread of the connection
writes them one by one without `gameLock` (`SetFollowItem`); the walk event, which holds it,
reads the kind and the sprite at its call (`Call`), the positions when it looks there
(`Look`) and clears the fields one by one (`Clear`), so that either may find what the other
has half done. A position is one field, stack positions and the second sprite are left out,
and the assignments are seen in the order of the code. `mark` remembers whose order each
field is of, `deed` how deeds were done. `Blows` is
`combatChangeHealth` and `combatChangeMana` in the order in which immunity, defense,
armor, items and the mana shield are asked. `Beasts` counts the time of a monster
in its intervals; `round.owed` counts the spells that may come early, for one that was out of
reach and for each loss of the foe (`FoeLost`). `Bestiary` reads `Sheets` (files) into kinds, again after an edit, in
the order of `monsters.xml`.

### Conditions, Fight, Advance, View, Casts, Areas
`Conditions` keeps the list with what each start added, so that an end in any order must
take back as much; `gained` is what the floor of the speed added by the way. In `Fight` time is counted in thoughts of `Player::onThink`; a login
after a death gives a new id, which is why a fighter may be attacked again by
"another". `Advance` keeps the sums of what was gained and lost as history. `View` has the
server's stacks and the client's picture of them; every message is applied in the
order it is written. `Casts` is each kind of cast with its checks and payments in
order and a script that may take mana in the middle; `tally` counts what fell short
(`short`), what scripts took, and the monsters that were taken for nothing (`free`). `Areas` computes the rotated
matrices as `setupArea` and `setupExtArea` do, with their integer arithmetic.

### Targets, Events, Spawns, Raids, Npcs
`Targets` has one action per way in which a creature comes into sight, leaves it, is
convinced, killed or logs out. `Events` has the three ids a creature keeps and the
scheduler's queue, with the step between popping an event and getting `gameLock`.
`Spawns` is `checkSpawn` with its re-arming. `Raids` lets `checkRaid` look at the running
raid in one step and set it in another, since it runs without the lock; before that it is
the reading of the files: which raids and events are told well enough to be kept, and in
which order (`EventAt`: by their times, of two at a time the last one first). `Npcs` has the
functions a script file leaves behind, the focus, the queue and the state of the talk.

### Homes, Stores, Beds, Channels, Scripts, Paths
`Homes` asks for the right when a window is opened and stores the list when it comes
back. `Stores` keeps every belonging in memory, in a stored record or on a house's
floor, with each transaction of a save a step and a crash possible after each; `spoilt`
names what the code is known to lose. `Channels` keeps the users of a channel beside
those who are in the game. `Beds` has both halves of each bed, of which one finds the other
or does not, and takes the server down between any two steps. `Scripts` has the stack of environments and one step for
each function a script calls. `Paths` is the best-first search as a fold over its rounds,
of which there are at most `MaxClosed`, and the rules by which a way is given up, searched
again or walked, beside a bystander who walks, appears and disappears. Whether there
really is a way is asked of a search of all tiles (`IsThereAWay`).

### Orders, Admin, Talk
`Orders` has the access of each command as read from `commands.xml`, the state of the
server and who is inside. A reload is a step for each command, or group of commands, that
is blanked, loaded and gets its letter (`Blanks`, `Parses`, `Loads`, `Tags`), for each of
those who reload: a player's command holds `gameLock` from the begin to the end, so nothing
else that needs the lock happens then (`Free`); the remote control holds none, so that
everything does, other reloads too. `mingled` says that two have met. `Admin` adds the
connections of the remote control, of which the number is read in one step and changed in
another, its reloads, and its saves, which take one player after the other without the
lock. `Talk` asks for a mute and counts
the message in steps of their own, so that a second may pass in between.

## 3. Runs, bounds and fairness

| run | instance | why it is enough |
|---|---|---|
| `scheduler` | 2 callers, 2 events, instants 0-2, fair | an event earlier and one later than the one slept for, a stop of the top and of another, two additions at once |
| `scheduler_first` (violation) | 1 caller, 2 events | one event slept for, one added earlier |
| `server` | sessions: 3 connections for 1 character, room for 2; bans: 2 characters of one account and a gamemaster, 2 addresses, 2 connections, 2 attempts, 2 bans at a time, instants 0-2; accounts: 1 account, 1 name, 2 conversations, 2 rows | a session, the one that takes it over and a third that meets both; a number that moves because another ban was removed; two conversations that ask at once |
| `session_socket` (violation) | 2 connections | see findings |
| `trade_items` | 3 players, a container, a letter, a thing nobody can move, 1 house, 2 cells out of reach of each other, 1 slot, room for 1 | an offer in, around and next to another; a letter that is written on while it is offered, by its owner or where it lies by another; two players compete for a third; a second move that fails |
| `trade_house` (violation) | 3 players, 2 houses, 1 coin | see findings |
| `party_kick` (violation) | 2 players | see findings |
| `deeds` | items: 2 players, 2 tiles out of reach, 4 items, stacks of 2, bags of 2, corpses of 1, strength for 3; acts: 3 tiles in a line, one of them protected, the order in 4 fields; blows: 2 hunters and a summon, 2 points of health, 1 of mana; monsters: 2 attacks, 1 defense, 2 summons; kinds: 3 names, 4 files, 2 reloads | what may be in the world at once is a choice of `Supplies`: a bag and coins, three coins (a merge that overflows), two bags one in the other, a corpse and two weapons. Each limit is met with something to spare |
| `creatures` | conditions: a body of 2 slots, 5 kinds of equipment, a speed of 20 against paralysis by 6 and by 22; fights: 2 players and a summon; 3 levels, magic levels and skills; a view of 3 tiles with stacks of 3 and 2 known creatures; 3 casts; areas up to 2 by 2 and 1 by 3 on 5 by 5 tiles with a pillar | effects that end in another order than they came; a speed at its floor of 1; a fight that meets an arena, a death and a login; something that comes up from below the limit |
| `world` | targets: a player and 2 monsters on 3 tiles; events: 1 creature, 7 ids; 3 blocks; 4 raids with up to 3 events; 3 lodgers; 2 holders, 1 coin, at most 3 rare events; chat: 3 bodies of 2 characters; shop: 2 customers, 2 wares; 2 sleepers and 3 beds, one outside a house and one whose half is not found | a third tile that is out of sight; an id that is stopped while it is popped; a raid without events and one that is not told well, two events at a time; a crash after each transaction; one who waits behind another; a sleeper for each bed and one to spare |
| `services` | parties: 3 players, 2 parties, 2 threads in flight, size 2; scripts: 1 interface, depth 2, 3 things; ways: 10 tiles with a pillar, a box and a bystander, 4 closed nodes at most (100 in the code) | a leader, a member, a newcomer; a pointer to a party that was replaced; a script inside a script; a way around the pillar that is closed, or on which somebody stands; a search that meets its limit where there is a way (`verdict` "limited" is reached) |
| `endings` | sessions: 2 connections, room for 1; orders: 3 ranks, 9 commands in two groups that are reloaded one after the other, 1 announced shutdown, or a file that is edited instead; remote: 2 connections, 1 allowed, for the login, and one that gives orders beside one player of rank 1; talk: 1 who can be muted twice, 1 exempt; fair | a lost session and a resuming one; an order of each rank against each; a connection too many; a reload between whose steps the player gives commands, the reload among them, and a save that he leaves meanwhile |

The names of bounds are commented `bound` where the module declares them. Symmetry is
used where all properties of a run are invariants or box properties over states, and
only over constants that occur symmetrically.

Deadlock is checked in `scheduler`. Elsewhere the system may really stop: connections are
used once, items and reloads are few, the server ends by a shutdown, and a transfer
with an empty side or a call on a deleted party ends the process.

Fairness. The scheduler run assumes that threads keep running (weak fairness of
the steps of `eventThread`, of leaving a section and of the two statements after
the unlock), strong fairness of `Timeout` (spurious wake-ups do not hide a
time-out for ever) and of `RunTask` (`gameLock` does not starve the event
thread). It does not assume that anybody adds or stops events. The sessions in
`endings` assume that each thread keeps running and gets a lock it waits for in the end
(strong fairness of the steps of `ReceiveLoop` and the handler, and of the release),
that a kick which has begun goes on and that the fight of a player ends, and nothing about
logins, kicks or deaths. The orders assume only that the timer of an announced
shutdown runs (strong fairness, since a reload by command may hold `gameLock` when it is
due), which is the promise of the scheduler, and that such a reload, once begun, goes on
(`OrdersFair`).

## 4. Properties

Several properties of a component are one definition where they are about the same
state; `A = B /\ C` below names the parts.

Threads and connections
* `NoLostWakeup`: in the untimed wait the queue is empty or a signal is on its
  way; the deadline of the timed wait is that of a task in the queue.
* `ReadIdLive`: the task that `addEvent` reads after its unlock still exists when
  the caller holds `gameLock` and the task takes it. Without both it may be gone.
* `ImplementsTimers`: `Scheduler` implements `Timers`. `EveryEventFires`: an added
  event is run or was stopped.
* `SessionsHold = RefsExact /\ SessionsApart`: the reference count of a player is the
  number of its holders and it is deleted when it has none; a character is in the
  game at most once (`OneSession`), a resumed session reads with the key of its new
  connection (`KeyFresh`), no two sessions use one socket and no handler closes one it
  has handed over (`SocketNotShared`).
* `NoCombatLogout`: a player whose connection is lost leaves the game only after a
  moment out of combat.
* `BansHold = BannedStaysOut /\ NumbersHold /\ TriesCounted /\ BansOutlive`: who is
  banned and expelled is not in the game while the ban is in force, a number removes the
  ban that was shown, no address tries more often than allowed, saved bans outlive a
  restart.
* `AccountsKeep = OneQuestion /\ MadeAsSaid /\ SecretKept /\ PremiumKept /\ PremiumTrue`:
  characters are as agreed, passwords as announced, premium time stays given and is had
  by nobody to whom it was not given.
* `EverythingEnds = SessionsEnd /\ ShutdownComes`: a lost session is resumed or leaves,
  a removed player is freed, an announced shutdown comes or was called off.

Players and things
* `OffersHold = TradesAgree /\ OffersStand`: partners name each other and are both in the
  trade (`PartnersAgree`), `tradeItems` has exactly the items of open trades
  (`OffersExact`), an item on offer stays where its owner reaches it (`OfferAtHand`),
  an offered container holds what was shown, and the items are as they were shown
  (`OfferAsShown`) but for the text of a letter, which is changed without a word to anybody;
  a letter that its owner carries is written on by nobody else (`LettersOwn`).
* `Exchange`: what one player carries gets into the hands of another only in a trade of
  the two, as what was shown and for the other's offer.
* `PointerListed`: a party pointer names a living party that lists the player.
* `Kept = Placed /\ Conserved`: what a cylinder lists is there once, nothing is in
  itself, and the books agree with the world whatever is split, merged, exchanged,
  refused or paid. `Limits = Room /\ OneWeapon /\ NotOverloaded`: stacks, containers,
  hands and strength keep their limits. `BooksFollow = WeightExact /\ WindowsReachable`:
  the remembered weight is that of the things carried, and a window shows a container
  that exists, within reach. `LimitsAndBooks` is both.
* `DeedsCount = ActsAsOrdered /\ BlowsCount`: however an order is written, read and cleared
  field by field by two threads, a deed is what one order said as a whole, on the thing that
  was meant, from beside it and once for an order, and what is left when all are through is
  never a mixture of two orders; excepted are place and wholeness of a deed whose event met
  the writing, as the code mixes orders there. `BlowsCount` says that attackers are
  booked for what the victim lost to them (`BookExact`), no more is shared than the
  monster was worth (`SharesExact`) and nobody practises on one he never hurts
  (`NoIdlePractice`).
* `MonstersHold = BeastsKeepPace /\ KindsHold`: no spell comes before its time but one for each
  that was out of reach and each loss of the foe, summons
  and masters name each other, loot fits the corpse (`PaceKept`, `SummonsKept`,
  `LootKept`); a kind read again is what a first reading would give, its numbers are in
  bounds, and names and monsters lead to their own kind (`ReadAfresh`, `Fit`,
  `LeadToThemselves`).

What a creature is and sees
* `ConditionsEnd = EffectsTakenBack /\ RoundsPaid`: when its conditions are gone a player
  has its own speed, light, outfit and abilities back, and damage over time was paid
  round by round. What the floor of the speed gives stays, and is bounded (`gained`).
* `EndsWithFight`: out of a fight nobody is locked out of protection zones, may be struck
  with impunity or shares in the next death; a white skull is left only where an
  arena kept it.
* `BooksKept`: levels, mana and tries add up to what was gained less what deaths took.
* `ShowsWhatIsThere`: a client shows, place by place, what is on the tiles in sight.
* `CastsHold = CastsPaid /\ StrikesItsShape`: what was cast was paid, and nothing else was
  (`ManaPaid`, `SoulPaid`, `GoodsPaid`). Three exceptions have a name and a bound: mana that a
  script takes out of the price (`Scripted`), the second price of a monster (`Twice`), both
  of which fall short by what is missing, and a monster convinced by one who has not the
  mana, who keeps it for nothing (`tally.free`). An area strikes the tiles of its
  shape turned to the target, in sight and open to blows.

The world
* `TargetsRight = TargetsHold /\ NoneSleepsBeside`: no pointer between creatures dangles or
  shoots blind, and no monster sleeps beside a player.
* `WorldGoesOn = NoLostChain /\ NeverDeaf /\ RaidsMoveOn`: an event of a live creature is
  under way, a spawn that is not checked has a monster for every block but those that
  failed at the start, a running raid waits for an event that exists, and no longer than its
  file says, unless the raid was started twice (`doubled`).
* `OnlyInvitedInside`: whoever is in the game and in a house is invited there.
* `BelongingsKept`: a thing is in one store, and a restart finds it there if it has not
  moved since the last save; what the code is known to lose is excepted by name.
* `BedsHold`: nobody sleeps while he is in the game or in two beds, in memory or in the
  file, and both halves of a bed show whether somebody sleeps there; excepted is a bed whose
  sleeper was not found (`ghosts`).
* `ChannelsHold`: only players who are in the game and belong there listen in a channel.
* `NpcsHold = NeverRooted /\ LineKept /\ SoldAsOffered /\ OwnHandlers`.
* `ScriptsHold = NamesExact /\ TimersOnce /\ ObjectsKept`: a uid finds what it named or
  nothing, a timer runs once, numbers of objects are not given twice.
* `FollowsWell = LeadsThere /\ GivesUpRightly`: a way that is kept leads to the target over
  tiles that can be entered, except that a bystander who has walked since the last look may
  stand on one; and a search that finds none is right, or met its limit of nodes.
* `OrdersKept = OrdersHold /\ AdminHold`: a command runs only for who may give it
  (`OnlyAllowed`): always, that one without any access gives none that asks for some, and
  for the others while no reload is under way, unless the last two met or the file could not
  be read. Kicks come from above (`KickedFromAbove`), a closed server lets in only
  who may stay (`ClosedToMost`), a reload that met no other brings back the letters and the
  access of a sound file (`TagsKnown`); the remote
  control obeys only connections it let in (`OnlyAdmitted`), counts them right
  unless the unlocked counter was raced for (`CountedRight`), and what players have done is
  lost at the end only when it ends the server (`EndsSaved`).
* `TalkHold = AlwaysCounted /\ MutedUnheard /\ MutesGrow`: nobody speaks past the count, a
  muted speaker is not heard, each mute is longer than the one before.

Each MC module has one type invariant (`ServerTypeOK`, ...); `Scheduler` and `Trade` have
`TypeOK`.

### Findings

Four runs show that the code does not do what a text of the repository says:
* `SleepsUntilFirst` (`game.cpp:339`): the inverted comparison in `addEvent` sends no
  signal for an event that is due before the one slept for.
* `ClosedOnce` (`otserv.cpp:535`): a socket with two owners is closed twice. It is never
  closed a third time: `TypeCorrect` of `ServerProofs`.
* `OneHouse` (`commands.cpp:943`): that the buyer has no house is checked only when the
  trade is opened.
* `KickedIsOut` (`party.cpp:47`): a double membership survives a kick.

`PROJECT.json` quotes the lines.

## 5. Proofs

A theorem holds for every value of the constants that satisfies the module's
assumption: finite sets where the code's lists are finite, bounds that are numbers,
values such as `None` that are not members of the sets they stand beside. TLC evaluates
the same assumptions in the runs. The theorems speak of the specification of the
component; a run of an MC module moves that component by the same actions, some of
them restricted to fewer choices.

| module | theorems | about |
|---|---|---|
| `SchedulerProofs` | `TypeCorrect`, `NoLostWakeupHolds`, `ReadIdLiveHolds`, `TimersImplemented` | any callers, ids and instants; the refinement of `Timers` |
| `ServicesProofs` | `TypeCorrect`, `PointerListedHolds`, `ScriptsHoldAlways` | any players, parties and threads, any interfaces, things and slots, as long as nothing undefined has happened |
| `ServerProofs` | `TypeCorrect`, `SessionsHoldAlways`, `NoCombatLogoutHolds`, `BansTyped`, `BansHoldAlways` | any connections, characters and addresses, with and without clones |
| `AccountsProofs` | `AccountsTypeHolds`, `AccountsKeepAlways` | any accounts, names, conversations, vocations, passwords and lengths of premium time |
| `TradeProofs` | `TypeCorrect`, `OffersHoldAlways`, `ExchangeHolds` | any players, items, houses and depth of containers |
| `WorldProofs` | `OnlyInvitedInsideHolds`, `ChannelsHoldAlways`, `WorldGoesOnHolds`, `NpcsHoldAlways`, `BelongingsKeptHolds`, `BedsHoldAlways` | any lodgers, listeners, guilds, creatures, spawns, raids and their files, customers, wares, belongings and beds |
| `EndingsProofs` | `OrdersKeptAlways`, `TalkHoldAlways` | any persons, ranks, commands, connections and speakers |
| `CreaturesProofs` | `FightTyped`, `EndsWithFightAlways` | any fighters, limits and lengths of fights |

The arguments. Few of the properties are inductive as they stand; what had to be added
says why the code works.

* **Scheduler.** `IInv` adds: ids are handed out in order (`Issued`); an id is in the map
  only while its task is queued, and fired, stopped and pending ids are disjoint
  (`Queued`); the popped task has left the queue, was not stopped and was not run
  (`Popped`); a task between its push and the return of `addEvent` is unknown to others,
  and, under `gameLock`, still queued or popped and waiting for that lock (`Adding`);
  at a time-out the deadline has come (`TimedOut`). With it the refinement is a
  case analysis over `Next`: `AddEvent` is `Add`, `StopEvent` is `Stop`, `PopTop` is
  `Take`, `RunTask` is `Fire`, and the rest change nothing there.
* **Party.** A living party has a leader.
* **Scripts.** `ScriptsInv` says why names may be trusted though nothing takes them back: a
  thing that has a name in an environment stays in memory while scripts run, so a name is
  that of one thing and a thing has one name (`NamesApart`, `NamesFit`), and what a script
  was told is still true (`ToldTrue`). The numbers a slot has given are the last ones of its
  counter, in order (`InOrder`), so the counter, which takes 1 again after the last, meets
  one in use only when all are in use; as every name is of another address, that needs more
  things than numbers (`NotAllUsed`, the assumption on `Address`). What is left of timers is
  told apart by the numbers, and a timer that is over is in no list (`TimersApart`); a timer
  and a file that is loaded run in the first slot only (`EnvsRight`), whose counters are
  therefore above all objects there are (`ObjectsApart`).
* **Sessions.** `IInv` ties the place of a thread to the state of its player: it is in the
  game while its thread serves it until it is removed (`Playing`); a thread that has not
  logged in has none, and a refused one loses it (`Unused`); a logout is pending of
  removed players only (`Going`); a player that is about to be removed for want of a
  connection has been out of the fight since he lost it (`CalmFirst`); the socket of a session is its own or that of the login it was handed
  to (`OwnKey`, `Connected`), and it is closed at most twice (`Closings`): once the session
  has forgotten it, nobody is left to close it but the handler that refused it.
* **Bans.** `BannedStaysOut` needs that whoever lost his connection is still in the game, so
  that his return is not a new login (`CutPlays`), and that the staff stays there
  (`StaffPlays`); `TriesCounted` that attempts which failed in a row are in the counter of
  the address (`FailuresCounted`). The lists of numbers are sequences, so the lemmas are
  about removing one element. Saved bans are finite sets, and a restart enumerates them
  in some order.
* **Accounts.** `AccountsInv` has four parts. `Tables`: rows have numbers of their own, a
  conversation is under the free number or about an account that is there, and has the
  answers its open question needs (`Guest`, `Owner`), and a player has a row of his name.
  `Secrets`: what was read and is not yet written back is still what the table has, unless
  the account is in `torn` or `doubled` (`Saves`, `ReadFresh`). `Names`: one conversation
  makes a character, whose row is there just from the insert on (`OneMakes`, `RowsMade`), so
  that a name has one row; what was agreed is what is made, stored and played
  (`MadeAgreed`, `RowAgreed`, `PlayedAgreed`), since a save changes a vocation only within
  its promotions. `Premium`: in an account that no race has touched, each conversation,
  each player and the table know the end that was given last (`Known`, `KeptQuiet`,
  `PlayedQuiet`); a save that was begun knows a newer one, which is why an account is only
  settled when no save of it is under way. The proof needs that a connection is not a name
  (`AccountsAssumption`), as `Reading` and `SessionsOf` have both in one set.
* **Trade.** The hard part is "above": whether an offered item is touched by a move depends
  on the chain of containers over it. `Up(par, i)` is the least set that has the parent of
  `i` and is closed under parents (`UpLeast`); the function `Above` of the model computes
  it, since a climb of as many steps as there are items must repeat itself
  (`ClimbCloses`, by the pigeonhole principle and an induction over numbers that is
  derived from well-foundedness). `Rooted` says that each item ends at one player or
  tile, and is kept by every move because what is moved into is not below what is
  moved (`RootedMove`). `LeaveNotices` and `EnterNotices` then show that every offer
  touched by a move is told of it, which is the reason for `OfferAtHand` and
  `OfferAsShown`. `Exchange` follows because the two moves of a transfer bring
  each of the offered items and what is in it, and nothing else (`BroughtOne`,
  `Exchanged`). The proof also shows that `altered` stays empty: no item on offer is moved,
  removed or transformed without its trade being closed. The text of a letter does change
  so (`WriteItem`); `LettersOwn` holds because nobody writes on what another
  carries, and because an offer that is picked up or handed on closes its trade.
* **Houses.** `OnlyInvitedInside` is inductive with its type: each change of a list kicks.
* **Channels.** One object of a character is in the game (`OneEach`); nobody hears a
  public or guild channel in which a logout would not find him (`CommonFound`), for the
  guild he shows is that of the lists (`GuildShown`); the owner of a private channel is in
  the game (`OwnerPlays`) and its guests are those he invites (`GuestsInvited`).
* **Events.** A chain is broken where an id is stopped that was popped already. `ChainsOK`
  says which ids can be in a slot, in the queue and popped at once, `NewIdle` that a
  creature that was never placed has none.
* **Spawns and raids.** `NeverDeaf` is inductive with the number of strays; a running raid
  moves on because `nextEvent` is one of its events (`NextThere`). That it never waits longer
  than its file says rests on the order in which the events are kept: the ranks of the events
  are the numbers below their count (`RanksAreAll`), and later ones are no earlier
  (`EventsInOrder`); and on a raid that has one chain having it at `nextEvent` (`OneChain`),
  which fails once it was started twice.
* **Beds.** Each half of a bed has one of its two ids, the taken one leads back to the empty
  one and looks in the same direction (`BedLooks`, `BedRight`); so one lemma about a new
  sleeper in one bed (`SetSleeperIs`) serves going to bed, waking up and the restart. The
  file is taken from the sleepers at one moment, so nobody is in it twice.
* **Npcs.** Those who wait are not the one who is served, a shop that is away has no focus
  (`Quiet`); what is asked about last is the node of the conversation, unless bystanders
  have mixed in (`OfferKnown`, section 6); functions of other scripts are only there after
  a script that failed (`NothingStray`).
* **Belongings.** `StoreInv` says of each thing in which one store it is (`OneStore`) and that
  it is there in one place, the bag or the depot (`OnePlace`); that a restart finds what has
  not moved (`Recalled`); and what the half-done save has stored so far: first the players as
  they are (`Halfway`, "players"), then the floor of the house ("map"). The rent that is paid
  between the two moves things that are not stored with it, which is why the books keep them
  as `late`. All that a handler does to things is one of a few changes (`Shifted`: those in
  a set have gone elsewhere, each from the only store it was in, and the others rest), so
  one lemma (`ShiftedInv`) serves them all. A crash spoils what was stored elsewhere.
* **Commands, remote control, talk.** While a reload goes on, the access of each command is 1
  or what the file asks, so never below 1 where the file asks for some (`Modest`), which is
  why nobody without access gets through; a reload that goes alone has blanked what it has
  passed, loaded what it has passed and given the letters it has passed (`Halfway`); while
  reloads have not met there is one at most (`OneReload`), and at its end `TagsKnown` is left.
  That a remote control reloads just while it is "reloading" keeps the two apart (`Apart`). An order that is carried out was asked by a link that
  is logged in (`Admitted`, `ObeyedThere`), the counter is the number of links that were
  counted (`Counting`), and only a link that gave the order ends the process without a
  save (`EndsSaved`). A speaker at
  the limit of messages is muted, with a length that is a square of the number of his
  mutes (`MuteLength`).
* **Fights.** The invariant is about one fighter at a time. It says also of those who are
  away what a login must find: no fight, nobody attacked, a red skull only with deaths to
  wait for. That last part is not written down in the code anywhere; the red skull would
  lose whom it attacked were it read otherwise.

Only model-checked:
* liveness (`EveryEventFires`, `EverythingEnds`) and anything with ENABLED, which are out of
  the prover's reach;
* what recursive operators and folds over data compute: `Conditions`, `Items`, `Advance`,
  `View`, `Casts`, `Areas`, `Paths`, and `Targets`, whose steps fold over the
  creatures in sight. The library's induction theorems take an
  operator as a parameter, which the provers cannot instantiate; a first-order induction
  over numbers, as in `TradeProofs`, is possible where a definition is a function over
  numbers;
* the properties of `Acts`, `Blows`, `Beasts` and `Bestiary`, which are next in the plan.

## 6. Observations

What was met while modelling, is in the models as the code does it, and contradicts no
text of the repository closely enough to be a finding. A property that the behaviour would
break excepts it by name.

* *Accounts.* Conversations with the manager run without `gameLock`. `playerExists` and
  `accountExists` mean "exactly one row", so two conversations asking at once make two
  rows of a name, neither of which loads afterwards. A character that enters the game between
  `createPlayer` and `savePlayer` overwrites what was agreed. `saveAccount` writes back a
  password and a premium end read before (`game.cpp:3537`, 3622, 3780). Premium time that
  ends during a session goes on until the next login.
* *Bans.* A shorter ban replaces a longer one and keeps the old reason; a ban without end is
  read back signed and dropped at load (`ban.cpp:395`); the address is not asked again
  after the pause of a second; a reattachment asks for no ban (`otserv.cpp:361`); numbers
  shown are stale after another removal.
* *Trade.* A transfer with an empty side dereferences null (`CrashTrade`). An item with a
  unique id that lies on the ground stays there in a transfer (`Stuck`). Writing on a letter
  that is on offer closes no trade and tells nobody (`game.cpp:1999`).
* *Parties.* A call on a deleted party or `members.erase(end())` is possible (`broken`).
* *Houses, persistence.* `payHouses` overwrites what it stored in the depot of an owner
  who is not in the game (`house.cpp:860`, 905); the text of a house window is stored
  without asking for the right again (`protocol79.cpp:1259`); a mailbox ignores the
  result of the save (`mailbox.cpp:165`); players, houses and map are saved in
  transactions of their own.
* *Channels.* `parseOpenChannel` (`protocol79.cpp:764`) never asks whether one is invited; a
  change of guild leaves the player in the channel of the old one (`chat.cpp:260`).
* *Npcs.* Words of bystanders move the conversation on, so that a "yes" may buy another
  ware; an offer outlives its customer; after an idle time-out the next in the line
  inherits the start of the talk (`npchandler.lua:281`); who travels leaves the focus
  without greeting the line.
* *Commands and remote control.* A `commands.xml` that cannot be read leaves every command
  at access 1; a foreign root leaves no letter that is taken for a command; commands run
  for any creature's say (`game.cpp:2655`); a yell is upper-cased before it is looked up;
  `/closeserver` and the remote control's close kick different ranks; the remote control's
  shutdown ends the process without a save, and the number of its connections is not locked.
  It reloads without the lock (`admin.cpp:502`), so that for a while every command is at
  access 1, for whoever has that; two reloads that meet may leave a command there, as the
  one that blanks it last finds the other's mark; its save walks the list of players
  without the lock (`admin.cpp:639`).
* *Beds.* The begin of a sleep is written as `sleepstart` and read as `startsleep`
  (`beds.cpp:395`, 463), so that a restart takes the sleep so far. A bed whose sleeper is not
  found looks taken and can be used again (`ghosts`); `loadBeds` answers false always.
* *Raids.* `checkRaid` holds no lock, so that the raid command can start a raid that the
  check is about to start; of the two chains each steps over events, and a difference of times may be below zero, which is 49 days. A raid
  without events keeps its place for ever.
* *Talk.* Logging in again clears a mute. Spells are said before the mute is asked for.
* *Spells.* `SummonMonster` and `ConvinceCreature` pay soul twice; convincing takes the
  creature before the mana is asked for, and leaves it with one who has too little; `ConjureItem` reports a failure after the first hand
  was done and paid; secure mode is inverted for runes (`spells.cpp:1786`); areas that are
  not square are mirrored and flipped wrongly (`combat.cpp:971`).
* *Blows.* Worn items absorb only after the attacker was told that nothing was blocked; a
  parry is used up even when the blow does nothing; a blow by nobody is not booked.
* *Monsters.* The comparison of `onThinkChangeTarget` is inverted (`monster.cpp:878`);
  a reload counts ids anew, so that names may end at another kind, and a known file
  that fails leaves a freed kind behind (`monsters.cpp:724`); bags inside loot may be
  overfilled; a target that is neither listed nor removed can be kept (`monster.cpp:191`);
  losing the foe gives the next spell a turn before its time (`monster.cpp:107`).
* *Conditions.* A paralysis that takes more than all speed leaves a player faster than he
  was, once it ends, by what the floor of 1 gave (`game.cpp:2847`).
* *Ways.* `listDir` is not cleared at the start or at the limit of nodes, so that a search may
  answer with an old way; the steps of a third creature do not make a way out of date
  (`creature.cpp:392`), though its coming and going does; a search may stop at 100 nodes
  where there is a way (`map.cpp:502`).
* *View.* A creature that moves from below the tenth place of a stack is not told of; more than
  150 creatures in sight are not known to a client.
* *Acts.* `setFollowItem` writes eight fields without `gameLock`, so that the walk event may
  carry out a mixture of two orders, or clear a part of the next; a walk to an item is never
  called off by other walking; a text window that was opened may name what is gone.
* *Fights.* Restoring experience, `healthMax` drifts (`player.cpp:1830`); blessings have no
  effect (`player.cpp:3356`).
* *Scripts.* A timer that stops itself is erased twice; uids of the map's unique items keep
  pointers to what is gone.

## 7. Not modelled

* The map, floor search, depots, teleports, the arena's ladder, vocations and outfits:
  sequential functions over large data, or tables read from XML.
* Wire protocol and encryption: blocking reads and layouts; a message is a choice of the
  environment, and which key decrypts it is in `Session`.
* Loaders and configuration: parsers at start-up, before the other threads run.
* The order and the time-outs of the waiting list, ranks that pass it by, gamemasters in
  houses and in the view, levels of the map other than one, formulas of damage, what
  spells look like, the XML back end of persistence (not built by default).
* The serialisation of conditions, which is dead code.

The notes of the components in `PROJECT.json` say what is left out of each.

## 8. Plan

Done: all components of section 2 modelled and checked; the proofs of section 5.

Next, in this order: `BlowsCount` without its sums and `ActsAsOrdered`; `TargetsRight`
(pointers between creatures) once its folds over those in sight are written as sets of
what each does. After them the properties whose definitions can be written as functions
over numbers: the books of `Advance` and the effects of `Conditions`.
