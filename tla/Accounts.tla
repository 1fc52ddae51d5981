-------------------------------- MODULE Accounts --------------------------------
(***************************************************************************)
(* Accounts, their characters and their premium time: what the Account     *)
(* Manager asks and does (game.cpp), what the command and the server save  *)
(* write of premium time, and the SQL store between them (ioaccountsql.cpp,*)
(* ioplayersql.cpp).  The game writes under gameLock, a conversation with  *)
(* the manager runs without it, so that a store may pass between what      *)
(* another one reads and writes.  Words that are no answer leave           *)
(* everything as it is and are left out.                                   *)
(***************************************************************************)
EXTENDS Integers, FiniteSets

CONSTANTS Account, FreeNumber,      \* 111111, under which accounts are asked for
          Clerk,                    \* connections with an Account Manager
          Figure, NoFigure,         \* names of characters
          Calling, Rookie,          \* vocations
          CallingBefore,            \* getPreVocation
          Secret, NoSecret,         \* passwords
          Days,                     \* premium times that are given
          LastDay,                  \* bound on the time
          MaxEnd,                   \* bound on the end of a premium time
          MaxRows,                  \* bound on the rows of an account and on the characters
          MaxTalks                 \* bound on the conversations

ASSUME AccountsAssumption ==
    /\ FreeNumber \notin Account /\ NoFigure \notin Figure /\ NoSecret \notin Secret
    /\ Clerk \cap Figure = {}
    /\ Rookie \in Calling /\ CallingBefore \in [Calling -> Calling]
    /\ \A v \in Calling : CallingBefore[CallingBefore[v]] = CallingBefore[v]
    /\ Days \subseteq Nat \ {0} /\ {LastDay, MaxEnd, MaxRows, MaxTalks} \subseteq Nat

VARIABLES
    accounts,  \* the table of accounts: how many rows, and the first of them
    figures,   \* the table of players
    clerks,    \* what a Player named Account Manager keeps
    world,     \* the players in the game
    saving,    \* savePremium between loadAccount and saveAccount
    day,
    granted,   \* history: the premium end that was given last
    chosen,    \* history: the password that was announced last
    agreed,    \* history: what was agreed about a character
    shared,    \* history: premium was given while another session of the account ran
    torn,      \* history: accounts written between a read and a write of another
    talks,    \* conversations so far
    doubled    \* history: names and numbers that two asked for at once, or that were used half made

tables == <<accounts, figures>>
records == <<granted, chosen, agreed, shared, torn, doubled>>
accountVars == <<tables, clerks, talks, world, saving, day, records>>

NoClerk == [on |-> FALSE, owner |-> FALSE, account |-> FreeNumber, asked |-> {}, name |-> NoFigure,
            calling |-> Rookie, word |-> NoSecret, ticks |-> 0, row |-> 0, doing |-> "hear",
            read |-> NoSecret, told |-> Rookie]
NoPlayer == [in |-> FALSE, ticks |-> 0, calling |-> Rookie, row |-> 0, raised |-> FALSE]
NotSaving == [of |-> NoFigure, until |-> 0, read |-> NoSecret]
Nothing == [account |-> FreeNumber, calling |-> Rookie]

AccountsInit ==
    /\ \E w \in Secret :
        /\ accounts = [a \in Account |-> [rows |-> 0, password |-> w, until |-> 0]]
        /\ chosen = [a \in Account |-> w]
    /\ figures = {} /\ clerks = [m \in Clerk |-> NoClerk] /\ talks = 0 /\ world = [n \in Figure |-> NoPlayer]
    /\ saving = NotSaving /\ day = 0
    /\ granted = [a \in Account |-> 0] /\ agreed = [n \in Figure |-> Nothing]
    /\ shared = {} /\ torn = {} /\ doubled = {}

AccountsTypeOK ==
    /\ \A a \in Account : accounts[a].rows \in 0 .. MaxRows /\ accounts[a].until \in 0 .. MaxEnd
    /\ \A f \in figures : f.name \in Figure /\ f.account \in Account /\ f.calling \in Calling
    /\ \A m \in Clerk : clerks[m].asked \subseteq 1 .. 11 /\ clerks[m].doing \in {"hear", "open", "insert", "store"}
    /\ \A n \in Figure : world[n].ticks \in 0 .. MaxEnd
    /\ day \in 0 .. LastDay /\ talks \in 0 .. MaxTalks

-----------------------------------------------------------------------------
(* The store.                                                              *)

\* IOPlayerSQL::playerExists, getPlayerGuid: one row and no more.
RowsOf(n) == {f \in figures : f.name = n}
Exists(n) == Cardinality(RowsOf(n)) = 1
\* IOAccountSQL::accountExists.
AccountExists(a) == accounts[a].rows = 1

\* IOAccountSQL::saveAccount: the row that is found first.
Saved(a, w, end) == [accounts EXCEPT ![a].password = w, ![a].until = end]
\* IOPlayerSQL::savePlayer.
Kept(id, v) == {IF f.id = id THEN [f EXCEPT !.calling = v] ELSE f : f \in figures}

\* Who reads this account and has not written it yet.
Reading(a) ==
    {m \in Clerk : clerks[m].account = a /\ clerks[m].doing \in {"insert", "store"}}
    \cup {n \in {saving.of} \ {NoFigure} : \E f \in RowsOf(n) : f.id = world[n].row /\ f.account = a}

\* Sessions of an account, that of the manager's character among them.
SessionsOf(a) ==
    {m \in Clerk : clerks[m].on /\ clerks[m].account = a}
    \cup {n \in Figure : world[n].in /\ \E f \in figures : f.id = world[n].row /\ f.account = a}

Ahead(end) == IF end > day THEN end ELSE 0

-----------------------------------------------------------------------------
(* Game::manageAccount.                                                    *)

\* ConnectionHandler and Game::placeCreature.
ClerkComes ==
    /\ talks < MaxTalks /\ talks' = talks + 1
    /\ \E k \in Clerk : ~clerks[k].on
    /\ LET m == CHOOSE k \in Clerk : ~clerks[k].on IN  \* one is as good as another
        \/ clerks' = [clerks EXCEPT ![m] = [NoClerk EXCEPT !.on = TRUE, !.asked = {3}]]
        \/ \E a \in Account :
            /\ accounts[a].rows > 0
            /\ clerks' = [clerks EXCEPT ![m] = [NoClerk EXCEPT !.on = TRUE, !.owner = TRUE, !.account = a,
                                                !.asked = {3}, !.ticks = Ahead(accounts[a].until)]]
    /\ UNCHANGED <<tables, world, saving, day, records>>

ClerkGoes ==
    /\ \E m \in Clerk :
        /\ clerks[m].on /\ clerks[m].doing = "hear"
        /\ clerks' = [clerks EXCEPT ![m] = NoClerk]
    /\ UNCHANGED <<talks, tables, world, saving, day, records>>

\* The question that is open, the highest number first.
Open(d) ==
    LET S == IF d.owner THEN d.asked \cap 3 .. 11 ELSE d.asked \cap {1, 2}
    IN  IF S = {} THEN 0 ELSE CHOOSE q \in S : \A r \in S : r <= q

Asks(m, q) == clerks[m].on /\ clerks[m].doing = "hear" /\ Open(clerks[m]) = q
\* The answers that are no longer asked for are as good as gone.
Free(d) == [NoClerk EXCEPT !.on = TRUE, !.owner = TRUE, !.account = d.account, !.asked = {3}, !.ticks = d.ticks, !.row = d.row]
Turn(d, from, to) == [d EXCEPT !.asked = (@ \ {from}) \cup {to}]
Hears(m, d) == clerks' = [clerks EXCEPT ![m] = d] /\ UNCHANGED <<agreed, doubled>>

\* Another conversation that has passed the same question and not yet written.
Rivals(m, n) == {k \in Clerk \ {m} : clerks[k].doing = "insert" /\ clerks[k].name = n}

\* "Are you sure?": the account is read first.
AgreeOn(m) ==
    LET d == clerks[m] IN
    IF Exists(d.name)
    THEN Hears(m, Free(d))
    ELSE /\ clerks' = [clerks EXCEPT ![m].doing = "insert", ![m].read = accounts[d.account].password]
         /\ agreed' = [agreed EXCEPT ![d.name] = [account |-> d.account, calling |-> d.told]]
         /\ doubled' = doubled \cup (IF Rivals(m, d.name) # {} THEN {d.name} ELSE {})

\* Questions about a new character.
AboutFigure(m) ==
    LET d == clerks[m] IN
    \/ Asks(m, 3) /\ Hears(m, Turn(d, 3, 7))
    \/ /\ Asks(m, 7)
       /\ \E n \in Figure : Hears(m, [Turn(d, 7, 8) EXCEPT !.name = n])
    \/ /\ Asks(m, 8)
       /\ \/ Hears(m, Free(d))
          \/ IF Exists(d.name) THEN Hears(m, [Turn(d, 8, 7) EXCEPT !.name = NoFigure])
                               ELSE Hears(m, Turn(d, 8, 9))
    \/ Asks(m, 9) /\ Hears(m, Turn(d, 9, 10))
    \/ /\ Asks(m, 10)
       /\ \E v \in Calling \ {Rookie} :
            CallingBefore[v] = v /\ Hears(m, [Turn(d, 10, 11) EXCEPT !.calling = v, !.told = v])
    \/ /\ Asks(m, 11)
       /\ (Hears(m, Free(d)) \/ AgreeOn(m))

\* Questions about a new password.
AboutSecret(m) ==
    LET d == clerks[m] IN
    \/ Asks(m, 3) /\ Hears(m, Turn(d, 3, 4))
    \/ Asks(m, 4) /\ (Hears(m, Free(d)) \/ Hears(m, Turn(d, 4, 5)))
    \/ Asks(m, 5) /\ \E w \in Secret : Hears(m, [Turn(d, 5, 6) EXCEPT !.word = w])
    \/ /\ Asks(m, 6)
       /\ \/ Hears(m, Free(d))
          \/ Hears(m, [d EXCEPT !.doing = "store", !.read = d.word])

\* Questions under the free number, about a new account.
AboutAccount(m) ==
    LET d == clerks[m] IN
    /\ ~d.owner
    /\ \/ Asks(m, 0) /\ Hears(m, [d EXCEPT !.asked = @ \cup {1}])
       \/ Asks(m, 1) /\ \E a \in Account : Hears(m, [Turn(d, 1, 2) EXCEPT !.account = a])
       \/ /\ Asks(m, 2)
          /\ \/ Hears(m, [d EXCEPT !.asked = @ \ {2}, !.account = FreeNumber])
             \/ IF AccountExists(d.account)
                THEN Hears(m, [d EXCEPT !.asked = @ \ {2}, !.account = FreeNumber])
                ELSE Hears(m, [d EXCEPT !.doing = "open"])

Says ==
    /\ \E m \in Clerk : AboutFigure(m) \/ AboutSecret(m) \/ AboutAccount(m)
    /\ UNCHANGED <<talks, tables, world, saving, day, granted, chosen, shared, torn>>

\* createAccount and saveAccount with a password that is made up.
OpensAccount ==
    /\ \E m \in Clerk, w \in Secret :
        LET d == clerks[m] IN
        /\ d.doing = "open" /\ accounts[d.account].rows < MaxRows
        /\ accounts' = [Saved(d.account, w, 0) EXCEPT ![d.account].rows = @ + 1]
        /\ doubled' = doubled \cup (IF accounts[d.account].rows > 0 THEN {d.account} ELSE {})
        /\ chosen' = [chosen EXCEPT ![d.account] = w]
        /\ clerks' = [clerks EXCEPT ![m] = Free(d)]
    /\ UNCHANGED <<talks, figures, world, saving, day, granted, agreed, shared, torn>>

\* createPlayer: nothing in the table keeps a second row of a name away.
InsertsFigure ==
    /\ \E m \in Clerk :
        LET d == clerks[m] IN
        /\ d.doing = "insert" /\ Cardinality(figures) < MaxRows
        /\ figures' = figures \cup {[id |-> Cardinality(figures) + 1, name |-> d.name, account |-> d.account,
                                     calling |-> Rookie]}
        /\ clerks' = [clerks EXCEPT ![m].doing = "store"]
    /\ UNCHANGED <<talks, accounts, world, saving, day, records>>

\* The number of the row, which stays that of the last one when the name is there twice,
\* then savePlayer and saveAccount with the premium end this session knows.
StoresFigure(m) ==
    LET d == clerks[m]
        id == IF Exists(d.name) THEN (CHOOSE f \in RowsOf(d.name) : TRUE).id ELSE d.row
    IN  /\ figures' = Kept(id, d.calling)
        /\ clerks' = [clerks EXCEPT ![m] = [Free(d) EXCEPT !.row = id]]
        /\ UNCHANGED chosen

StoresSecret(m) ==
    LET d == clerks[m]
    IN  /\ clerks' = [clerks EXCEPT ![m] = Free(d)]
        /\ chosen' = [chosen EXCEPT ![d.account] = d.word]
        /\ UNCHANGED figures

StoresAccount ==
    /\ \E m \in Clerk :
        LET d == clerks[m] IN
        /\ d.doing = "store"
        /\ \/ 11 \in d.asked /\ StoresFigure(m)
           \/ 6 \in d.asked /\ StoresSecret(m)
        /\ accounts' = Saved(d.account, d.read, d.ticks)
        /\ torn' = torn \cup (IF Reading(d.account) # {m} THEN {d.account} ELSE {})
    /\ UNCHANGED <<talks, world, saving, day, granted, agreed, shared, doubled>>

-----------------------------------------------------------------------------
(* Players and premium time.                                               *)

OfAccount(n) == (CHOOSE f \in figures : f.id = world[n].row).account

\* Mutation: who has premium time is not read again.
CheckOnce(p, end) ==
    IF p.ticks > 0 THEN p
    ELSE IF end > day THEN [p EXCEPT !.ticks = end]
    ELSE [p EXCEPT !.calling = CallingBefore[@], !.raised = FALSE]

\* Game::checkPremium; isPremium asks only whether there was an end.
CheckPremium(p, end) ==
    IF end > day THEN [p EXCEPT !.ticks = end]
    ELSE IF p.ticks > 0 THEN p
    ELSE [p EXCEPT !.calling = CallingBefore[@], !.raised = FALSE]

\* loadPlayer and placeCreature.
Enters ==
    /\ saving = NotSaving
    /\ \E n \in Figure :
        /\ ~world[n].in /\ Exists(n)
        /\ \E f \in RowsOf(n) :
            world' = [world EXCEPT ![n] = CheckPremium([NoPlayer EXCEPT !.in = TRUE, !.calling = f.calling,
                                                                        !.row = f.id],
                                                       accounts[f.account].until)]
        /\ doubled' = doubled \cup (IF \E m \in Clerk : clerks[m].doing = "store" /\ clerks[m].name = n
                                   THEN {n} ELSE {})
    /\ UNCHANGED <<talks, tables, clerks, saving, day, granted, chosen, agreed, shared, torn>>

Leaves ==
    /\ saving = NotSaving
    /\ \E n \in Figure :
        /\ world[n].in
        /\ figures' = Kept(world[n].row, world[n].calling)
        /\ world' = [world EXCEPT ![n] = NoPlayer]
    /\ UNCHANGED <<talks, accounts, clerks, saving, day, records>>

\* StdModule.promotePlayer, with or without premium time.
Promotes ==
    /\ saving = NotSaving
    /\ \E n \in Figure, v \in Calling :
        /\ world[n].in /\ v # world[n].calling /\ CallingBefore[v] = world[n].calling
        /\ world' = [world EXCEPT ![n].calling = v, ![n].raised = TRUE]
    /\ UNCHANGED <<talks, tables, clerks, saving, day, records>>

\* Game::savePremium: d days more, or none when the server is saved.
SavePremium(n, d) ==
    LET p == world[n]
        acct == OfAccount(n)
        begin(end) == saving' = [of |-> n, until |-> end, read |-> accounts[acct].password] /\ UNCHANGED world
    IN  /\ saving = NotSaving /\ p.in
        /\ IF p.ticks > day THEN p.ticks + d <= MaxEnd /\ begin(p.ticks + d)
           ELSE IF d > 0 /\ p.ticks = 0 THEN day + d <= MaxEnd /\ begin(day + d)
           ELSE world' = [world EXCEPT ![n] = CheckPremium(p, accounts[acct].until)] /\ UNCHANGED saving
        /\ granted' = IF d > 0 /\ saving'.of = n THEN [granted EXCEPT ![acct] = saving'.until] ELSE granted
        /\ shared' = shared \cup (IF d > 0 /\ SessionsOf(acct) # {n} THEN {acct} ELSE {})

\* Commands::addPremium.
AddPremium ==
    /\ \E n \in Figure, d \in Days : SavePremium(n, d)
    /\ UNCHANGED <<talks, tables, clerks, day, chosen, agreed, torn, doubled>>

\* Game::saveServer, for one of the players.
SavesPlayer ==
    /\ \E n \in Figure :
        SavePremium(n, 0) /\ figures' = Kept(world[n].row, world[n].calling)
    /\ UNCHANGED <<talks, accounts, clerks, day, chosen, agreed, torn, doubled>>

StoresPremium ==
    /\ saving # NotSaving
    /\ LET n == saving.of acct == OfAccount(n) IN
        /\ accounts' = Saved(acct, saving.read, saving.until)
        /\ world' = [world EXCEPT ![n] = CheckPremium(@, saving.until)]
        /\ shared' = shared \cup (IF granted[acct] = saving.until /\ SessionsOf(acct) # {n} THEN {acct} ELSE {})
        /\ torn' = torn \cup (IF Reading(acct) # {n} THEN {acct} ELSE {})
    /\ saving' = NotSaving
    /\ UNCHANGED <<talks, figures, clerks, day, granted, chosen, agreed, doubled>>

\* A day, which a write to the store never takes.
Passes ==
    /\ saving = NotSaving
    /\ day < LastDay /\ day' = day + 1
    /\ UNCHANGED <<talks, tables, clerks, world, saving, records>>

AccountsNext ==
    \/ ClerkComes \/ ClerkGoes \/ Says \/ OpensAccount \/ InsertsFigure \/ StoresAccount
    \/ Enters \/ Leaves \/ Promotes \/ AddPremium \/ SavesPlayer \/ StoresPremium \/ Passes

AccountsSpec == AccountsInit /\ [][AccountsNext]_accountVars

-----------------------------------------------------------------------------

\* The manager waits for the answer to one question, and about a name just when it has one
\* to speak of (game.cpp:3608).
OneQuestion ==
    \A m \in Clerk :
        LET d == clerks[m] IN
        /\ d.owner => Cardinality(d.asked) = 1 /\ d.account \in Account
        /\ d.asked \cap 8 .. 11 # {} => d.name # NoFigure
        /\ d.asked \cap {2} # {} => d.account \in Account

\* A character is what was agreed about it, in the account it was made for, and it is there
\* once, unless two conversations asked for the name at once or it entered the game half
\* made (game.cpp:3611).
MadeAsSaid ==
    \A f \in figures :
        /\ f.name \notin doubled => \A g \in figures : g.name = f.name => g = f
        /\ (/\ doubled = {}
            /\ \A m \in Clerk : clerks[m].doing = "store" => clerks[m].name # f.name)
            => /\ f.account = agreed[f.name].account
               /\ CallingBefore[f.calling] = agreed[f.name].calling

\* The password is the one that was announced last, unless others wrote the account between
\* what one of them read and wrote (game.cpp:3777).
SecretKept == \A a \in Account : a \notin torn \cup doubled => accounts[a].password = chosen[a]

\* Premium time that was given stays given until its end, unless another session of the
\* account, which remembers an older end, was there (game.cpp:3537).
Settled(a) == a \notin shared \cup torn \cup doubled /\ (saving # NotSaving => OfAccount(saving.of) # a)
PremiumKept == \A a \in Account : Settled(a) => Ahead(accounts[a].until) = Ahead(granted[a])

\* Nobody has premium time that his account never had, and who has none has the vocation before
\* the promotion, unless he was promoted since (game.cpp:3559).
PremiumTrue ==
    \A n \in Figure :
        /\ world[n].in /\ world[n].ticks = 0 /\ ~world[n].raised
            => world[n].calling = CallingBefore[world[n].calling]
        /\ world[n].in /\ Settled(OfAccount(n))
            => world[n].ticks \in {0, granted[OfAccount(n)]}

AccountsKeep == OneQuestion /\ MadeAsSaid /\ SecretKept /\ PremiumKept /\ PremiumTrue
=============================================================================
