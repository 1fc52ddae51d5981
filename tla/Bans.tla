-------------------------------- MODULE Bans --------------------------------
(***************************************************************************)
(* Bans of addresses, characters and accounts (ban.cpp): how they are      *)
(* given by commands, by a player's report window, by the administration   *)
(* and for murders; shown and removed by number; asked for by connections  *)
(* that come in (otserv.cpp); counted attempts of an address; and kept over *)
(* a restart of the server.                                                *)
(***************************************************************************)
EXTENDS Integers, SequencesExt

CONSTANTS Character,
          AccountOf,     \* the account of a character
          Staff,         \* characters with ACCESS_PROTECT
          Address,       \* addresses of clients
          Connection,    \* connections that come in
          Forever,       \* 0xFFFFFFFF, the end of a ban without end
          MaxTries, LoginTimeout, RetryTimeout,  \* of init
          Length,        \* how long a ban lasts
          MaxTime,       \* bound on the clock
          MaxBans,       \* bound on the bans of a kind
          Nil           \* no character, address, list or moment

Accounts == {AccountOf[c] : c \in Character}
BanKinds == {"address", "character", "account"}
NeverEnds == 0

ASSUME BansAssumption ==
    /\ Nil \notin Character \cup Address
    /\ Staff \subseteq Character /\ Forever \in Nat /\ Forever > MaxTime + Length
    /\ {MaxTries, LoginTimeout, Length, MaxTime, MaxBans} \subseteq Nat \ {0} /\ RetryTimeout \in Nat

VARIABLES
    now,
    bans,      \* ipBanList, playerBanList and accountBanList
    tries,     \* ipLoginMap of each address
    visits,    \* what each connection does
    online,    \* the address of the characters in the game, Nil of those that are not
    cut,       \* characters in the game that have lost their connection
    expelling, \* the character a report window has banned and is about to kick
    kept,      \* the rows of the bans in the database
    shown,     \* history: the bans a gamemaster saw last
    expelled,  \* history: characters that were kicked when they were banned, or were not there
    safe,      \* history: bans with an end that were saved and not touched since
    failures   \* history: attempts that failed in a row, Nil once attempts overlapped

banVars == <<now, bans, tries, visits, online, cut, expelling, kept, shown, expelled, safe, failures>>
sessionVars == <<tries, visits, failures>>

NoBans == [k \in BanKinds |-> <<>>]
Idle == [stage |-> "idle", name |-> Nil, from |-> Nil, right |-> FALSE]

BansInit ==
    /\ now = 0 /\ bans = NoBans /\ kept = [k \in BanKinds |-> {}] /\ shown = Nil /\ safe = {}
    /\ tries = [a \in Address |-> [number |-> 0, last |-> Nil]]
    /\ failures = [a \in Address |-> 0]
    /\ visits = [c \in Connection |-> Idle]
    /\ \E A \in [Character -> Address] : online = [c \in Character |-> IF c \in Staff THEN A[c] ELSE Nil]
    /\ cut = {} /\ expelling = Nil /\ expelled = {}

Banned == [who : Address \cup Character \cup Accounts, until : Nat]

Visit == {Idle} \cup
    [stage : {"asked", "tried"}, name : Character \ Staff, from : Address, right : BOOLEAN]

\* A ban that was saved, and its end.
Lasting == [kind : BanKinds, who : Address \cup Character \cup Accounts, until : 0 .. MaxTime + Length]

BansTypeOK ==
    /\ now \in 0 .. MaxTime
    /\ bans \in [BanKinds -> Seq(Banned)] /\ kept \in [BanKinds -> SUBSET Banned] /\ safe \subseteq Lasting
    /\ shown = Nil \/ shown \in [BanKinds -> Seq(Banned)]
    /\ tries \in [Address -> [number : 0 .. MaxTries, last : {Nil} \cup 0 .. MaxTime]]
    /\ failures \in [Address -> Nat \cup {Nil}]
    /\ visits \in [Connection -> Visit]
    /\ online \in [Character -> Address \cup {Nil}] /\ cut \subseteq Character
    /\ expelling \in (Character \ Staff) \cup {Nil} /\ expelled \subseteq Character \ Staff

-----------------------------------------------------------------------------
(* The lists.                                                              *)

InForce(b) == b.until = NeverEnds \/ now < b.until

\* Ban::isIpBanished, isPlayerBanished and isAccountBanished.
Banished(k, who) == \E b \in Range(bans[k]) : b.who = who /\ InForce(b)

\* Ban::addIpBan, addPlayerBan and addAccountBan: there is one entry for each.
With(L, who, until) ==
    IF \E b \in Range(L) : b.who = who
    THEN [i \in DOMAIN L |-> IF L[i].who = who THEN [L[i] EXCEPT !.until = until] ELSE L[i]]
    ELSE Append(L, [who |-> who, until |-> until])

AddBan(k, who, until) ==
    /\ (Len(bans[k]) < MaxBans \/ \E b \in Range(bans[k]) : b.who = who)
    /\ bans' = [bans EXCEPT ![k] = With(@, who, until)]
    /\ safe' = {s \in safe : s.kind # k \/ s.who # who}

\* Player::kickPlayer takes the character out of the game.
Gone(c) == online' = [online EXCEPT ![c] = Nil] /\ cut' = cut \ {c}

-----------------------------------------------------------------------------
(* Giving bans.                                                            *)

Whom(k, c) == CASE k = "address" -> online[c] [] k = "character" -> c [] OTHER -> AccountOf[c]

\* Who is known to be out of the game when c is banned and those of kicked are taken away.
Expelled(k, c, kicked) ==
    LET hit == {d \in Character : Whom(k, d) = Whom(k, c)}
        stays == {d \in hit \ kicked : online[d] # Nil}
    IN  IF k = "address" THEN expelled ELSE (expelled \ stays) \cup (hit \ stays)

\* Commands::banPlayer, Commands::IPBanPlayer, the bans of AdminProtocol and of
\* Player::addUnjustifiedDead, all with gameLock: the character is banned and kicked.
BanAndKick ==
    /\ \E c \in Character \ Staff, k \in BanKinds :
        /\ online[c] # Nil
        /\ \E until \in IF k = "address" THEN {NeverEnds} ELSE {now + Length, Forever} : AddBan(k, Whom(k, c), until)
        /\ Gone(c)
        /\ expelled' = Expelled(k, c, {c})
    /\ UNCHANGED <<now, sessionVars, expelling, kept, shown>>

\* Protocol79::parseBanPlayer without gameLock: the ban first, the kick when the thread goes on.
ParseBanPlayer ==
    /\ expelling = Nil
    /\ \E c \in Character \ Staff, k \in BanKinds :
        /\ online[c] # Nil
        /\ k = "address" => c \in cut \/ \E g \in Staff : online[g] # Nil /\ online[g] # online[c]
        /\ AddBan(k, Whom(k, c), now + Length) /\ expelling' = c
        /\ expelled' = Expelled(k, c, {})
    /\ UNCHANGED <<now, sessionVars, online, cut, kept, shown>>

BanPlayerKicks ==
    /\ expelling # Nil /\ expelling' = Nil /\ Gone(expelling)
    /\ expelled' = IF Banished("character", expelling) \/ Banished("account", AccountOf[expelling])
                   THEN expelled \cup {expelling} ELSE expelled
    /\ UNCHANGED <<now, bans, sessionVars, kept, shown, safe>>

\* Commands::bansManager, add: nobody is kicked, and a time that cannot be read is for ever.
BansManagerAdd ==
    /\ \E c \in Character \ Staff, k \in {"character", "account"}, until \in {NeverEnds, now + Length, Forever} :
        /\ AddBan(k, Whom(k, c), until)
        /\ expelled' = Expelled(k, c, {})
    /\ UNCHANGED <<now, sessionVars, online, cut, expelling, kept, shown>>

\* bansManager, the lists with numbers.
BansManagerShow ==
    /\ shown' = bans
    /\ UNCHANGED <<now, bans, sessionVars, online, cut, expelling, kept, expelled, safe>>

\* bansManager, rem, and Ban::removeIpBan, removePlayerBan and removeAccountBan, for a number
\* that was shown.  What another gamemaster saw is out of date then.
BansManagerRemove ==
    /\ shown # Nil
    /\ \E k \in BanKinds : \E n \in DOMAIN bans[k] \cap DOMAIN shown[k] :
        /\ bans' = [bans EXCEPT ![k] = RemoveAt(@, n)]
        /\ safe' = {s \in safe : s.kind # k \/ s.who # bans[k][n].who}
    /\ shown' = Nil
    /\ UNCHANGED <<now, sessionVars, online, cut, expelling, kept, expelled>>

-----------------------------------------------------------------------------
(* Connections.                                                            *)

\* Ban::isIpDisabled.
IpDisabled(a) ==
    tries[a].number >= MaxTries /\ tries[a].last # Nil /\ now < tries[a].last + LoginTimeout

\* ConnectionHandler up to the question about the address.
Ask ==
    /\ \E v \in Connection, a \in Address, right \in BOOLEAN, c \in Character \ Staff :
        /\ visits[v] = Idle /\ ~IpDisabled(a) /\ ~Banished("address", a)
        /\ visits' = [visits EXCEPT ![v] = [stage |-> "asked", name |-> c, from |-> a, right |-> right]]
        /\ failures' = IF \E w \in Connection : visits[w].stage = "asked" /\ visits[w].from = a
                       THEN [failures EXCEPT ![a] = Nil] ELSE failures
    /\ UNCHANGED <<now, bans, tries, online, cut, expelling, kept, shown, expelled, safe>>

\* Mutation: a number that reached its limit is forgotten with every attempt.
TriedStartsOver(a, right) ==
    LET before == IF tries[a].number >= MaxTries - 1 THEN 0 ELSE tries[a].number
        quick == tries[a].last # Nil /\ now < tries[a].last + RetryTimeout
    IN  [number |-> IF ~right \/ quick THEN before + 1 ELSE 0, last |-> now]

\* Ban::addConnectionAttempt.
Tried(a, right) ==
    LET before == IF tries[a].number >= MaxTries THEN 0 ELSE tries[a].number
        quick == tries[a].last # Nil /\ now < tries[a].last + RetryTimeout
    IN  [number |-> IF ~right \/ quick THEN before + 1 ELSE 0, last |-> now]

\* The attempt is counted after a second of sleep in the game world, at once for the list of
\* characters.
Attempt ==
    /\ \E v \in Connection :
        LET from == visits[v].from
        IN  /\ visits[v].stage = "asked"
            /\ tries' = [tries EXCEPT ![from] = Tried(from, visits[v].right)]
            /\ visits' \in {[visits EXCEPT ![v] = Idle]} \cup
                           (IF visits[v].right THEN {[visits EXCEPT ![v].stage = "tried"]} ELSE {})
            /\ failures' = [failures EXCEPT ![from] = IF @ = Nil THEN @ ELSE IF visits[v].right THEN 0
                                                    ELSE IF tries[from].number >= MaxTries THEN 1 ELSE @ + 1]
    /\ UNCHANGED <<now, bans, online, cut, expelling, kept, shown, expelled, safe>>

\* The questions about the character and the account, with gameLock.
MayEnter(c) == ~Banished("character", c) /\ ~Banished("account", AccountOf[c])

\* The rest of ConnectionHandler with gameLock.  A character in the game that has lost its
\* connection is taken over before its bans are asked for.
Login ==
    /\ \E v \in Connection :
        LET c == visits[v].name
        IN  /\ visits[v].stage = "tried" /\ visits' = [visits EXCEPT ![v] = Idle]
            /\ IF c \in cut
               THEN cut' = cut \ {c} /\ online' = [online EXCEPT ![c] = visits[v].from]
               ELSE /\ online' = IF online[c] = Nil /\ MayEnter(c)
                                 THEN [online EXCEPT ![c] = visits[v].from] ELSE online
                    /\ UNCHANGED cut
    /\ UNCHANGED <<now, bans, tries, failures, expelling, kept, shown, expelled, safe>>

LoseConnection ==
    /\ \E c \in Character \ (Staff \cup cut) : online[c] # Nil /\ cut' = cut \cup {c}
    /\ UNCHANGED <<now, bans, sessionVars, online, expelling, kept, shown, expelled, safe>>

Leave ==
    /\ \E c \in Character \ Staff : online[c] # Nil /\ c # expelling /\ Gone(c)
    /\ UNCHANGED <<now, bans, sessionVars, expelling, kept, shown, expelled, safe>>

-----------------------------------------------------------------------------
(* Saving and starting again.                                              *)

\* IOBanSQL::saveBans in one transaction: what has an end, or the end that stands for none.
SaveBans ==
    /\ \/ /\ kept' = [k \in BanKinds |-> {b \in Range(bans[k]) : b.until > now}]
          /\ safe' = {s \in Lasting :
                        [who |-> s.who, until |-> s.until] \in Range(bans[s.kind]) /\ s.until > now}
       \/ UNCHANGED <<kept, safe>>
    /\ UNCHANGED <<now, bans, sessionVars, online, cut, expelling, shown, expelled>>

\* IOBanSQL::loadBans: the end is read as a signed number, which the one that stands for none
\* does not fit.  The rows come in no order that is asked for.
LoadBans(saved) == SetToSeq({b \in saved : b.until > now /\ b.until # Forever})

\* The server ends, in order or not, and is started again; staff comes back.
Restart ==
    /\ bans' = [k \in BanKinds |-> LoadBans(kept[k])]
    /\ tries' = [a \in Address |-> [number |-> 0, last |-> Nil]] /\ failures' = [a \in Address |-> 0]
    /\ visits' = [c \in Connection |-> Idle]
    /\ online' = [c \in Character |-> IF c \in Staff THEN online[c] ELSE Nil]
    /\ cut' = {} /\ expelling' = Nil /\ shown' = Nil
    /\ safe' = {s \in safe : \E b \in kept[s.kind] : b.who = s.who /\ b.until = s.until}
    /\ UNCHANGED <<now, kept, expelled>>

Tick ==
    /\ now < MaxTime /\ now' = now + 1
    /\ UNCHANGED <<bans, sessionVars, online, cut, expelling, kept, shown, expelled, safe>>

BanNext ==
    \/ BanAndKick \/ ParseBanPlayer \/ BanPlayerKicks \/ BansManagerAdd \/ BansManagerShow \/ BansManagerRemove
    \/ Ask \/ Attempt \/ Login \/ LoseConnection \/ Leave \/ SaveBans \/ Restart \/ Tick

BanSpec == BansInit /\ [][BanNext]_banVars

-----------------------------------------------------------------------------

\* Who was banned and sent away does not come back while the ban is in force, through any
\* connection that was already on its way (otserv.cpp:402).
BannedStaysOut ==
    \A c \in expelled : ~MayEnter(c) => online[c] = Nil

\* Bans that are added do not move the ones a gamemaster saw: the number he removes is the one
\* he meant, as long as nobody else removed one (commands.cpp:1203).
NumbersHold ==
    shown # Nil => \A k \in BanKinds : \A n \in DOMAIN shown[k] :
        n \in DOMAIN bans[k] /\ bans[k][n].who = shown[k][n].who

\* An address whose attempts come one after the other fails at most as often as it may before
\* it has to wait (ban.cpp:52).
TriesCounted ==
    \A a \in Address : failures[a] # Nil => failures[a] <= MaxTries

\* A ban with an end that was saved and left alone is in force until then, whatever restarts
\* there are (ban.cpp:361).
BansOutlive ==
    \A s \in safe : s.until > now => \E b \in Range(bans[s.kind]) : b.who = s.who /\ b.until = s.until

BansHold == BannedStaysOut /\ NumbersHold /\ TriesCounted /\ BansOutlive
=============================================================================
