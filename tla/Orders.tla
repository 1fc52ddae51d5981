--------------------------------- MODULE Orders ---------------------------------
(***************************************************************************)
(* Commands of players (commands.cpp): which word runs for whom, the file  *)
(* that says so and its reload, and the commands that close, open, save    *)
(* and end the server, kick its players and limit their number, with the   *)
(* logins (otserv.cpp) and the timers (game.cpp) they act upon.  All of it *)
(* happens under gameLock but the reload by a remote control, so a reload  *)
(* goes command by command.  Commands that only tell something are one,    *)
(* and commands that change a character are one.                           *)
(***************************************************************************)
EXTENDS Integers, FiniteSets, Sequences

CONSTANTS Person, Rank,         \* characters and their access
          Enter, Protect,       \* ACCESS_ENTER, ACCESS_PROTECT
          Command, Sign, Asked, \* the words, their first letters, the access commands.xml asks
          Unlisted,             \* commands a short commands.xml leaves out
          Place,                \* the order of commandMap (commands of one place are one step)
          Admin, ByCommand,     \* who reloads: remote controls, without gameLock, and a command
          MaxMinutes, MaxCounts,\* bounds on the announced shutdowns
          Limits                \* values of the limit of players

ASSUME OrdersAssumption ==
    /\ Rank \in [Person -> Nat] /\ Asked \in [Command -> Nat]
    /\ {Enter, Protect, MaxMinutes, MaxCounts} \subseteq Nat /\ Enter <= Protect
    /\ Unlisted \subseteq Command /\ Limits \subseteq Nat
    /\ Place \in [Command -> Nat] /\ ByCommand \notin Admin

VARIABLES
    file,      \* what commands.xml is
    level,     \* Command::accesslevel
    listed,    \* commands that are loaded
    tags,      \* Game::commandTags
    reloads,   \* how far each reload is, and the commands its loop has still before it
    state,     \* Game::gameState, and whether the process has ended
    limit,     \* Status::playersmax
    inside,    \* the players in the game
    changed,   \* players whose state is not the stored one
    counts,    \* the minutes of the shutdowns that are announced
    trusted,   \* history: the file of the last load was sound
    mingled,   \* history: two reloads met, and none has gone alone since
    breaches,  \* history: commands that ran for less access than a sound file asks
    expelled,  \* history: who kicked whom by command
    forgotten  \* history: players whose changes were not stored at the end

listVars == <<file, level, listed, tags, reloads, trusted, mingled>>
serverVars == <<state, limit, inside, changed, counts, forgotten>>
orderVars == <<listVars, serverVars, breaches, expelled>>

Files == {"sound", "short", "unparsable", "foreign"}
ListedIn(f) == CASE f = "sound" -> Command [] f = "short" -> Command \ Unlisted [] OTHER -> {}

Reloader == Admin \cup {ByCommand}
Stages == {"none", "blanking", "parsing", "loading", "tagging"}

OrdersInit ==
    /\ file = "sound" /\ level = Asked /\ listed = Command /\ tags = {Sign[c] : c \in Command}
    /\ trusted = TRUE /\ mingled = FALSE
    /\ reloads = [r \in Reloader |-> [at |-> "none", todo |-> {}]]
    /\ state = "normal" /\ limit \in Limits /\ inside = {} /\ changed = {} /\ counts = <<>>
    /\ breaches = {} /\ expelled = {} /\ forgotten = {}

OrdersTypeOK ==
    /\ file \in Files /\ level \in [Command -> Nat] /\ listed \subseteq Command
    /\ reloads \in [Reloader -> [at : Stages, todo : SUBSET Command]] /\ mingled \in BOOLEAN
    /\ state \in {"normal", "closed", "shutdown", "ended"} /\ limit \in Limits
    /\ changed \subseteq inside /\ inside \subseteq Person
    /\ counts \in Seq(0 .. MaxMinutes) /\ trusted \in BOOLEAN

Running == state # "ended"

-----------------------------------------------------------------------------
(* The list of commands.                                                   *)

Reloading(r) == reloads[r].at # "none"
Quiet == \A r \in Reloader : ~ Reloading(r)

\* A reload by command holds gameLock until it is over.
Free == ~ Reloading(ByCommand)

First(S) == {c \in S : \A d \in S : Place[c] <= Place[d]}
Turns(r, stage, S) == reloads' = [reloads EXCEPT ![r] = [at |-> stage, todo |-> S]]

BeginReload(r) ==
    /\ ~ Reloading(r) /\ Turns(r, "blanking", Command)
    /\ mingled' = (\E q \in Reloader \ {r} : Reloading(q))
    /\ UNCHANGED <<file, level, listed, tags, trusted>>

\* Mutation: what was loaded counts as loaded.
ReloadAgain(r, S) == level' = [c \in Command |-> IF c \in S THEN 1 ELSE level[c]] /\ UNCHANGED listed

\* Commands::reload: the access and the load mark of every command, and the letters at last;
\* another reload that loads the command meanwhile may write its mark later.
Reset(r, S) ==
    /\ level' = [c \in Command |-> IF c \in S THEN 1 ELSE level[c]]
    /\ \/ listed' = listed \ S
       \/ mingled /\ (\E q \in Reloader \ {r} : reloads[q].at = "loading") /\ UNCHANGED listed

Blanks(r) ==
    LET todo == reloads[r].todo IN
    /\ reloads[r].at = "blanking"
    /\ IF todo # {}
       THEN Reset(r, First(todo)) /\ Turns(r, "blanking", todo \ First(todo)) /\ UNCHANGED tags
       ELSE tags' = {} /\ Turns(r, "parsing", {}) /\ UNCHANGED <<level, listed>>
    /\ UNCHANGED <<file, trusted, mingled>>

\* Commands::loadXml reads the file at once; a foreign root ends the load.
Parses(r) ==
    /\ reloads[r].at = "parsing" /\ trusted' = (file = "sound")
    /\ IF file = "foreign" THEN Turns(r, "none", {}) ELSE Turns(r, "loading", ListedIn(file))
    /\ UNCHANGED <<file, level, listed, tags, mingled>>

\* It takes the commands in the order of the file; one that is loaded is a duplicate.
Loads(r) ==
    LET todo == reloads[r].todo IN
    /\ reloads[r].at = "loading"
    /\ \/ \E n \in {Place[c] : c \in todo} :
            LET S == {c \in todo : Place[c] = n} IN
            /\ level' = [c \in Command |-> IF c \in S \ listed THEN Asked[c] ELSE level[c]]
            /\ listed' = listed \cup S /\ Turns(r, "loading", todo \ S)
       \/ todo = {} /\ Turns(r, "tagging", Command) /\ UNCHANGED <<level, listed>>
    /\ UNCHANGED <<file, tags, trusted, mingled>>

\* Game::addCommandTag for every command, of the file or not.
Tags(r) ==
    LET todo == reloads[r].todo IN
    /\ reloads[r].at = "tagging"
    /\ tags' = tags \cup {Sign[c] : c \in First(todo)}
    /\ IF todo # {} THEN Turns(r, "tagging", todo \ First(todo)) ELSE Turns(r, "none", {})
    /\ UNCHANGED <<file, level, listed, trusted, mingled>>

ReloadsOn(r) ==
    /\ Running
    /\ Blanks(r) \/ Parses(r) \/ Loads(r) \/ Tags(r)
    /\ UNCHANGED <<serverVars, breaches, expelled>>

EditFile ==
    /\ Running /\ \E f \in Files : file' = f
    /\ UNCHANGED <<level, listed, tags, reloads, trusted, mingled, serverVars, breaches, expelled>>

-----------------------------------------------------------------------------
(* The game.                                                               *)

\* Player::kickPlayer: the character is saved as it leaves.
Without(S) == inside' = inside \ S /\ changed' = changed \ S

\* Game::saveServer.
SaveServer == changed' = {}

\* ConnectionHandler, from gameLock to gameLock.
Login ==
    /\ Running /\ Free
    /\ \E p \in Person \ inside :
        /\ state # "shutdown" /\ (state = "closed" => Rank[p] >= Enter)
        /\ Rank[p] < Enter => Cardinality(inside) < limit
        /\ inside' = inside \cup {p}
    /\ UNCHANGED <<listVars, state, limit, changed, counts, forgotten, breaches, expelled>>

LeavesGame ==
    /\ Running /\ Free
    /\ \E p \in inside : Without({p})
    /\ UNCHANGED <<listVars, state, limit, counts, forgotten, breaches, expelled>>

Plays ==
    /\ Running /\ Free
    /\ \E p \in inside : changed' = changed \cup {p}
    /\ UNCHANGED <<listVars, state, limit, inside, counts, forgotten, breaches, expelled>>

\* Game::autoServerSave.
AutoServerSave ==
    /\ Running /\ Free /\ SaveServer
    /\ UNCHANGED <<listVars, state, limit, inside, counts, forgotten, breaches, expelled>>

\* Game::shutdownServer: everybody is kicked, then the server is saved.
ShutdownServer ==
    /\ state' = "ended" /\ Without(inside) /\ forgotten' = {}

\* Game::checkShutdown, a minute after it was put off the last time.
CheckShutdown ==
    /\ Running /\ Free /\ \E i \in DOMAIN counts :
        IF counts[i] = 0
        THEN ShutdownServer /\ counts' = <<>>
        ELSE counts' = [counts EXCEPT ![i] = @ - 1] /\ UNCHANGED <<state, inside, changed, forgotten>>
    /\ UNCHANGED <<listVars, limit, breaches, expelled>>

\* A signal, seen by the main loop while the server is not shut down by the administrator.
Signal ==
    /\ state \in {"normal", "closed"} /\ Free /\ ShutdownServer
    /\ UNCHANGED <<listVars, limit, counts, breaches, expelled>>

\* The main loop ends once it sees the state, and the process with it.
MainEnds ==
    /\ state = "shutdown" /\ state' = "ended" /\ forgotten' = changed
    /\ UNCHANGED <<listVars, limit, inside, changed, counts, breaches, expelled>>

-----------------------------------------------------------------------------
(* What the commands do.                                                   *)

\* Commands::closeServer; the administrator's puts only those out who may not enter.
CloseServer(least) == state' = "closed" /\ inside' = {p \in inside : Rank[p] >= least} /\ SaveServer

\* Commands::kickPlayer, IPBanPlayer and banPlayer.
KickBy(p, q) ==
    /\ q \in inside
    /\ IF Rank[p] <= Rank[q] THEN UNCHANGED <<inside, changed, expelled>>
       ELSE Without({q}) /\ expelled' = expelled \cup {<<p, q>>}

\* Commands::shutdown: the first announcement is made at once.
SheduleShutdown ==
    \E n \in 1 .. MaxMinutes : Len(counts) < MaxCounts /\ counts' = Append(counts, n - 1)

\* Commands::setMaxPlayers: any number but nought.
SetMaxPlayers == \E n \in Limits \ {0} : limit' = n

\* Commands::addSkillLevel, addBlessing and addAddon change somebody who plays.
Gives == \E q \in inside : changed' = changed \cup {q}

\* Commands that only tell the one who gives them something.
Informs == UNCHANGED <<listVars, serverVars, expelled>>

\* The handler of command c for player p.
Does(p, c) ==
    \/ c = "reload" /\ BeginReload(ByCommand) /\ UNCHANGED <<serverVars, expelled>>
    \/ c = "close" /\ CloseServer(Protect) /\ UNCHANGED <<listVars, limit, counts, forgotten, expelled>>
    \/ c = "open" /\ state' = "normal" /\ UNCHANGED <<listVars, limit, inside, changed, counts, forgotten, expelled>>
    \/ c = "kick" /\ (\E q \in Person : KickBy(p, q)) /\ UNCHANGED <<listVars, state, limit, counts, forgotten>>
    \/ c = "save" /\ SaveServer /\ UNCHANGED <<listVars, state, limit, inside, counts, forgotten, expelled>>
    \/ /\ c = "shutdown" /\ SheduleShutdown
       /\ UNCHANGED <<listVars, state, limit, inside, changed, forgotten, expelled>>
    \/ c = "max" /\ SetMaxPlayers /\ UNCHANGED <<listVars, state, inside, changed, counts, forgotten, expelled>>
    \/ c = "skill" /\ Gives /\ UNCHANGED <<listVars, state, limit, inside, counts, forgotten, expelled>>
    \/ c = "online" /\ Informs

\* Game::internalCreatureSay: a word without its letter among the tags is only said.  While a
\* remote control reloads, the tags are read as they change.
Heard(c) == Sign[c] \in tags \/ ~ Quiet

\* Commands::exeCommand.
Say(p, c) ==
    /\ Running /\ Free /\ p \in inside /\ Heard(c) /\ Rank[p] >= level[c]
    /\ Does(p, c)
    /\ breaches' = breaches \cup
         (IF Rank[p] < Asked[c] /\ (Rank[p] = 0 \/ (trusted /\ Quiet /\ ~ mingled)) THEN {<<p, c>>} ELSE {})

OrdersNext ==
    \/ EditFile \/ Login \/ LeavesGame \/ Plays \/ AutoServerSave \/ CheckShutdown \/ Signal \/ MainEnds
    \/ ReloadsOn(ByCommand)
    \/ \E p \in Person, c \in Command : Say(p, c)

\* The scheduler runs the events of announced shutdowns once it gets gameLock, and a reload
\* by command gives it back.
OrdersFair == SF_orderVars(CheckShutdown) /\ WF_orderVars(ReloadsOn(ByCommand))

-----------------------------------------------------------------------------

\* No command runs for less access than commands.xml asks, as long as the last file that was
\* loaded could be read, no reload is under way and none met another; and nobody without any
\* access ever runs a command that asks for some (commands.cpp:236, 271, admin.cpp:502).
OnlyAllowed == breaches = {}

\* Nobody is kicked by command by one who is not above him (commands.cpp:886).
KickedFromAbove == \A e \in expelled : Rank[e[1]] > Rank[e[2]]

\* While the server is closed nobody is in it who may not enter (commands.cpp:783, otserv.cpp:452).
ClosedToMost == state = "closed" => \A p \in inside : Rank[p] >= Enter

\* Once a reload that met no other is over, every command of a sound file has its letter and
\* the access it asks (commands.cpp:180, 236).
TagsKnown == trusted /\ Quiet /\ ~ mingled => tags = {Sign[c] : c \in Command} /\ level = Asked

OrdersHold == OnlyAllowed /\ KickedFromAbove /\ ClosedToMost /\ TagsKnown

\* A shutdown that was announced comes (game.cpp:3591).
ShutdownComes == (counts # <<>>) ~> (state = "ended")
=============================================================================
