------------------------------ MODULE Session -------------------------------
(***************************************************************************)
(* The life of a game connection: the thread ConnectionHandler (otserv.cpp)*)
(* that logs a character in or hands its socket to a running session, the  *)
(* loop Protocol79::ReceiveLoop that serves it, logout, kick and death, and*)
(* the reference counts that decide when a Player object is deleted.       *)
(* A thread, the socket it accepted, and the Player and Protocol79 objects *)
(* it may create carry the same name, a member of Conn.  What is done under*)
(* gameLock is one step; what ReceiveLoop does without it is in pieces.    *)
(***************************************************************************)
EXTENDS Integers, FiniteSets

CONSTANTS Conn,         \* connections: thread, socket, Player, Protocol79
          Name,         \* character names
          MaxPlayers,   \* Status::playersmax
          AllowClones,  \* ConfigManager::ALLOW_CLONES
          None          \* no socket (s == 0), nobody

ASSUME SessionAssumption ==
    /\ None \notin Conn
    /\ MaxPlayers \in Nat
    /\ AllowClones \in BOOLEAN

VARIABLES
    pc,             \* where each thread is
    name,           \* the character each client asked for
    closes,         \* history: how often closesocket was called on a socket
    sock,           \* Protocol79::s
    key,            \* Protocol79::m_key: the key of that connection
    msgKey,         \* the key of ReceiveLoop's NetworkMessage
    pendingLogout,  \* Protocol79::pendingLogout
    listPlayer,     \* Player::listPlayer, the players in the game
    removed,        \* Creature::isRemoved
    infight,        \* players in the game with CONDITION_INFIGHT
    useCount,       \* Thing::useCount
    toRelease,      \* how often an object is in Game::ToReleaseThings
    playersonline,  \* Status::playersonline
    counted,        \* the value a thread has read of playersonline
    kicking,        \* the player somebody else is logging out, or None
    kickStage,      \* how far that logout() is
    calm            \* history: out of the fight at some moment since the
                    \* socket was lost

socketVars == <<closes, sock, key, pendingLogout>>
gameVars == <<listPlayer, removed, useCount, toRelease>>
statVars == <<playersonline, counted>>
kickVars == <<kicking, kickStage>>
vars == <<pc, name, msgKey, infight, calm, socketVars, gameVars, statVars, kickVars>>

Pc == {"auth", "addPlayer", "read", "logout", "close", "zero", "pending",
       "fightWait", "lock", "after", "statRead", "statWrite", "free",
       "rejected", "done"}
\* ConnectionHandler is inside protocol->ReceiveLoop().
LoopPc == {"read", "logout", "close", "zero", "pending", "fightWait", "lock", "after"}

TypeOK ==
    /\ pc \in [Conn -> Pc]
    /\ name \in [Conn -> Name]
    /\ closes \in [Conn -> 0 .. 2]
    /\ sock \in [Conn -> Conn \cup {None}]
    /\ key \in [Conn -> Conn]
    /\ msgKey \in [Conn -> Conn]
    /\ pendingLogout \subseteq Conn
    /\ listPlayer \subseteq Conn
    /\ removed \subseteq Conn
    /\ infight \subseteq Conn
    /\ useCount \in [Conn -> 0 .. 2]
    /\ toRelease \in [Conn -> 0 .. 2]
    /\ playersonline \in Int
    /\ counted \in [Conn -> Int]
    /\ kicking \in Conn \cup {None}
    /\ kickStage \in {"none", "close", "zero"}
    /\ calm \subseteq Conn

Init ==
    /\ pc = [t \in Conn |-> "auth"]
    /\ name \in [Conn -> Name]
    /\ closes = [t \in Conn |-> 0]
    /\ sock = [t \in Conn |-> None]
    /\ key = [t \in Conn |-> t]
    /\ msgKey = [t \in Conn |-> t]
    /\ pendingLogout = {}
    /\ listPlayer = {}
    /\ removed = {}
    /\ infight = {}
    /\ useCount = [t \in Conn |-> 0]
    /\ toRelease = [t \in Conn |-> 0]
    /\ playersonline = 0
    /\ counted = [t \in Conn |-> 0]
    /\ kicking = None
    /\ kickStage = "none"
    /\ calm = {}

Goto(t, l) == pc' = [pc EXCEPT ![t] = l]
Close(s) == closes' = [closes EXCEPT ![s] = @ + 1]

\* gameLock: a login keeps it until addPlayer is done, a kick until the
\* socket is closed; every other use of it is a single step.
GameUnlocked == kicking = None /\ \A t \in Conn : pc[t] # "addPlayer"

-----------------------------------------------------------------------------
(* ConnectionHandler.                                                       *)

\* A check made before gameLock fails: version, bans, password.
Refuse(t) ==
    /\ pc[t] = "auth"
    /\ Goto(t, "rejected")
    /\ UNCHANGED <<name, msgKey, infight, calm, socketVars, gameVars, statVars, kickVars>>

\* Game::getPlayerByName: any player of that name in the list.
SameName(t) == {p \in listPlayer : name[p] = name[t]}

Reattachable(p) == sock[p] = None /\ p \notin removed /\ ~AllowClones

\* Protocol79::reinitializeProtocol: the session p gets the socket of t, and
\* t ends without closing it.
Reattach(t, p) ==
    /\ pc[t] = "auth" /\ GameUnlocked
    /\ p \in SameName(t) /\ Reattachable(p)
    /\ sock' = [sock EXCEPT ![p] = t]
    /\ key' = [key EXCEPT ![p] = t]
    /\ calm' = calm \ {p}
    /\ Goto(t, "done")
    /\ UNCHANGED <<name, msgKey, infight, closes, pendingLogout,
                   gameVars, statVars, kickVars>>

\* No session takes the socket: a Protocol79 and a Player are created.
NewPlayer(t) ==
    /\ pc[t] = "auth" /\ GameUnlocked
    /\ \/ SameName(t) = {}
       \/ \E p \in SameName(t) : ~Reattachable(p)
    /\ sock' = [sock EXCEPT ![t] = t]

\* Banned, already logged in, server closed, no slot or not this client's
\* turn, no place to stand: the player is freed again.
RejectLogin(t) ==
    /\ NewPlayer(t)
    /\ useCount' = [useCount EXCEPT ![t] = 1]
    /\ toRelease' = [toRelease EXCEPT ![t] = @ + 1]
    /\ Goto(t, "rejected")
    /\ UNCHANGED <<name, msgKey, infight, calm, closes, key, pendingLogout,
                   listPlayer, removed, statVars, kickVars>>

\* Mutant of AcceptLogin: "already logged in" is not looked at.
AcceptLoginTwice(t) ==
    /\ NewPlayer(t)
    /\ playersonline < MaxPlayers
    /\ useCount' = [useCount EXCEPT ![t] = 2]
    /\ listPlayer' = listPlayer \cup {t}
    /\ counted' = [counted EXCEPT ![t] = playersonline]
    /\ Goto(t, "addPlayer")
    /\ UNCHANGED <<name, msgKey, infight, calm, closes, key, pendingLogout,
                   removed, toRelease, playersonline, kickVars>>

\* ConnectPlayer succeeds: the player is placed (a second reference) and
\* addPlayer reads the counter.  Waitlist::clientLogin has asked hasSlot.
AcceptLogin(t) ==
    /\ NewPlayer(t)
    /\ SameName(t) # {} => AllowClones
    /\ playersonline < MaxPlayers
    /\ useCount' = [useCount EXCEPT ![t] = 2]
    /\ listPlayer' = listPlayer \cup {t}
    /\ counted' = [counted EXCEPT ![t] = playersonline]
    /\ Goto(t, "addPlayer")
    /\ UNCHANGED <<name, msgKey, infight, calm, closes, key, pendingLogout,
                   removed, toRelease, playersonline, kickVars>>

\* The counter is written, gameLock is released, ReceiveLoop is entered.
AddPlayer(t) ==
    /\ pc[t] = "addPlayer"
    /\ playersonline' = counted[t] + 1
    /\ counted' = [counted EXCEPT ![t] = 0]
    /\ Goto(t, "read")
    /\ UNCHANGED <<name, msgKey, infight, calm, socketVars, gameVars, kickVars>>

\* if(s) closesocket(s): the end of a handler that still owns its socket.
CloseRejected(t) ==
    /\ pc[t] = "rejected"
    /\ Close(t)
    /\ Goto(t, "done")
    /\ UNCHANGED <<name, msgKey, infight, calm, sock, key, pendingLogout,
                   gameVars, statVars, kickVars>>

\* After ReceiveLoop: stat->removePlayer() without gameLock, FreeThing with it.
RemovePlayerRead(t) ==
    /\ pc[t] = "statRead"
    /\ counted' = [counted EXCEPT ![t] = playersonline]
    /\ Goto(t, "statWrite")
    /\ UNCHANGED <<name, msgKey, infight, calm, socketVars, gameVars, playersonline, kickVars>>

RemovePlayerWrite(t) ==
    /\ pc[t] = "statWrite"
    /\ playersonline' = counted[t] - 1
    /\ counted' = [counted EXCEPT ![t] = 0]
    /\ Goto(t, "free")
    /\ UNCHANGED <<name, msgKey, infight, calm, socketVars, gameVars, kickVars>>

\* Mutant of FreePlayer: the handler keeps its reference.
FreePlayerKeeps(t) ==
    /\ pc[t] = "free" /\ GameUnlocked
    /\ Goto(t, "done")
    /\ UNCHANGED <<name, msgKey, infight, calm, socketVars, gameVars,
                   statVars, kickVars>>

FreePlayer(t) ==
    /\ pc[t] = "free" /\ GameUnlocked
    /\ toRelease' = [toRelease EXCEPT ![t] = @ + 1]
    /\ Goto(t, "done")
    /\ UNCHANGED <<name, msgKey, infight, calm, socketVars, listPlayer, removed,
                   useCount, statVars, kickVars>>

-----------------------------------------------------------------------------
(* The game, under gameLock.                                                *)

\* Game::removeCreature: the player leaves the lists, is marked removed and
\* the game's reference goes to ToReleaseThings.
RemoveCreature(p) ==
    /\ listPlayer' = listPlayer \ {p}
    /\ infight' = infight \ {p}
    /\ removed' = removed \cup {p}
    /\ toRelease' = [toRelease EXCEPT ![p] = @ + 1]

\* Game::checkCreature: the player dies.
Die(p) ==
    /\ GameUnlocked
    /\ p \in listPlayer
    /\ RemoveCreature(p)
    /\ UNCHANGED <<pc, name, msgKey, calm, socketVars, useCount, statVars, kickVars>>

\* Player::kickPlayer by an operator, the idle check or the shutdown:
\* Protocol79::logout on a thread that is not the player's own.
Kick(p) ==
    /\ GameUnlocked
    /\ p \in listPlayer
    /\ RemoveCreature(p)
    /\ kicking' = p
    /\ kickStage' = "close"
    /\ UNCHANGED <<pc, name, msgKey, calm, socketVars, useCount, statVars>>

KickClose ==
    /\ kickStage = "close"
    /\ \/ /\ sock[kicking] # None
          /\ Close(sock[kicking])
          /\ kickStage' = "zero"
          /\ UNCHANGED <<kicking, pendingLogout>>
       \/ /\ sock[kicking] = None
          /\ UNCHANGED closes
          /\ pendingLogout' = pendingLogout \cup {kicking}
          /\ kicking' = None
          /\ kickStage' = "none"
    /\ UNCHANGED <<pc, name, msgKey, infight, calm, sock, key, gameVars, statVars>>

KickZero ==
    /\ kickStage = "zero"
    /\ sock' = [sock EXCEPT ![kicking] = None]
    /\ pendingLogout' = pendingLogout \cup {kicking}
    /\ kicking' = None
    /\ kickStage' = "none"
    /\ UNCHANGED <<pc, name, msgKey, infight, calm, closes, key, gameVars, statVars>>

\* Game::flushSendBuffers: the deferred releases; an object without a
\* reference is deleted, and ~Protocol79 closes the socket it still has.
FlushSendBuffers ==
    /\ GameUnlocked
    /\ \E p \in Conn : toRelease[p] > 0
    /\ useCount' = [p \in Conn |-> useCount[p] - toRelease[p]]
    /\ toRelease' = [p \in Conn |-> 0]
    /\ LET dead == {p \in Conn : toRelease[p] > 0 /\ useCount'[p] <= 0} IN
         /\ closes' = [s \in Conn |->
                closes[s] + Cardinality({p \in dead : sock[p] = s})]
         /\ sock' = [p \in Conn |-> IF p \in dead THEN None ELSE sock[p]]
    /\ UNCHANGED <<pc, name, msgKey, infight, calm, key, pendingLogout,
                   listPlayer, removed, statVars, kickVars>>

StartFight(p) ==
    /\ GameUnlocked
    /\ p \in listPlayer \ infight
    /\ infight' = infight \cup {p}
    /\ UNCHANGED <<pc, name, msgKey, calm, socketVars, gameVars, statVars, kickVars>>

EndFight(p) ==
    /\ GameUnlocked
    /\ p \in infight
    /\ infight' = infight \ {p}
    /\ calm' = IF sock[p] = None THEN calm \cup {p} ELSE calm
    /\ UNCHANGED <<pc, name, msgKey, socketVars, gameVars, statVars, kickVars>>

-----------------------------------------------------------------------------
(* Protocol79::ReceiveLoop of thread t for its player t.                    *)

\* A logout packet (0x14); parseLogout looks at the fight and at isRemoved,
\* logout() looks at isRemoved again before it takes gameLock.
ParseLogout(t) ==
    /\ pc[t] = "read" /\ t \notin pendingLogout /\ sock[t] # None
    /\ t \in infight => t \in removed
    /\ \/ /\ t \in removed
          /\ pendingLogout' = pendingLogout \cup {t}
          /\ UNCHANGED pc
       \/ /\ t \notin removed
          /\ Goto(t, "logout")
          /\ UNCHANGED pendingLogout
    /\ UNCHANGED <<name, msgKey, infight, calm, closes, sock, key,
                   gameVars, statVars, kickVars>>

\* logout(): nothing happens when somebody else has removed the player first.
Logout(t) ==
    /\ pc[t] = "logout" /\ GameUnlocked
    /\ Goto(t, "read")
    /\ \/ /\ t \in removed
          /\ UNCHANGED <<closes, sock, pendingLogout, infight, listPlayer, removed,
                         toRelease>>
       \/ /\ t \notin removed
          /\ RemoveCreature(t)
          /\ IF sock[t] # None THEN Close(sock[t]) ELSE UNCHANGED closes
          /\ sock' = [sock EXCEPT ![t] = None]
          /\ pendingLogout' = pendingLogout \cup {t}
    /\ UNCHANGED <<name, msgKey, calm, key, useCount, statVars, kickVars>>

\* while(pendingLogout == false && msg.ReadFromSocket(s)) ends: somebody has
\* set pendingLogout, or the read fails, which it may do at any time.
EndRead(t) ==
    /\ pc[t] = "read"
    /\ Goto(t, "close")
    /\ UNCHANGED <<name, msgKey, infight, calm, socketVars, gameVars, statVars, kickVars>>

CloseSocket(t) ==
    /\ pc[t] = "close"
    /\ \/ /\ sock[t] # None
          /\ Close(sock[t])
          /\ Goto(t, "zero")
       \/ /\ sock[t] = None
          /\ UNCHANGED closes
          /\ Goto(t, "pending")
    /\ UNCHANGED <<name, msgKey, infight, calm, sock, key, pendingLogout,
                   gameVars, statVars, kickVars>>

\* Mutant of ZeroSocket: s keeps the closed socket.
ZeroSocketMissing(t) ==
    /\ pc[t] = "zero"
    /\ Goto(t, "pending")
    /\ UNCHANGED <<name, msgKey, infight, calm, socketVars, gameVars, statVars, kickVars>>

ZeroSocket(t) ==
    /\ pc[t] = "zero"
    /\ sock' = [sock EXCEPT ![t] = None]
    /\ calm' = IF t \in infight THEN calm \ {t} ELSE calm \cup {t}
    /\ Goto(t, "pending")
    /\ UNCHANGED <<name, msgKey, infight, closes, key, pendingLogout,
                   gameVars, statVars, kickVars>>

\* if(pendingLogout == false) playerSetAttackedCreature(player, 0)
CheckPending(t) ==
    /\ pc[t] = "pending"
    /\ \/ t \in pendingLogout /\ Goto(t, "after")
       \/ t \notin pendingLogout /\ GameUnlocked /\ Goto(t, "fightWait")
    /\ UNCHANGED <<name, msgKey, infight, calm, socketVars, gameVars, statVars, kickVars>>

\* Mutant of FightWait: the fight is not waited for.
FightWaitNot(t) ==
    /\ pc[t] = "fightWait"
    /\ Goto(t, "lock")
    /\ UNCHANGED <<name, msgKey, infight, calm, socketVars, gameVars, statVars, kickVars>>

FightWait(t) ==
    /\ pc[t] = "fightWait"
    /\ t \notin infight \/ t \in removed \/ sock[t] # None
    /\ Goto(t, "lock")
    /\ UNCHANGED <<name, msgKey, infight, calm, socketVars, gameVars, statVars, kickVars>>

\* Mutant of RemoveOrResume: isRemoved is not looked at again.
RemoveOrResumeTwice(t) ==
    /\ pc[t] = "lock" /\ GameUnlocked
    /\ Goto(t, "after")
    /\ \/ /\ sock[t] = None
          /\ RemoveCreature(t)
          /\ UNCHANGED msgKey
       \/ /\ sock[t] # None
          /\ msgKey' = [msgKey EXCEPT ![t] = key[t]]
          /\ UNCHANGED <<infight, listPlayer, removed, toRelease>>
    /\ UNCHANGED <<name, calm, socketVars, useCount, statVars, kickVars>>

\* Mutant of RemoveOrResume: the old key decrypts the new connection.
RemoveOrResumeOldKey(t) ==
    /\ pc[t] = "lock" /\ GameUnlocked
    /\ Goto(t, "after")
    /\ \/ /\ t \notin removed /\ sock[t] = None
          /\ RemoveCreature(t)
       \/ /\ t \in removed \/ sock[t] # None
          /\ UNCHANGED <<infight, listPlayer, removed, toRelease>>
    /\ UNCHANGED <<name, msgKey, calm, socketVars, useCount, statVars, kickVars>>

\* Mutant of RemoveOrResume: a player without a connection stays.
RemoveOrResumeStays(t) ==
    /\ pc[t] = "lock" /\ GameUnlocked
    /\ Goto(t, "after")
    /\ msgKey' = IF sock[t] # None THEN [msgKey EXCEPT ![t] = key[t]] ELSE msgKey
    /\ UNCHANGED <<name, infight, calm, socketVars, gameVars, statVars, kickVars>>

\* Under gameLock: the player is removed, or goes on with the new socket.
RemoveOrResume(t) ==
    /\ pc[t] = "lock" /\ GameUnlocked
    /\ Goto(t, "after")
    /\ \/ /\ t \notin removed /\ sock[t] = None
          /\ RemoveCreature(t)
          /\ UNCHANGED msgKey
       \/ /\ t \notin removed /\ sock[t] # None
          /\ msgKey' = [msgKey EXCEPT ![t] = key[t]]
          /\ UNCHANGED <<infight, listPlayer, removed, toRelease>>
       \/ /\ t \in removed
          /\ UNCHANGED <<msgKey, infight, listPlayer, removed, toRelease>>
    /\ UNCHANGED <<name, calm, socketVars, useCount, statVars, kickVars>>

\* while(s != 0 && !player->isRemoved())
LoopAgain(t) ==
    /\ pc[t] = "after"
    /\ Goto(t, IF sock[t] # None /\ t \notin removed THEN "read" ELSE "statRead")
    /\ UNCHANGED <<name, msgKey, infight, calm, socketVars, gameVars, statVars, kickVars>>

-----------------------------------------------------------------------------
Handler(t) ==
    \/ Refuse(t) \/ RejectLogin(t) \/ AcceptLogin(t)
    \/ \E p \in Conn : Reattach(t, p)
    \/ AddPlayer(t) \/ CloseRejected(t)
    \/ RemovePlayerRead(t) \/ RemovePlayerWrite(t) \/ FreePlayer(t)

ReceiveLoop(t) ==
    \/ Logout(t) \/ CloseSocket(t) \/ ZeroSocket(t)
    \/ CheckPending(t) \/ FightWait(t) \/ RemoveOrResume(t) \/ LoopAgain(t)

World ==
    \/ \E p \in Conn : Die(p) \/ Kick(p) \/ StartFight(p) \/ EndFight(p)
    \/ \E t \in Conn : ParseLogout(t) \/ EndRead(t)

Kicker == KickClose \/ KickZero

Next == \/ \E t \in Conn : Handler(t) \/ ReceiveLoop(t)
        \/ Kicker \/ FlushSendBuffers \/ World

Spec == Init /\ [][Next]_vars

\* Threads keep running, except that a read may block for ever (recv has no
\* timeout, and closing the socket elsewhere does not end it); players, fights
\* and operators are free.
Fairness ==
    /\ \A t \in Conn : SF_vars(ReceiveLoop(t)) /\ SF_vars(Handler(t))
    /\ WF_vars(Kicker) /\ SF_vars(FlushSendBuffers)

FairSpec == Spec /\ Fairness

-----------------------------------------------------------------------------
(* Properties.                                                              *)

\* The references the server holds on a player: its thread's, the game's.
Held(t) == (IF pc[t] \in LoopPc \cup {"addPlayer", "statRead", "statWrite", "free"}
            THEN 1 ELSE 0)
         + (IF t \in listPlayer THEN 1 ELSE 0)

\* useCount is what is held plus what waits in ToReleaseThings: no player is
\* deleted under the feet of its own thread, of the game or of a kick, and no
\* reference is lost (the useThing2 and FreeThing calls of otserv.cpp and
\* game.cpp).
RefsExact == \A t \in Conn : useCount[t] = Held(t) + toRelease[t]

\* Without clones a character is in the game once, whatever logins,
\* reattachments and disconnections race (otserv.cpp, ConnectionHandler).
OneSession ==
    ~AllowClones =>
        \A p, q \in listPlayer : name[p] = name[q] => p = q

\* ReceiveLoop decrypts with the key of the connection it reads, also after
\* a reattachment by another thread (protocol79.cpp, ReceiveLoop).
KeyFresh ==
    \A t \in Conn :
        pc[t] = "read" /\ sock[t] # None /\ t \notin removed =>
            msgKey[t] = sock[t]

\* No two sessions read or write the same socket, and a session's socket has
\* no handler that will close it, rejected logins apart.
SocketNotShared ==
    /\ \A p, q \in Conn : sock[p] # None /\ sock[p] = sock[q] => p = q
    /\ \A p \in listPlayer : sock[p] # None => pc[sock[p]] # "rejected"

\* A session reads its own connection with the key of that connection.
ConnectionOwned == KeyFresh /\ SocketNotShared

\* Sessions keep apart: one for each character, and each with a connection of its own.
SessionsApart == OneSession /\ ConnectionOwned

\* The books of the sessions agree whatever logins, losses, kicks and reattachments race:
\* every reference is counted, and sessions keep apart (otserv.cpp:361, game.cpp:669).
SessionsHold == RefsExact /\ SessionsApart

\* A player who loses the connection in a fight stays in the game until the
\* fight was over at least once: losing the connection is no way out of it
\* (the wait of ReceiveLoop).
NoCombatLogout ==
    [][\A t \in Conn :
          pc[t] = "lock" /\ t \notin removed /\ t \in removed' /\ pc'[t] = "after"
              => t \in calm]_vars

\* A lost connection is not kept for ever: its player is removed or takes a
\* new socket, unless the fight goes on.
LostIsResolved ==
    \A t \in Conn :
        pc[t] = "fightWait" ~> t \in removed \/ sock[t] # None \/ t \in infight

\* Once its thread has stopped reading, a player that left the game is
\* deleted in the end, whoever removed it.
RemovedIsFreed ==
    \A t \in Conn :
        t \in removed /\ pc[t] = "close" ~> useCount[t] = 0

\* However a session is lost, it comes to an end: resumed, or removed and
\* deleted (protocol79.cpp, ReceiveLoop; game.cpp, flushSendBuffers).
SessionsEnd == LostIsResolved /\ RemovedIsFreed

\* otserv.cpp:487 "protocol/player will close socket": a socket is closed by
\* one of its two users, the handler or the protocol.
ClosedOnce == \A s \in Conn : closes[s] <= 1

=============================================================================
