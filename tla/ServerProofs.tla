---------------------------- MODULE ServerProofs ----------------------------
(***************************************************************************)
(* Proofs about Session and Bans, for any number of connections,           *)
(* characters and addresses: the books of the sessions agree, nobody leaves*)
(* a fight by losing the connection, and who is banned stays out.          *)
(***************************************************************************)
EXTENDS Session, Bans, FiniteSetTheorems, SequenceTheorems, TLAPS

\* A player is in the game while its thread serves it, until it is removed.
Playing == \A t \in Conn : t \in listPlayer <=> pc[t] \in LoopPc \cup {"addPlayer"} /\ t \notin removed

\* A thread that has not logged in has no player yet, and one that is refused loses it.
Unused ==
    \A t \in Conn :
        /\ pc[t] = "auth" =>
            t \notin removed /\ useCount[t] = 0 /\ toRelease[t] = 0 /\ key[t] = t /\ msgKey[t] = t
        /\ pc[t] = "rejected" => t \notin removed

\* A logout is pending of removed players only, and only such are kicked.
Going ==
    /\ pendingLogout \subseteq removed
    /\ kickStage # "none" => kicking \in removed

\* A session has the key of the connection it has: its own, or that of a thread that is done.
OwnKey ==
    \A p \in Conn : sock[p] # None =>
        /\ key[p] = sock[p] /\ pc[p] # "auth"
        /\ sock[p] # p => pc[sock[p]] = "done"

\* How often the connection of p may have been closed while p still has it: by a kick or by
\* ReceiveLoop, before either has forgotten it, or by a handler that refused it.
Closers(p) ==
    (IF kickStage = "zero" /\ kicking = p THEN 1 ELSE 0) + (IF pc[p] \in {"zero", "done"} THEN 1 ELSE 0)

\* A connection is closed twice at most: once the session has forgotten it, nobody is left to
\* close it but the handler that refused it.
Closings ==
    /\ \A p \in Conn : sock[p] # None => closes[sock[p]] <= Closers(p)
    /\ \A s \in Conn : (\A p \in Conn : sock[p] # s) =>
            closes[s] <= IF pc[s] = "auth" THEN 0 ELSE IF pc[s] = "rejected" THEN 1 ELSE 2

\* ReceiveLoop has a connection, and decrypts with its key, but while it waits for a new one.
Connected ==
    \A t \in Conn :
        pc[t] \in {"addPlayer", "read", "logout", "close", "zero", "after"} /\ t \notin removed =>
            sock[t] # None /\ msgKey[t] = sock[t]

\* A player that is about to be removed for want of a connection has been out of the fight.
CalmFirst ==
    \A t \in Conn :
        /\ pc[t] \in {"pending", "fightWait"} /\ t \notin removed /\ sock[t] = None /\ t \notin infight =>
            t \in calm
        /\ pc[t] = "lock" /\ t \notin removed /\ sock[t] = None => t \in calm

IInv ==
    /\ TypeOK /\ Playing /\ Unused /\ Going
    /\ RefsExact
    /\ OneSession
    /\ OwnKey /\ SocketNotShared /\ Connected
    /\ CalmFirst
    /\ Closings

USE SessionAssumption DEF Pc, LoopPc

\* Every initial state satisfies the invariant.
THEOREM IInvInit == Init => IInv
BY DEF Init, IInv, TypeOK, Playing, Unused, Going, RefsExact, Held, OneSession, OwnKey, SocketNotShared,
    Connected, CalmFirst, Closings, Closers

\* What is removed from the game is released once more, and not more often than it was taken.
LEMMA ReleasedOnce ==
  ASSUME IInv, NEW p \in listPlayer, RemoveCreature(p)
  PROVE  /\ listPlayer' \subseteq Conn /\ infight' \subseteq Conn /\ removed' \subseteq Conn
         /\ toRelease' \in [Conn -> 0 .. 2]
<1>1. p \in Conn /\ pc[p] \in LoopPc \cup {"addPlayer"}
  BY DEF IInv, TypeOK, Playing
<1>2. Held(p) = 2
  BY <1>1 DEF Held
<1>3. toRelease[p] = 0
  BY <1>1, <1>2 DEF IInv, TypeOK, RefsExact
<1> QED
  BY <1>1, <1>3 DEF IInv, TypeOK, RemoveCreature

\* A connection that a session still has may be closed once more.
LEMMA ClosedCounts ==
  ASSUME IInv, NEW p \in Conn, sock[p] # None, Closers(p) <= 1, Close(sock[p])
  PROVE  closes' \in [Conn -> 0 .. 2]
<1>1. sock[p] \in Conn /\ closes[sock[p]] \in 0 .. 2 /\ Closers(p) \in Nat
  BY DEF IInv, TypeOK, Closers
<1>2. closes[sock[p]] \in 0 .. 1
  BY <1>1 DEF IInv, Closings
<1> QED
  BY <1>1, <1>2 DEF IInv, TypeOK, Close

-----------------------------------------------------------------------------
(* The steps of ConnectionHandler.                                          *)

LEMMA RefuseInv ==
  ASSUME NEW t \in Conn, IInv, Refuse(t)
  PROVE  IInv'
<1> USE DEF Refuse, Goto, socketVars, gameVars, statVars, kickVars
<1>1. TypeOK'
  BY DEF IInv, TypeOK
<1>2. Playing'
  BY DEF IInv, Playing
<1>3. Unused'
  BY DEF IInv, Unused
<1>4. RefsExact'
  BY DEF IInv, RefsExact, Held
<1>5. OwnKey'
  BY DEF IInv, OwnKey
<1>6. SocketNotShared'
  BY DEF IInv, SocketNotShared, OwnKey, TypeOK
<1>7. Connected'
  BY DEF IInv, Connected
<1>8. CalmFirst'
  BY DEF IInv, CalmFirst
<1>9. Going' /\ OneSession'
  BY DEF IInv, Going, OneSession
<1>10. Closings'
  BY DEF IInv, TypeOK, Closings, Closers
<1> QED
  BY <1>1, <1>2, <1>3, <1>4, <1>5, <1>6, <1>7, <1>8, <1>9, <1>10 DEF IInv

LEMMA ReattachInv ==
  ASSUME NEW t \in Conn, NEW p \in Conn, IInv, Reattach(t, p)
  PROVE  IInv'
<1> USE DEF Reattach, SameName, Reattachable, Goto, socketVars, gameVars, statVars, kickVars
<1>1. TypeOK'
  BY DEF IInv, TypeOK
<1>2. Playing'
  BY DEF IInv, Playing
<1>3. Unused'
  BY DEF IInv, Unused, Playing
<1>4. RefsExact'
  BY DEF IInv, RefsExact, Held
<1>5. OwnKey'
  BY DEF IInv, OwnKey, TypeOK, Unused, Playing
<1>6. SocketNotShared'
  BY DEF IInv, SocketNotShared, OwnKey
<1>7. Connected'
  BY DEF IInv, Connected
<1>8. CalmFirst'
  BY DEF IInv, CalmFirst, TypeOK
<1>9. Going' /\ OneSession'
  BY DEF IInv, Going, OneSession
<1>10. Closings'
  BY DEF IInv, TypeOK, Closings, Closers, OwnKey, Playing, Going
<1> QED
  BY <1>1, <1>2, <1>3, <1>4, <1>5, <1>6, <1>7, <1>8, <1>9, <1>10 DEF IInv

LEMMA RejectLoginInv ==
  ASSUME NEW t \in Conn, IInv, RejectLogin(t)
  PROVE  IInv'
<1> USE DEF RejectLogin, NewPlayer, Goto, socketVars, gameVars, statVars, kickVars
<1>1. TypeOK'
  <2>1. toRelease[t] = 0
    BY DEF IInv, Unused
  <2> QED
    BY <2>1 DEF IInv, TypeOK
<1>2. Playing'
  BY DEF IInv, Playing
<1>3. Unused'
  BY DEF IInv, Unused, TypeOK
<1>4. RefsExact'
  <2>1. ASSUME NEW q \in Conn PROVE Held(q)' = Held(q)
    BY DEF Held
  <2>2. Held(t) = 0 /\ toRelease[t] = 0
    BY DEF IInv, Unused, Playing, Held
  <2>3. useCount' = [useCount EXCEPT ![t] = 1] /\ toRelease' = [toRelease EXCEPT ![t] = @ + 1]
    OBVIOUS
  <2> QED
    BY ONLY IInv, <2>1, <2>2, <2>3 DEF IInv, TypeOK, RefsExact
<1>5. OwnKey'
  BY DEF IInv, OwnKey, TypeOK, Unused
<1>6. SocketNotShared'
  BY DEF IInv, SocketNotShared, OwnKey, TypeOK, Playing, Unused
<1>7. Connected'
  BY DEF IInv, Connected
<1>8. CalmFirst'
  BY DEF IInv, CalmFirst
<1>9. Going' /\ OneSession'
  BY DEF IInv, Going, OneSession
<1>10. Closings'
  BY DEF IInv, TypeOK, Closings, Closers, OwnKey
<1> QED
  BY <1>1, <1>2, <1>3, <1>4, <1>5, <1>6, <1>7, <1>8, <1>9, <1>10 DEF IInv

LEMMA AcceptLoginInv ==
  ASSUME NEW t \in Conn, IInv, AcceptLogin(t)
  PROVE  IInv'
<1> USE DEF AcceptLogin, NewPlayer, SameName, Goto, socketVars, gameVars, statVars, kickVars
<1>1. TypeOK'
  BY DEF IInv, TypeOK
<1>2. Playing'
  BY DEF IInv, Playing, Unused, TypeOK
<1>3. Unused'
  BY DEF IInv, Unused, TypeOK
<1>4. RefsExact'
  BY DEF IInv, TypeOK, RefsExact, Held, Playing, Unused
<1>5. OneSession'
  BY DEF IInv, OneSession
<1>6. OwnKey'
  BY DEF IInv, OwnKey, TypeOK, Unused
<1>7. SocketNotShared'
  BY DEF IInv, SocketNotShared, OwnKey, TypeOK
<1>8. Connected'
  BY DEF IInv, Connected, TypeOK, Unused
<1>9. CalmFirst'
  BY DEF IInv, CalmFirst
<1>10. Going'
  BY DEF IInv, Going
<1>11. Closings'
  BY DEF IInv, TypeOK, Closings, Closers, OwnKey
<1> QED
  BY <1>1, <1>2, <1>3, <1>4, <1>5, <1>6, <1>7, <1>8, <1>9, <1>10, <1>11 DEF IInv

LEMMA AddPlayerInv ==
  ASSUME NEW t \in Conn, IInv, AddPlayer(t)
  PROVE  IInv'
<1> USE DEF AddPlayer, Goto, socketVars, gameVars, statVars, kickVars
<1>1. TypeOK'
  BY DEF IInv, TypeOK
<1>2. Playing'
  BY DEF IInv, Playing
<1>3. Unused'
  BY DEF IInv, Unused
<1>4. RefsExact'
  BY DEF IInv, RefsExact, Held
<1>5. OwnKey'
  BY DEF IInv, OwnKey
<1>6. SocketNotShared'
  BY DEF IInv, SocketNotShared
<1>7. Connected'
  BY DEF IInv, Connected
<1>8. CalmFirst'
  BY DEF IInv, CalmFirst
<1>9. Going' /\ OneSession'
  BY DEF IInv, Going, OneSession
<1>10. Closings'
  BY DEF IInv, Closings, Closers
<1> QED
  BY <1>1, <1>2, <1>3, <1>4, <1>5, <1>6, <1>7, <1>8, <1>9, <1>10 DEF IInv

LEMMA CloseRejectedInv ==
  ASSUME NEW t \in Conn, IInv, CloseRejected(t)
  PROVE  IInv'
<1> USE DEF CloseRejected, Goto, Close, socketVars, gameVars, statVars, kickVars
<1>1. TypeOK'
  <2>1. closes[t] \in 0 .. 1
    <3>1. ASSUME NEW p \in Conn, sock[p] = t
          PROVE  Closers(p) = 0
      BY <3>1 DEF IInv, TypeOK, OwnKey, Unused, Going, Closers
    <3>2. closes[t] \in 0 .. 2
      BY DEF IInv, TypeOK
    <3> QED
      BY <3>1, <3>2 DEF IInv, Closings
  <2> QED
    BY <2>1 DEF IInv, TypeOK
<1>2. Playing'
  BY DEF IInv, Playing
<1>3. Unused'
  BY DEF IInv, Unused
<1>4. RefsExact'
  BY DEF IInv, RefsExact, Held
<1>5. OwnKey'
  BY DEF IInv, OwnKey
<1>6. SocketNotShared'
  BY DEF IInv, SocketNotShared
<1>7. Connected'
  BY DEF IInv, Connected
<1>8. CalmFirst'
  BY DEF IInv, CalmFirst
<1>9. Going' /\ OneSession'
  BY DEF IInv, Going, OneSession
<1>10. Closings'
  BY DEF IInv, TypeOK, Closings, Closers, OwnKey, Unused, Going
<1> QED
  BY <1>1, <1>2, <1>3, <1>4, <1>5, <1>6, <1>7, <1>8, <1>9, <1>10 DEF IInv

LEMMA RemovePlayerReadInv ==
  ASSUME NEW t \in Conn, IInv, RemovePlayerRead(t)
  PROVE  IInv'
<1> USE DEF RemovePlayerRead, Goto, socketVars, gameVars, statVars, kickVars
<1>1. TypeOK'
  BY DEF IInv, TypeOK
<1>2. Playing'
  BY DEF IInv, Playing
<1>3. Unused'
  BY DEF IInv, Unused
<1>4. RefsExact'
  BY DEF IInv, RefsExact, Held
<1>5. OwnKey'
  BY DEF IInv, OwnKey
<1>6. SocketNotShared'
  BY DEF IInv, SocketNotShared
<1>7. Connected'
  BY DEF IInv, Connected
<1>8. CalmFirst'
  BY DEF IInv, CalmFirst
<1>9. Going' /\ OneSession'
  BY DEF IInv, Going, OneSession
<1>10. Closings'
  BY DEF IInv, Closings, Closers
<1> QED
  BY <1>1, <1>2, <1>3, <1>4, <1>5, <1>6, <1>7, <1>8, <1>9, <1>10 DEF IInv

LEMMA RemovePlayerWriteInv ==
  ASSUME NEW t \in Conn, IInv, RemovePlayerWrite(t)
  PROVE  IInv'
<1> USE DEF RemovePlayerWrite, Goto, socketVars, gameVars, statVars, kickVars
<1>1. TypeOK'
  BY DEF IInv, TypeOK
<1>2. Playing'
  BY DEF IInv, Playing
<1>3. Unused'
  BY DEF IInv, Unused
<1>4. RefsExact'
  BY DEF IInv, RefsExact, Held
<1>5. OwnKey'
  BY DEF IInv, OwnKey
<1>6. SocketNotShared'
  BY DEF IInv, SocketNotShared
<1>7. Connected'
  BY DEF IInv, Connected
<1>8. CalmFirst'
  BY DEF IInv, CalmFirst
<1>9. Going' /\ OneSession'
  BY DEF IInv, Going, OneSession
<1>10. Closings'
  BY DEF IInv, Closings, Closers
<1> QED
  BY <1>1, <1>2, <1>3, <1>4, <1>5, <1>6, <1>7, <1>8, <1>9, <1>10 DEF IInv

LEMMA FreePlayerInv ==
  ASSUME NEW t \in Conn, IInv, FreePlayer(t)
  PROVE  IInv'
<1> USE DEF FreePlayer, Goto, socketVars, gameVars, statVars, kickVars
<1>1. TypeOK'
  <2>1. Held(t) \in 1 .. 2
    BY DEF Held
  <2>2. toRelease[t] \in 0 .. 1
    BY <2>1 DEF IInv, TypeOK, RefsExact
  <2>3. toRelease' = [toRelease EXCEPT ![t] = toRelease[t] + 1]
    OBVIOUS
  <2>4. toRelease' \in [Conn -> 0 .. 2]
    BY ONLY IInv, <2>2, <2>3 DEF IInv, TypeOK
  <2> QED
    BY <2>4 DEF IInv, TypeOK
<1>2. Playing'
  BY DEF IInv, Playing
<1>3. Unused'
  BY DEF IInv, Unused
<1>4. RefsExact'
  BY DEF IInv, TypeOK, RefsExact, Held
<1>5. OwnKey'
  BY DEF IInv, OwnKey
<1>6. SocketNotShared'
  BY DEF IInv, SocketNotShared
<1>7. Connected'
  BY DEF IInv, Connected
<1>8. CalmFirst'
  BY DEF IInv, CalmFirst
<1>9. Going' /\ OneSession'
  BY DEF IInv, Going, OneSession
<1>10. Closings'
  BY DEF IInv, TypeOK, Closings, Closers
<1> QED
  BY <1>1, <1>2, <1>3, <1>4, <1>5, <1>6, <1>7, <1>8, <1>9, <1>10 DEF IInv

-----------------------------------------------------------------------------
(* The steps of the game, under gameLock, and of whoever throws players out.*)

LEMMA DieInv ==
  ASSUME NEW p \in Conn, IInv, Die(p)
  PROVE  IInv'
<1> USE DEF Die, RemoveCreature, socketVars, gameVars, statVars, kickVars
<1>1. TypeOK'
  BY ReleasedOnce DEF IInv, TypeOK
<1>2. Playing'
  BY DEF IInv, Playing
<1>3. Unused'
  BY DEF IInv, Unused, Playing
<1>4. Going'
  BY DEF IInv, Going
<1>5. RefsExact'
  BY DEF IInv, TypeOK, RefsExact, Held
<1>6. OneSession'
  BY DEF IInv, OneSession
<1>7. SocketNotShared'
  BY DEF IInv, SocketNotShared
<1>8. Connected'
  BY DEF IInv, Connected
<1>9. CalmFirst'
  BY DEF IInv, CalmFirst
<1>10. OwnKey'
  BY DEF IInv, OwnKey
<1>11. Closings'
  BY DEF IInv, Closings, Closers
<1> QED
  BY <1>1, <1>2, <1>3, <1>4, <1>5, <1>6, <1>7, <1>8, <1>9, <1>10, <1>11 DEF IInv

LEMMA KickInv ==
  ASSUME NEW p \in Conn, IInv, Kick(p)
  PROVE  IInv'
<1> USE DEF Kick, RemoveCreature, socketVars, gameVars, statVars, kickVars
<1>1. TypeOK'
  BY ReleasedOnce DEF IInv, TypeOK
<1>2. Playing'
  BY DEF IInv, Playing
<1>3. Unused'
  BY DEF IInv, Unused, Playing
<1>4. Going'
  BY DEF IInv, Going
<1>5. RefsExact'
  BY DEF IInv, TypeOK, RefsExact, Held
<1>6. OneSession'
  BY DEF IInv, OneSession
<1>7. SocketNotShared'
  BY DEF IInv, SocketNotShared
<1>8. Connected'
  BY DEF IInv, Connected
<1>9. CalmFirst'
  BY DEF IInv, CalmFirst
<1>10. OwnKey'
  BY DEF IInv, OwnKey
<1>11. Closings'
  <2>1. \A q \in Conn : Closers(q)' = Closers(q)
    BY DEF Closers, GameUnlocked
  <2> QED
    BY <2>1 DEF IInv, Closings
<1> QED
  BY <1>1, <1>2, <1>3, <1>4, <1>5, <1>6, <1>7, <1>8, <1>9, <1>10, <1>11 DEF IInv

LEMMA KickCloseInv ==
  ASSUME IInv, KickClose
  PROVE  IInv'
<1> USE DEF KickClose, Close, socketVars, gameVars, statVars, kickVars
<1>1. TypeOK'
  <2>1. kicking \in Conn
    BY DEF IInv, TypeOK, Going
  <2>2. closes' \in [Conn -> 0 .. 2]
    BY <2>1, ClosedCounts DEF IInv, TypeOK, Closers
  <2> QED
    BY <2>1, <2>2 DEF IInv, TypeOK
<1>2. Going'
  BY DEF IInv, Going
<1>3. Playing' /\ Unused' /\ RefsExact' /\ OneSession' /\ OwnKey' /\ SocketNotShared' /\ Connected' /\ CalmFirst'
  BY DEF IInv, Playing, Unused, RefsExact, OneSession, OwnKey, SocketNotShared, Connected, CalmFirst, Held
<1>4. Closings'
  BY DEF IInv, TypeOK, Closings, Closers, OwnKey, SocketNotShared, Playing, Unused, Going
<1> QED
  BY <1>1, <1>2, <1>3, <1>4 DEF IInv

LEMMA KickZeroInv ==
  ASSUME IInv, KickZero
  PROVE  IInv'
<1> USE DEF KickZero, socketVars, gameVars, statVars, kickVars
<1>1. TypeOK'
  <2>1. kicking \in Conn
    BY DEF IInv, TypeOK, Going
  <2> QED
    BY <2>1 DEF IInv, TypeOK
<1>2. Going'
  BY DEF IInv, Going
<1>3. OwnKey'
  BY DEF IInv, OwnKey
<1>4. SocketNotShared'
  BY DEF IInv, SocketNotShared
<1>5. Connected'
  BY DEF IInv, Connected, Going
<1>6. CalmFirst'
  BY DEF IInv, CalmFirst, Going
<1>7. Playing' /\ Unused' /\ RefsExact' /\ OneSession'
  BY DEF IInv, Playing, Unused, RefsExact, OneSession, Held
<1>8. Closings'
  BY DEF IInv, TypeOK, Closings, Closers, OwnKey
<1> QED
  BY <1>1, <1>2, <1>3, <1>4, <1>5, <1>6, <1>7, <1>8 DEF IInv

LEMMA StartFightInv ==
  ASSUME NEW p \in Conn, IInv, StartFight(p)
  PROVE  IInv'
<1> USE DEF StartFight, socketVars, gameVars, statVars, kickVars
<1>1. TypeOK'
  BY DEF IInv, TypeOK
<1>2. CalmFirst'
  BY DEF IInv, CalmFirst
<1>3. Playing' /\ Unused' /\ Going' /\ RefsExact' /\ OneSession' /\ OwnKey' /\ SocketNotShared' /\ Connected'
  BY DEF IInv, Playing, Unused, Going, RefsExact, OneSession, OwnKey, SocketNotShared, Connected, Held
<1>4. Closings'
  BY DEF IInv, Closings, Closers
<1> QED
  BY <1>1, <1>2, <1>3, <1>4 DEF IInv

LEMMA EndFightInv ==
  ASSUME NEW p \in Conn, IInv, EndFight(p)
  PROVE  IInv'
<1> USE DEF EndFight, socketVars, gameVars, statVars, kickVars
<1>1. TypeOK'
  BY DEF IInv, TypeOK
<1>2. CalmFirst'
  BY DEF IInv, CalmFirst
<1>3. Playing' /\ Unused' /\ Going' /\ RefsExact' /\ OneSession' /\ OwnKey' /\ SocketNotShared' /\ Connected'
  BY DEF IInv, Playing, Unused, Going, RefsExact, OneSession, OwnKey, SocketNotShared, Connected, Held
<1>4. Closings'
  BY DEF IInv, Closings, Closers
<1> QED
  BY <1>1, <1>2, <1>3, <1>4 DEF IInv

-----------------------------------------------------------------------------
(* The steps of Protocol79::ReceiveLoop.                                    *)

LEMMA ParseLogoutInv ==
  ASSUME NEW t \in Conn, IInv, ParseLogout(t)
  PROVE  IInv'
<1> USE DEF ParseLogout, Goto, socketVars, gameVars, statVars, kickVars
<1>1. TypeOK'
  <2>1. pc' \in [Conn -> Pc] /\ pendingLogout' \subseteq Conn
    BY DEF IInv, TypeOK
  <2> QED
    BY <2>1 DEF IInv, TypeOK
<1>2. Playing'
  BY DEF IInv, Playing, TypeOK
<1>3. Unused'
  BY DEF IInv, Unused, TypeOK
<1>4. Going'
  BY DEF IInv, Going
<1>5. RefsExact'
  BY DEF IInv, TypeOK, RefsExact, Held
<1>6. OwnKey'
  BY DEF IInv, OwnKey, TypeOK
<1>7. SocketNotShared'
  BY DEF IInv, SocketNotShared, TypeOK
<1>8. Connected'
  BY DEF IInv, Connected, TypeOK
<1>9. CalmFirst'
  BY DEF IInv, CalmFirst, TypeOK
<1>10. OneSession'
  BY DEF IInv, OneSession
<1>11. Closings'
  BY DEF IInv, TypeOK, Closings, Closers
<1> QED
  BY <1>1, <1>2, <1>3, <1>4, <1>5, <1>6, <1>7, <1>8, <1>9, <1>10, <1>11 DEF IInv

LEMMA LogoutInv ==
  ASSUME NEW t \in Conn, IInv, Logout(t)
  PROVE  IInv'
<1> USE DEF Logout, RemoveCreature, Goto, Close, socketVars, gameVars, statVars, kickVars
<1>1. TypeOK'
  <2>1. /\ listPlayer' \subseteq Conn /\ infight' \subseteq Conn /\ removed' \subseteq Conn
        /\ toRelease' \in [Conn -> 0 .. 2]
    <3>1. CASE t \in removed
      BY <3>1 DEF IInv, TypeOK
    <3>2. CASE t \notin removed
      <4>1. t \in listPlayer
        BY <3>2 DEF IInv, Playing
      <4> QED
        BY <3>2, <4>1, ReleasedOnce
    <3> QED
      BY <3>1, <3>2
  <2>2. closes' \in [Conn -> 0 .. 2]
    <3>1. CASE closes' = closes
      BY <3>1 DEF IInv, TypeOK
    <3>2. CASE sock[t] # None /\ Close(sock[t])
      <4>1. Closers(t) <= 1
        BY DEF Closers, GameUnlocked
      <4> QED
        BY ONLY IInv, t \in Conn, <3>2, <4>1, ClosedCounts
    <3> QED
      BY <3>1, <3>2
  <2> QED
    BY <2>1, <2>2 DEF IInv, TypeOK
<1>2. Playing'
  BY DEF IInv, Playing
<1>3. Unused'
  BY DEF IInv, Unused, TypeOK
<1>4. Going'
  BY DEF IInv, Going
<1>5. RefsExact'
  BY DEF IInv, TypeOK, RefsExact, Held, Playing
<1>6. OneSession'
  BY DEF IInv, OneSession
<1>7. OwnKey'
  BY DEF IInv, OwnKey, TypeOK
<1>8. SocketNotShared'
  BY DEF IInv, SocketNotShared, TypeOK
<1>9. Connected'
  BY DEF IInv, Connected, TypeOK
<1>10. CalmFirst'
  BY DEF IInv, CalmFirst, TypeOK
<1>11. Closings'
  <2>1. CASE UNCHANGED <<closes, sock>>
    <3>1. \A p \in Conn : Closers(p)' = Closers(p)
      BY DEF Closers, IInv, TypeOK
    <3> QED
      BY <2>1, <3>1 DEF IInv, TypeOK, Closings
  <2>2. CASE sock' = [sock EXCEPT ![t] = None]
    <3>1. ASSUME NEW p \in Conn, sock'[p] # None
          PROVE  closes'[sock'[p]] <= Closers(p)'
      <4>1. p # t /\ sock'[p] = sock[p] /\ sock[p] # sock[t] /\ sock[p] \in Conn
        BY <2>2, <3>1 DEF IInv, TypeOK, SocketNotShared
      <4>2. closes'[sock[p]] = closes[sock[p]] /\ Closers(p)' = Closers(p)
        BY <4>1 DEF IInv, TypeOK, Closers
      <4> QED
        BY <3>1, <4>1, <4>2 DEF IInv, Closings
    <3>2. ASSUME NEW s \in Conn, \A p \in Conn : sock'[p] # s
          PROVE  closes'[s] <= IF pc'[s] = "auth" THEN 0 ELSE IF pc'[s] = "rejected" THEN 1 ELSE 2
      <4>1. CASE s = sock[t]
        <5>1. pc'[s] \notin {"auth", "rejected"}
          BY <4>1 DEF IInv, TypeOK, OwnKey
        <5> QED
          BY <1>1, <5>1 DEF TypeOK
      <4>2. CASE s # sock[t]
        <5>1. \A p \in Conn : sock[p] # s
          BY <2>2, <3>2, <4>2 DEF IInv, TypeOK
        <5>2. closes'[s] = closes[s] /\ (pc'[s] # pc[s] => pc'[s] = "read")
          BY <4>2 DEF IInv, TypeOK
        <5>3. closes[s] \in 0 .. 2
          BY DEF IInv, TypeOK
        <5> QED
          BY <5>1, <5>2, <5>3 DEF IInv, Closings
      <4> QED
        BY <4>1, <4>2
    <3> QED
      BY <3>1, <3>2 DEF Closings
  <2> QED
    BY <2>1, <2>2
<1> QED
  BY <1>1, <1>2, <1>3, <1>4, <1>5, <1>6, <1>7, <1>8, <1>9, <1>10, <1>11 DEF IInv

LEMMA EndReadInv ==
  ASSUME NEW t \in Conn, IInv, EndRead(t)
  PROVE  IInv'
<1> USE DEF EndRead, Goto, socketVars, gameVars, statVars, kickVars
<1>1. TypeOK'
  BY DEF IInv, TypeOK
<1>2. Playing'
  BY DEF IInv, Playing
<1>3. Unused'
  BY DEF IInv, Unused
<1>4. RefsExact'
  BY DEF IInv, RefsExact, Held
<1>5. OwnKey'
  BY DEF IInv, OwnKey
<1>6. SocketNotShared'
  BY DEF IInv, SocketNotShared
<1>7. Connected'
  BY DEF IInv, Connected
<1>8. CalmFirst'
  BY DEF IInv, CalmFirst
<1>9. Going' /\ OneSession'
  BY DEF IInv, Going, OneSession
<1>10. Closings'
  BY DEF IInv, Closings, Closers
<1> QED
  BY <1>1, <1>2, <1>3, <1>4, <1>5, <1>6, <1>7, <1>8, <1>9, <1>10 DEF IInv

LEMMA CloseSocketInv ==
  ASSUME NEW t \in Conn, IInv, CloseSocket(t)
  PROVE  IInv'
<1> USE DEF CloseSocket, Goto, Close, socketVars, gameVars, statVars, kickVars
<1>1. TypeOK'
  <2>1. closes' \in [Conn -> 0 .. 2]
    <3>1. CASE closes' = closes
      BY <3>1 DEF IInv, TypeOK
    <3>2. CASE sock[t] # None /\ Close(sock[t])
      <4>1. Closers(t) <= 1
        BY DEF Closers
      <4> QED
        BY ONLY IInv, t \in Conn, <3>2, <4>1, ClosedCounts
    <3> QED
      BY <3>1, <3>2
  <2>2. pc' \in [Conn -> Pc]
    BY DEF IInv, TypeOK
  <2> QED
    BY <2>1, <2>2 DEF IInv, TypeOK
<1>2. Playing'
  BY DEF IInv, Playing, TypeOK
<1>3. Unused'
  BY DEF IInv, Unused, TypeOK
<1>4. RefsExact'
  BY DEF IInv, TypeOK, RefsExact, Held
<1>5. OwnKey'
  BY DEF IInv, OwnKey, TypeOK
<1>6. SocketNotShared'
  BY DEF IInv, SocketNotShared, TypeOK
<1>7. Connected'
  BY DEF IInv, Connected, TypeOK
<1>8. CalmFirst'
  BY DEF IInv, CalmFirst, TypeOK, Connected
<1>9. Going' /\ OneSession'
  BY DEF IInv, Going, OneSession
<1>10. Closings'
  <2>1. ASSUME NEW p \in Conn, sock[p] # None
        PROVE  closes'[sock[p]] <= Closers(p)'
    <3>1. sock[p] \in Conn /\ closes[sock[p]] \in 0 .. 2 /\ Closers(p) \in Nat /\ closes[sock[p]] <= Closers(p)
      BY <2>1 DEF IInv, TypeOK, Closings, Closers
    <3>2. CASE p = t
      <4>1. Closers(t)' = Closers(t) + 1 /\ closes'[sock[t]] = closes[sock[t]] + 1
        BY <2>1, <3>1, <3>2 DEF IInv, TypeOK, Closers
      <4> QED
        BY <3>1, <3>2, <4>1
    <3>3. CASE p # t
      <4>1. Closers(p)' = Closers(p) /\ closes'[sock[p]] = closes[sock[p]]
        BY <2>1, <3>1, <3>3 DEF IInv, TypeOK, Closers, SocketNotShared
      <4> QED
        BY <3>1, <4>1
    <3> QED
      BY <3>2, <3>3
  <2>2. ASSUME NEW s \in Conn, \A p \in Conn : sock[p] # s
        PROVE  closes'[s] <= IF pc'[s] = "auth" THEN 0 ELSE IF pc'[s] = "rejected" THEN 1 ELSE 2
    <3>1. closes'[s] = closes[s] /\ (pc'[s] # pc[s] => pc'[s] \in {"zero", "pending"})
      BY <2>2 DEF IInv, TypeOK
    <3>2. closes[s] \in 0 .. 2
      BY DEF IInv, TypeOK
    <3> QED
      BY <2>2, <3>1, <3>2 DEF IInv, Closings
  <2> QED
    BY <2>1, <2>2 DEF Closings
<1> QED
  BY <1>1, <1>2, <1>3, <1>4, <1>5, <1>6, <1>7, <1>8, <1>9, <1>10 DEF IInv

LEMMA ZeroSocketInv ==
  ASSUME NEW t \in Conn, IInv, ZeroSocket(t)
  PROVE  IInv'
<1> USE DEF ZeroSocket, Goto, socketVars, gameVars, statVars, kickVars
<1>1. TypeOK'
  BY DEF IInv, TypeOK
<1>2. Playing'
  BY DEF IInv, Playing
<1>3. Unused'
  BY DEF IInv, Unused
<1>4. RefsExact'
  BY DEF IInv, RefsExact, Held
<1>5. OwnKey'
  BY DEF IInv, OwnKey
<1>6. SocketNotShared'
  BY DEF IInv, SocketNotShared
<1>7. Connected'
  BY DEF IInv, Connected, TypeOK
<1>8. CalmFirst'
  BY DEF IInv, CalmFirst
<1>9. Going' /\ OneSession'
  BY DEF IInv, Going, OneSession
<1>10. Closings'
  BY DEF IInv, TypeOK, Closings, Closers, OwnKey, Unused, Going
<1> QED
  BY <1>1, <1>2, <1>3, <1>4, <1>5, <1>6, <1>7, <1>8, <1>9, <1>10 DEF IInv

LEMMA CheckPendingInv ==
  ASSUME NEW t \in Conn, IInv, CheckPending(t)
  PROVE  IInv'
<1> USE DEF CheckPending, Goto, socketVars, gameVars, statVars, kickVars
<1>1. TypeOK'
  <2>1. pc' \in [Conn -> Pc]
    BY DEF IInv, TypeOK
  <2> QED
    BY <2>1 DEF IInv, TypeOK
<1>2. Playing'
  BY DEF IInv, Playing, TypeOK
<1>3. Unused'
  BY DEF IInv, Unused, TypeOK
<1>4. RefsExact'
  BY DEF IInv, TypeOK, RefsExact, Held
<1>5. OwnKey'
  BY DEF IInv, OwnKey, TypeOK
<1>6. SocketNotShared'
  BY DEF IInv, SocketNotShared, TypeOK
<1>7. Connected'
  BY DEF IInv, Connected, TypeOK, Going
<1>8. CalmFirst'
  BY DEF IInv, CalmFirst, TypeOK
<1>9. Going' /\ OneSession'
  BY DEF IInv, Going, OneSession
<1>10. Closings'
  BY DEF IInv, TypeOK, Closings, Closers, Playing
<1> QED
  BY <1>1, <1>2, <1>3, <1>4, <1>5, <1>6, <1>7, <1>8, <1>9, <1>10 DEF IInv

LEMMA FightWaitInv ==
  ASSUME NEW t \in Conn, IInv, FightWait(t)
  PROVE  IInv'
<1> USE DEF FightWait, Goto, socketVars, gameVars, statVars, kickVars
<1>1. TypeOK'
  BY DEF IInv, TypeOK
<1>2. Playing'
  BY DEF IInv, Playing
<1>3. Unused'
  BY DEF IInv, Unused
<1>4. RefsExact'
  BY DEF IInv, RefsExact, Held
<1>5. OwnKey'
  BY DEF IInv, OwnKey
<1>6. SocketNotShared'
  BY DEF IInv, SocketNotShared
<1>7. Connected'
  BY DEF IInv, Connected
<1>8. CalmFirst'
  BY DEF IInv, CalmFirst
<1>9. Going' /\ OneSession'
  BY DEF IInv, Going, OneSession
<1>10. Closings'
  BY DEF IInv, Closings, Closers
<1> QED
  BY <1>1, <1>2, <1>3, <1>4, <1>5, <1>6, <1>7, <1>8, <1>9, <1>10 DEF IInv

LEMMA RemoveOrResumeInv ==
  ASSUME NEW t \in Conn, IInv, RemoveOrResume(t)
  PROVE  IInv'
<1> USE DEF RemoveOrResume, RemoveCreature, Goto, socketVars, gameVars, statVars, kickVars
<1>1. TypeOK'
  <2>1. /\ listPlayer' \subseteq Conn /\ infight' \subseteq Conn /\ removed' \subseteq Conn
        /\ toRelease' \in [Conn -> 0 .. 2]
    <3>1. CASE UNCHANGED <<infight, listPlayer, removed, toRelease>>
      BY <3>1 DEF IInv, TypeOK
    <3>2. CASE t \notin removed /\ RemoveCreature(t)
      <4>1. t \in listPlayer
        BY <3>2 DEF IInv, Playing
      <4> QED
        BY <3>2, <4>1, ReleasedOnce
    <3> QED
      BY <3>1, <3>2
  <2>2. pc' \in [Conn -> Pc] /\ msgKey' \in [Conn -> Conn]
    BY DEF IInv, TypeOK
  <2> QED
    BY <2>1, <2>2 DEF IInv, TypeOK
<1>2. Playing'
  BY DEF IInv, Playing
<1>3. Unused'
  BY DEF IInv, Unused, TypeOK
<1>4. Going'
  BY DEF IInv, Going
<1>5. RefsExact'
  BY DEF IInv, TypeOK, RefsExact, Held, Playing
<1>6. OneSession'
  BY DEF IInv, OneSession
<1>7. OwnKey'
  BY DEF IInv, OwnKey
<1>8. SocketNotShared'
  BY DEF IInv, SocketNotShared
<1>9. Connected'
  <2>1. ASSUME NEW q \in Conn, q # t
        PROVE  pc'[q] = pc[q] /\ sock'[q] = sock[q] /\ msgKey'[q] = msgKey[q] /\ removed \subseteq removed'
    BY <2>1 DEF IInv, TypeOK
  <2>2. t \notin removed' => sock'[t] # None /\ msgKey'[t] = sock'[t]
    BY DEF IInv, TypeOK, OwnKey
  <2> QED
    BY <2>1, <2>2 DEF IInv, Connected
<1>10. CalmFirst'
  BY DEF IInv, CalmFirst
<1>11. Closings'
  BY DEF IInv, Closings, Closers
<1> QED
  BY <1>1, <1>2, <1>3, <1>4, <1>5, <1>6, <1>7, <1>8, <1>9, <1>10, <1>11 DEF IInv

LEMMA LoopAgainInv ==
  ASSUME NEW t \in Conn, IInv, LoopAgain(t)
  PROVE  IInv'
<1> USE DEF LoopAgain, Goto, socketVars, gameVars, statVars, kickVars
<1>1. TypeOK'
  BY DEF IInv, TypeOK
<1>2. Playing'
  BY DEF IInv, Playing, Connected
<1>3. Unused'
  BY DEF IInv, Unused
<1>4. RefsExact'
  BY DEF IInv, RefsExact, Held
<1>5. OwnKey'
  BY DEF IInv, OwnKey
<1>6. SocketNotShared'
  BY DEF IInv, SocketNotShared
<1>7. Connected'
  BY DEF IInv, Connected
<1>8. CalmFirst'
  BY DEF IInv, CalmFirst
<1>9. Going' /\ OneSession'
  BY DEF IInv, Going, OneSession
<1>10. Closings'
  BY DEF IInv, Closings, Closers
<1> QED
  BY <1>1, <1>2, <1>3, <1>4, <1>5, <1>6, <1>7, <1>8, <1>9, <1>10 DEF IInv

-----------------------------------------------------------------------------
\* The sockets of the objects that are deleted are closed, each once.
LEMMA FlushSendBuffersInv ==
  ASSUME IInv, FlushSendBuffers
  PROVE  IInv'
<1> DEFINE dead == {p \in Conn : toRelease[p] > 0 /\ useCount'[p] <= 0}
<1>1. /\ useCount' = [p \in Conn |-> useCount[p] - toRelease[p]]
      /\ toRelease' = [p \in Conn |-> 0]
      /\ closes' = [s \in Conn |-> closes[s] + Cardinality({p \in dead : sock[p] = s})]
      /\ sock' = [p \in Conn |-> IF p \in dead THEN None ELSE sock[p]]
      /\ UNCHANGED <<pc, name, msgKey, infight, calm, key, pendingLogout,
                     listPlayer, removed, statVars, kickVars>>
  BY DEF FlushSendBuffers
<1>2. \A p \in Conn : Held(p) \in 0 .. 2 /\ Held(p)' = Held(p) /\ useCount'[p] = Held(p)
  BY <1>1 DEF Held, IInv, TypeOK, RefsExact
<1>3. \A p \in dead : p \in Conn /\ Held(p) = 0
  BY <1>2
<1> HIDE DEF dead
<1>4. ASSUME NEW s \in Conn
      PROVE  /\ Cardinality({p \in dead : sock[p] = s}) \in {0, 1}
             /\ Cardinality({p \in dead : sock[p] = s}) = 1 => \E p \in dead : sock[p] = s
             /\ Cardinality({p \in dead : sock[p] = s}) = 0 => \A p \in dead : sock[p] # s
  <2>1. CASE {p \in dead : sock[p] = s} = {}
    <3>1. Cardinality({p \in dead : sock[p] = s}) = 0
      BY <2>1, FS_EmptySet
    <3> QED
      BY <2>1, <3>1
  <2>2. CASE {p \in dead : sock[p] = s} # {}
    <3>1. PICK p \in dead : sock[p] = s
      BY <2>2
    <3>2. {q \in dead : sock[q] = s} = {p}
      BY <1>3, <3>1 DEF IInv, SocketNotShared
    <3>3. Cardinality({q \in dead : sock[q] = s}) = 1
      BY <3>2, FS_Singleton
    <3> QED
      BY <3>1, <3>3
  <2> QED
    BY <2>1, <2>2
<1>5. \A p \in Conn : Closers(p) = (IF pc[p] \in {"zero", "done"} THEN 1 ELSE 0)
  BY DEF FlushSendBuffers, GameUnlocked, Closers
<1>6. ASSUME NEW s \in Conn
       PROVE  closes'[s] \in 0 .. 2 /\ closes'[s] <= closes[s] + 1
              /\ (closes'[s] # closes[s] => \E p \in dead : sock[p] = s)
  <2>1. closes[s] \in 0 .. 2 /\ closes'[s] = closes[s] + Cardinality({p \in dead : sock[p] = s})
    BY <1>1 DEF IInv, TypeOK
  <2>2. CASE Cardinality({p \in dead : sock[p] = s}) = 0
    BY <2>1, <2>2
  <2>3. CASE Cardinality({p \in dead : sock[p] = s}) = 1
    <3>1. PICK p \in dead : sock[p] = s
      BY <1>4, <2>3
    <3>2. closes[s] <= 1
      BY <1>3, <1>5, <2>1, <3>1 DEF IInv, Closings
    <3> QED
      BY <2>1, <2>3, <3>1, <3>2
  <2> QED
    BY <1>4, <2>2, <2>3
<1>7. TypeOK'
  <2>1. closes' \in [Conn -> 0 .. 2]
    BY <1>1, <1>6
  <2>2. useCount' \in [Conn -> 0 .. 2] /\ toRelease' \in [Conn -> 0 .. 2] /\ sock' \in [Conn -> Conn \cup {None}]
    <3>1. useCount' \in [Conn -> 0 .. 2]
      BY <1>1, <1>2
    <3> QED
      BY <1>1, <3>1 DEF IInv, TypeOK
  <2> QED
    BY <1>1, <2>1, <2>2 DEF IInv, TypeOK, statVars, kickVars
<1>8. RefsExact'
  BY <1>1, <1>2 DEF RefsExact
<1>9. Playing' /\ Going' /\ OneSession'
  BY <1>1 DEF IInv, Playing, Going, OneSession, kickVars
<1>10. Unused'
  BY <1>1 DEF IInv, Unused
<1>11. OwnKey' /\ SocketNotShared'
  BY <1>1 DEF IInv, TypeOK, OwnKey, SocketNotShared
<1>12. ASSUME NEW t \in Conn, pc[t] \in LoopPc \cup {"addPlayer"}
       PROVE  sock'[t] = sock[t]
  <2>1. Held(t) # 0
    BY <1>12 DEF Held
  <2> QED
    BY <1>1, <1>3, <2>1
<1>13. Connected'
  BY <1>1, <1>12 DEF IInv, Connected
<1>14. CalmFirst'
  BY <1>1, <1>12 DEF IInv, CalmFirst
<1>15. Closings'
  <2>1. ASSUME NEW p \in Conn, sock'[p] # None
        PROVE  closes'[sock'[p]] <= Closers(p)'
    <3>1. p \notin dead /\ sock'[p] = sock[p] /\ sock[p] \in Conn /\ sock[p] # None
      BY <1>1, <2>1 DEF IInv, TypeOK
    <3>2. \A q \in dead : sock[q] # sock[p]
      BY <1>3, <3>1 DEF IInv, SocketNotShared
    <3>3. closes'[sock[p]] = closes[sock[p]]
      BY <1>6, <3>1, <3>2
    <3>4. Closers(p)' = Closers(p)
      BY <1>1 DEF Closers, kickVars
    <3> QED
      BY <3>1, <3>3, <3>4 DEF IInv, Closings
  <2>2. ASSUME NEW s \in Conn, \A p \in Conn : sock'[p] # s
        PROVE  closes'[s] <= IF pc'[s] = "auth" THEN 0 ELSE IF pc'[s] = "rejected" THEN 1 ELSE 2
    <3>1. CASE \A p \in Conn : sock[p] # s
      <4>1. closes'[s] = closes[s]
        BY <1>3, <1>6, <3>1
      <4> QED
        BY <1>1, <3>1, <4>1 DEF IInv, Closings
    <3>2. CASE \E p \in Conn : sock[p] = s
      <4>1. PICK p \in Conn : sock[p] = s
        BY <3>2
      <4>2. closes[s] <= Closers(p) /\ closes[s] \in 0 .. 2 /\ closes'[s] \in 0 .. 2 /\ closes'[s] <= closes[s] + 1
        BY <1>6, <4>1 DEF IInv, TypeOK, Closings
      <4>3. pc[s] # "auth" /\ (pc[s] = "rejected" => p = s)
        BY <4>1 DEF IInv, OwnKey
      <4> QED
        BY <1>1, <1>5, <4>2, <4>3
    <3> QED
      BY <3>1, <3>2
  <2> QED
    BY <2>1, <2>2 DEF Closings
<1> QED
  BY <1>7, <1>8, <1>9, <1>10, <1>11, <1>13, <1>14, <1>15 DEF IInv

\* Every step of a thread, of the game or of a kick keeps the invariant.
THEOREM IInvNext == IInv /\ [Next]_vars => IInv'
<1> SUFFICES ASSUME IInv, [Next]_vars PROVE IInv'
  OBVIOUS
<1>1. CASE UNCHANGED vars
  <2> USE <1>1 DEF vars, socketVars, gameVars, statVars, kickVars
  <2>1. TypeOK' /\ Playing' /\ Unused' /\ Going'
    BY DEF IInv, TypeOK, Playing, Unused, Going
  <2>2. RefsExact' /\ OneSession'
    BY DEF IInv, RefsExact, Held, OneSession
  <2>3. OwnKey' /\ SocketNotShared' /\ Connected' /\ CalmFirst' /\ Closings'
    BY DEF IInv, OwnKey, SocketNotShared, Connected, CalmFirst, Closings, Closers
  <2> QED
    BY <2>1, <2>2, <2>3 DEF IInv
<1>2. CASE \E t \in Conn : Handler(t)
  BY <1>2, RefuseInv, RejectLoginInv, AcceptLoginInv, ReattachInv, AddPlayerInv, CloseRejectedInv,
     RemovePlayerReadInv, RemovePlayerWriteInv, FreePlayerInv DEF Handler
<1>3. CASE \E t \in Conn : ReceiveLoop(t)
  BY <1>3, LogoutInv, CloseSocketInv, ZeroSocketInv, CheckPendingInv, FightWaitInv, RemoveOrResumeInv,
     LoopAgainInv DEF ReceiveLoop
<1>4. CASE Kicker
  BY <1>4, KickCloseInv, KickZeroInv DEF Kicker
<1>5. CASE World
  BY <1>5, DieInv, KickInv, StartFightInv, EndFightInv, ParseLogoutInv, EndReadInv DEF World
<1> QED
  BY <1>1, <1>2, <1>3, <1>4, <1>5, FlushSendBuffersInv DEF Next

\* The invariant holds in every reachable state.
THEOREM Inductive == Spec => []IInv
BY IInvInit, IInvNext, PTL DEF Spec

\* The variables of the sessions keep their types; the references on a player are 2 at most.
THEOREM TypeCorrect == Spec => []TypeOK
<1>1. IInv => TypeOK
  BY DEF IInv
<1> QED
  BY <1>1, Inductive, PTL

\* The books of the sessions agree whatever logins, losses, kicks and reattachments race:
\* every reference is counted, a character is in the game once, and a session reads its
\* own connection with the key of that connection (otserv.cpp:361, game.cpp:669).
THEOREM SessionsHoldAlways == Spec => []SessionsHold
<1>1. IInv => KeyFresh
  BY DEF IInv, Connected, KeyFresh
<1>2. IInv => SessionsHold
  BY <1>1 DEF IInv, SessionsHold, SessionsApart, ConnectionOwned
<1> QED
  BY <1>2, Inductive, PTL

\* Losing the connection is no way out of a fight: a player that ReceiveLoop removes for
\* want of a connection has been out of the fight since it was lost (protocol79.cpp,
\* ReceiveLoop).
THEOREM NoCombatLogoutHolds == Spec => NoCombatLogout
<1> DEFINE Leaves(t) == pc[t] = "lock" /\ t \notin removed /\ t \in removed' /\ pc'[t] = "after"
<1>1. ASSUME IInv, [Next]_vars, NEW t \in Conn, Leaves(t)
      PROVE  t \in calm
  <2>1. RemoveOrResume(t)
    BY <1>1 DEF IInv, TypeOK, vars, Goto, Next, Handler, ReceiveLoop, Kicker, World, Refuse, RejectLogin,
        AcceptLogin, Reattach, AddPlayer, CloseRejected, RemovePlayerRead, RemovePlayerWrite, FreePlayer,
        Logout, CloseSocket, ZeroSocket, CheckPending, FightWait, RemoveOrResume, LoopAgain, KickClose,
        KickZero, Die, Kick, StartFight, EndFight, ParseLogout, EndRead, FlushSendBuffers
  <2>2. sock[t] = None
    BY <1>1, <2>1 DEF RemoveOrResume
  <2> QED
    BY <1>1, <2>2 DEF IInv, CalmFirst
<1>2. IInv /\ [Next]_vars => [\A t \in Conn : Leaves(t) => t \in calm]_vars
  BY <1>1
<1> QED
  BY <1>2, Inductive, PTL DEF Spec, NoCombatLogout

-----------------------------------------------------------------------------
(* The bans.                                                               *)

Whoever == Address \cup Character \cup Accounts

\* Staff stays in the game, and who has lost the connection is still in it.
StaffPlays == \A g \in Staff : online[g] # Nil
CutPlays == \A c \in cut : online[c] # Nil

\* Attempts that failed in a row are in the counter of the address.
FailuresCounted == \A a \in Address : failures[a] # Nil => failures[a] <= tries[a].number

BanInv ==
    /\ BansTypeOK /\ \A k \in BanKinds : IsFiniteSet(kept[k])
    /\ StaffPlays /\ CutPlays /\ FailuresCounted
    /\ BannedStaysOut /\ NumbersHold /\ BansOutlive

LEMMA BanInvInit == BansInit => BanInv
<1> SUFFICES ASSUME BansInit PROVE BanInv
  OBVIOUS
<1> USE BansAssumption DEF BansInit
<1>1. BansTypeOK
  <2>1. bans \in [BanKinds -> Seq(Banned)]
    BY DEF NoBans
  <2>2. visits \in [Connection -> Visit]
    BY DEF Visit
  <2>3. tries \in [Address -> [number : 0 .. MaxTries, last : {Nil} \cup 0 .. MaxTime]]
    OBVIOUS
  <2> QED
    BY <2>1, <2>2, <2>3 DEF BansTypeOK
<1>2. \A k \in BanKinds : IsFiniteSet(kept[k])
  BY FS_EmptySet
<1>3. StaffPlays /\ CutPlays
  BY DEF StaffPlays, CutPlays
<1>4. FailuresCounted /\ BannedStaysOut /\ NumbersHold /\ BansOutlive
  BY DEF FailuresCounted, BannedStaysOut, NumbersHold, BansOutlive
<1> QED
  BY <1>1, <1>2, <1>3, <1>4 DEF BanInv

\* A ban that is added has the only entry of whom it is for, and moves none.
LEMMA WithAdds ==
  ASSUME NEW L \in Seq(Banned), NEW who \in Whoever, NEW until \in Nat
  PROVE  /\ With(L, who, until) \in Seq(Banned)
         /\ \A n \in DOMAIN L : n \in DOMAIN With(L, who, until) /\ With(L, who, until)[n].who = L[n].who
         /\ \A b : b \in Range(L) /\ b.who # who => b \in Range(With(L, who, until))
         /\ \A b : b \in Range(With(L, who, until)) /\ b.who # who => b \in Range(L)
<1> DEFINE W == With(L, who, until)
<1>0. \A n \in DOMAIN L : L[n] \in Banned
  OBVIOUS
<1>1. CASE \E b \in Range(L) : b.who = who
  <2>1. W = [i \in DOMAIN L |-> IF L[i].who = who THEN [L[i] EXCEPT !.until = until] ELSE L[i]]
    BY <1>1 DEF With
  <2>2. \A n \in DOMAIN L :
          /\ W[n] \in Banned /\ W[n].who = L[n].who
          /\ L[n].who # who => W[n] = L[n]
    BY <1>0, <2>1 DEF Banned
  <2>3. DOMAIN L = 1 .. Len(L) /\ Len(L) \in Nat
    OBVIOUS
  <2>4. DOMAIN W = DOMAIN L
    BY <2>1
  <2>5. W \in Seq(Banned)
    BY <2>1, <2>2, <2>3, IsASeq
  <2> HIDE DEF W
  <2> QED
    BY <2>2, <2>4, <2>5 DEF Range, W
<1>2. CASE ~\E b \in Range(L) : b.who = who
  <2> DEFINE r == [who |-> who, until |-> until]
  <2>1. W = Append(L, r)
    BY <1>2 DEF With
  <2>2. r \in Banned /\ r.who = who
    BY DEF Banned, Whoever
  <2>3. W \in Seq(Banned) /\ Len(W) = Len(L) + 1 /\ \A n \in DOMAIN L : n \in DOMAIN W /\ W[n] = L[n]
    BY <2>1, <2>2
  <2>4. DOMAIN W = DOMAIN L \cup {Len(L) + 1} /\ W[Len(L) + 1] = r
    BY <2>1, <2>2
  <2> HIDE DEF W, r
  <2> QED
    BY <2>2, <2>3, <2>4 DEF Range, W
<1> QED
  BY <1>1, <1>2

LEMMA RemoveTakes ==
  ASSUME NEW L \in Seq(Banned), NEW n \in DOMAIN L
  PROVE  /\ RemoveAt(L, n) \in Seq(Banned)
         /\ Range(RemoveAt(L, n)) \subseteq Range(L)
         /\ \A b \in Range(L) : b # L[n] => b \in Range(RemoveAt(L, n))
<1> DEFINE W == RemoveAt(L, n)
           A == SubSeq(L, 1, n - 1)
           B == SubSeq(L, n + 1, Len(L))
<1>0. n \in 1 .. Len(L) /\ Len(L) \in Nat
  OBVIOUS
<1>1. A \in Seq(Banned) /\ Len(A) = n - 1 /\ \A i \in 1 .. n - 1 : A[i] = L[i]
  BY <1>0
<1>2. B \in Seq(Banned) /\ Len(B) = Len(L) - n /\ \A i \in 1 .. Len(L) - n : B[i] = L[n + i]
  BY <1>0
<1>3. W = A \o B
  BY DEF RemoveAt
<1> HIDE DEF A, B, W
<1>4. W \in Seq(Banned) /\ Len(W) = Len(L) - 1
  BY <1>0, <1>1, <1>2, <1>3
<1>5. \A i \in 1 .. Len(L) - 1 : W[i] = IF i < n THEN L[i] ELSE L[i + 1]
  BY <1>0, <1>1, <1>2, <1>3
<1>6. DOMAIN W = 1 .. Len(L) - 1 /\ DOMAIN L = 1 .. Len(L)
  BY <1>4
<1>7. ASSUME NEW b \in Range(W)
      PROVE  b \in Range(L)
  <2>1. PICK i \in 1 .. Len(L) - 1 : b = W[i]
    BY <1>6 DEF Range
  <2> QED
    BY <2>1, <1>0, <1>5, <1>6 DEF Range
<1>8. ASSUME NEW b \in Range(L), b # L[n]
      PROVE  b \in Range(W)
  <2>1. PICK i \in 1 .. Len(L) : b = L[i] /\ i # n
    BY <1>6, <1>8 DEF Range
  <2>2. CASE i < n
    BY <2>1, <2>2, <1>0, <1>5, <1>6 DEF Range
  <2>3. CASE i > n
    <3>1. i - 1 \in 1 .. Len(L) - 1 /\ ~(i - 1 < n) /\ (i - 1) + 1 = i
      BY <2>3, <1>0
    <3>2. W[i - 1] = L[i]
      BY <3>1, <1>5
    <3> QED
      BY <3>1, <3>2, <2>1, <1>6 DEF Range
  <2> QED
    BY <2>1, <2>2, <2>3, <1>0
<1> QED
  BY <1>4, <1>7, <1>8 DEF W

\* The rows that are read make a list of them.
LEMMA RowsListed ==
  ASSUME NEW S \in SUBSET Banned, IsFiniteSet(S)
  PROVE  SetToSeq(S) \in Seq(Banned) /\ Range(SetToSeq(S)) = S
<1> DEFINE n == Cardinality(S)
           W == SetToSeq(S)
<1>1. n \in Nat /\ ExistsBijection(1 .. n, S)
  BY FS_CardinalityType
<1>2. \E f \in [1 .. n -> S] : IsInjective(f)
  BY <1>1 DEF ExistsBijection, Bijection, Injection
<1>3. W \in [1 .. n -> S] /\ IsInjective(W)
  BY <1>2 DEF SetToSeq
<1> HIDE DEF W
<1>4. W \in Injection(1 .. n, S)
  BY <1>3 DEF Injection
<1>5. IsFiniteSet(1 .. n) /\ Cardinality(1 .. n) = n
  <2>1. /\ IsFiniteSet(1 .. n)
        /\ Cardinality(1 .. n) = IF 1 > n THEN 0 ELSE n - 1 + 1
    BY ONLY <1>1, FS_Interval
  <2> QED
    BY <2>1, <1>1
<1>6. W \in Surjection(1 .. n, S)
  BY <1>4, <1>5, FS_Injection
<1>7. Range(W) = S
  BY <1>3, <1>6 DEF Surjection, Range
<1>8. W \in Seq(Banned)
  BY <1>1, <1>3
<1> QED
  BY <1>7, <1>8 DEF W

\* What adding a ban for w does to the lists and what was promised of them.
LEMMA AddBanKeeps ==
  ASSUME BanInv, NEW k \in BanKinds, NEW w \in Whoever, NEW until \in Nat, AddBan(k, w, until),
         now' = now, shown' = shown
  PROVE  /\ bans' \in [BanKinds -> Seq(Banned)] /\ safe' \subseteq Lasting
         /\ NumbersHold' /\ BansOutlive'
         /\ \A l \in BanKinds : \A x : (l # k \/ x # w) => (Banished(l, x)' <=> Banished(l, x))
<1> DEFINE W == With(bans[k], w, until)
<1>1. bans \in [BanKinds -> Seq(Banned)] /\ safe \subseteq Lasting /\ NumbersHold /\ BansOutlive
  BY DEF BanInv, BansTypeOK
<1>2. bans' = [bans EXCEPT ![k] = W] /\ safe' = {s \in safe : s.kind # k \/ s.who # w}
  BY DEF AddBan
<1>3. bans[k] \in Seq(Banned)
  BY <1>1
<1>4. /\ W \in Seq(Banned)
      /\ \A n \in DOMAIN bans[k] : n \in DOMAIN W /\ W[n].who = bans[k][n].who
      /\ \A b : b \in Range(bans[k]) /\ b.who # w => b \in Range(W)
      /\ \A b : b \in Range(W) /\ b.who # w => b \in Range(bans[k])
  BY <1>3, WithAdds
<1> HIDE DEF W
<1>5. bans' \in [BanKinds -> Seq(Banned)] /\ safe' \subseteq Lasting
  BY <1>1, <1>2, <1>4
<1>6. /\ bans'[k] = W
      /\ \A l \in BanKinds : l # k => bans'[l] = bans[l]
  BY <1>1, <1>2
<1>7. NumbersHold'
  <2> SUFFICES ASSUME shown # Nil, NEW l \in BanKinds, NEW n \in DOMAIN shown[l]
               PROVE  n \in DOMAIN bans'[l] /\ bans'[l][n].who = shown[l][n].who
    BY DEF NumbersHold
  <2>1. n \in DOMAIN bans[l] /\ bans[l][n].who = shown[l][n].who
    BY <1>1 DEF NumbersHold
  <2> QED
    BY <2>1, <1>4, <1>6
<1>8. BansOutlive'
  <2> SUFFICES ASSUME NEW s \in safe', s.until > now
               PROVE  \E b \in Range(bans'[s.kind]) : b.who = s.who /\ b.until = s.until
    BY DEF BansOutlive
  <2>1. s \in safe /\ s.kind \in BanKinds /\ (s.kind # k \/ s.who # w)
    BY <1>1, <1>2 DEF Lasting
  <2>2. PICK b \in Range(bans[s.kind]) : b.who = s.who /\ b.until = s.until
    BY <2>1, <1>1 DEF BansOutlive
  <2>3. b \in Range(bans'[s.kind])
    BY <2>1, <2>2, <1>4, <1>6
  <2> QED
    BY <2>2, <2>3
<1>9. ASSUME NEW l \in BanKinds, NEW x, l # k \/ x # w
      PROVE  Banished(l, x)' <=> Banished(l, x)
  <2>1. \A b : b.who = x => (b \in Range(bans'[l]) <=> b \in Range(bans[l]))
    BY <1>9, <1>4, <1>6
  <2> QED
    BY <2>1 DEF Banished, InForce
<1> QED
  BY <1>5, <1>7, <1>8, <1>9

\* Who was expelled stays out when c is banned, if those of kicked go and nobody comes.
LEMMA BanExpels ==
  ASSUME BanInv, NEW k \in BanKinds, NEW c \in Character \ Staff, NEW kicked \in SUBSET (Character \ Staff),
         \A d \in Character : online'[d] = online[d] \/ online'[d] = Nil,
         \A d \in kicked : online'[d] = Nil,
         expelled' = Expelled(k, c, kicked),
         \A l \in BanKinds : \A x : (l # k \/ x # Whom(k, c)) => (Banished(l, x)' <=> Banished(l, x))
  PROVE  expelled' \subseteq Character \ Staff /\ BannedStaysOut'
<1>1. expelled \subseteq Character \ Staff /\ StaffPlays /\ BannedStaysOut
  BY DEF BanInv, BansTypeOK
<1> DEFINE hit == {d \in Character : Whom(k, d) = Whom(k, c)}
           stays == {d \in hit \ kicked : online[d] # Nil}
<1>2. expelled' = IF k = "address" THEN expelled ELSE (expelled \ stays) \cup (hit \ stays)
  BY DEF Expelled
<1>3. Staff \subseteq Character
  BY BansAssumption
<1>4. expelled' \subseteq Character \ Staff
  BY <1>1, <1>2, <1>3 DEF StaffPlays
<1>5. ASSUME NEW d \in expelled', ~MayEnter(d)'
      PROVE  online'[d] = Nil
  <2>0. d \in Character
    BY <1>4
  <2>1. CASE d \in hit /\ k # "address"
    <3>1. d \in kicked \/ online[d] = Nil
      BY <2>1, <1>2
    <3> QED
      BY <3>1, <2>0
  <2>2. CASE ~(d \in hit /\ k # "address")
    <3>1. d \in expelled
      BY <2>2, <1>2
    <3>2. k = "character" => Whom(k, d) = d
      BY DEF Whom
    <3>3. k = "account" => Whom(k, d) = AccountOf[d]
      BY DEF Whom
    <3>4. Banished("character", d)' <=> Banished("character", d)
      BY <3>2, <2>2, <2>0 DEF BanKinds
    <3>5. Banished("account", AccountOf[d])' <=> Banished("account", AccountOf[d])
      BY <3>3, <2>2, <2>0 DEF BanKinds
    <3>6. online[d] = Nil
      BY <1>5, <3>1, <3>4, <3>5, <1>1 DEF MayEnter, BannedStaysOut
    <3> QED
      BY <3>6, <2>0
  <2> QED
    BY <2>1, <2>2
<1> QED
  BY <1>4, <1>5 DEF BannedStaysOut

LEMMA WhomTyped ==
  ASSUME BanInv, NEW k \in BanKinds, NEW c \in Character, k = "address" => online[c] # Nil
  PROVE  Whom(k, c) \in Whoever
BY DEF Whom, Whoever, BanInv, BansTypeOK, Accounts, BanKinds

\* Ends that bans are given.
LEMMA EndsTyped ==
  ASSUME BanInv
  PROVE  NeverEnds \in Nat /\ now + Length \in Nat /\ Forever \in Nat
BY BansAssumption DEF BanInv, BansTypeOK, NeverEnds

LEMMA GoneKeeps ==
  ASSUME BanInv, NEW c \in Character \ Staff, Gone(c)
  PROVE  /\ online' \in [Character -> Address \cup {Nil}] /\ cut' \subseteq Character
         /\ StaffPlays' /\ CutPlays'
         /\ online'[c] = Nil /\ \A d \in Character : online'[d] = online[d] \/ online'[d] = Nil
BY BansAssumption DEF Gone, BanInv, BansTypeOK, StaffPlays, CutPlays

LEMMA BanAndKickInv == BanInv /\ BanAndKick => BanInv'
<1> SUFFICES ASSUME BanInv, BanAndKick PROVE BanInv'
  OBVIOUS
<1>1. PICK c \in Character \ Staff, k \in BanKinds :
        /\ online[c] # Nil
        /\ \E until \in IF k = "address" THEN {NeverEnds} ELSE {now + Length, Forever} : AddBan(k, Whom(k, c), until)
        /\ Gone(c)
        /\ expelled' = Expelled(k, c, {c})
  BY DEF BanAndKick
<1>2. PICK until \in Nat : AddBan(k, Whom(k, c), until)
  BY <1>1, EndsTyped
<1>3. UNCHANGED <<now, tries, visits, failures, expelling, kept, shown>>
  BY DEF BanAndKick, sessionVars
<1>4. Whom(k, c) \in Whoever
  BY <1>1, WhomTyped
<1>5. PICK w \in Whoever : w = Whom(k, c)
  BY <1>4
<1>6. /\ bans' \in [BanKinds -> Seq(Banned)] /\ safe' \subseteq Lasting
      /\ NumbersHold' /\ BansOutlive'
      /\ \A l \in BanKinds : \A x : (l # k \/ x # w) => (Banished(l, x)' <=> Banished(l, x))
  <2>1. AddBan(k, w, until) /\ now' = now /\ shown' = shown
    BY <1>2, <1>3, <1>5
  <2> QED
    BY <2>1, AddBanKeeps
<1>7. /\ online' \in [Character -> Address \cup {Nil}] /\ cut' \subseteq Character
      /\ StaffPlays' /\ CutPlays'
      /\ online'[c] = Nil /\ \A d \in Character : online'[d] = online[d] \/ online'[d] = Nil
  BY <1>1, GoneKeeps
<1>8. expelled' \subseteq Character \ Staff /\ BannedStaysOut'
  <2>1. PICK kicked \in SUBSET (Character \ Staff) : kicked = {c}
    OBVIOUS
  <2>2. expelled' = Expelled(k, c, kicked) /\ \A d \in kicked : online'[d] = Nil
    BY <2>1, <1>1, <1>7
  <2> QED
    BY <2>2, <1>5, <1>6, <1>7, BanExpels
<1>9. BansTypeOK' /\ (\A l \in BanKinds : IsFiniteSet(kept[l]))' /\ FailuresCounted'
  BY <1>3, <1>6, <1>7, <1>8 DEF BanInv, BansTypeOK, FailuresCounted
<1> QED
  BY <1>6, <1>7, <1>8, <1>9 DEF BanInv

LEMMA ParseBanPlayerInv == BanInv /\ ParseBanPlayer => BanInv'
<1> SUFFICES ASSUME BanInv, ParseBanPlayer PROVE BanInv'
  OBVIOUS
<1>1. PICK c \in Character \ Staff, k \in BanKinds :
        /\ online[c] # Nil
        /\ k = "address" => c \in cut \/ \E g \in Staff : online[g] # Nil /\ online[g] # online[c]
        /\ AddBan(k, Whom(k, c), now + Length) /\ expelling' = c
        /\ expelled' = Expelled(k, c, {})
  BY DEF ParseBanPlayer
<1>3. UNCHANGED <<now, tries, visits, failures, online, cut, kept, shown>>
  BY DEF ParseBanPlayer, sessionVars
<1>5. PICK w \in Whoever : w = Whom(k, c)
  BY <1>1, WhomTyped
<1>2. PICK until \in Nat : AddBan(k, w, until)
  BY <1>1, <1>5, EndsTyped
<1>6. /\ bans' \in [BanKinds -> Seq(Banned)] /\ safe' \subseteq Lasting
      /\ NumbersHold' /\ BansOutlive'
      /\ \A l \in BanKinds : \A x : (l # k \/ x # w) => (Banished(l, x)' <=> Banished(l, x))
  <2>1. now' = now /\ shown' = shown
    BY <1>3
  <2> QED
    BY <2>1, <1>2, AddBanKeeps
<1>8. expelled' \subseteq Character \ Staff /\ BannedStaysOut'
  <2>1. PICK kicked \in SUBSET (Character \ Staff) : kicked = {}
    OBVIOUS
  <2>2. /\ expelled' = Expelled(k, c, kicked) /\ \A d \in kicked : online'[d] = Nil
        /\ \A d \in Character : online'[d] = online[d] \/ online'[d] = Nil
    BY <2>1, <1>1, <1>3
  <2> QED
    BY <2>2, <1>5, <1>6, BanExpels
<1>9. BansTypeOK' /\ (\A l \in BanKinds : IsFiniteSet(kept[l]))' /\ FailuresCounted' /\ StaffPlays' /\ CutPlays'
  BY <1>1, <1>3, <1>6, <1>8 DEF BanInv, BansTypeOK, FailuresCounted, StaffPlays, CutPlays
<1> QED
  BY <1>6, <1>8, <1>9 DEF BanInv

LEMMA BansManagerAddInv == BanInv /\ BansManagerAdd => BanInv'
<1> SUFFICES ASSUME BanInv, BansManagerAdd PROVE BanInv'
  OBVIOUS
<1>1. PICK c \in Character \ Staff, k \in {"character", "account"}, u \in {NeverEnds, now + Length, Forever} :
        /\ AddBan(k, Whom(k, c), u)
        /\ expelled' = Expelled(k, c, {})
  BY DEF BansManagerAdd
<1>3. UNCHANGED <<now, tries, visits, failures, online, cut, expelling, kept, shown>>
  BY DEF BansManagerAdd, sessionVars
<1>4. k \in BanKinds /\ k # "address"
  BY DEF BanKinds
<1>5. PICK w \in Whoever : w = Whom(k, c)
  BY <1>4, WhomTyped
<1>2. PICK until \in Nat : AddBan(k, w, until)
  BY <1>1, <1>5, EndsTyped
<1>6. /\ bans' \in [BanKinds -> Seq(Banned)] /\ safe' \subseteq Lasting
      /\ NumbersHold' /\ BansOutlive'
      /\ \A l \in BanKinds : \A x : (l # k \/ x # w) => (Banished(l, x)' <=> Banished(l, x))
  <2>1. now' = now /\ shown' = shown
    BY <1>3
  <2> QED
    BY <2>1, <1>2, <1>4, AddBanKeeps
<1>8. expelled' \subseteq Character \ Staff /\ BannedStaysOut'
  <2>1. PICK kicked \in SUBSET (Character \ Staff) : kicked = {}
    OBVIOUS
  <2>2. /\ expelled' = Expelled(k, c, kicked) /\ \A d \in kicked : online'[d] = Nil
        /\ \A d \in Character : online'[d] = online[d] \/ online'[d] = Nil
    BY <2>1, <1>1, <1>3
  <2> QED
    BY <2>2, <1>4, <1>5, <1>6, BanExpels
<1>9. BansTypeOK' /\ (\A l \in BanKinds : IsFiniteSet(kept[l]))' /\ FailuresCounted' /\ StaffPlays' /\ CutPlays'
  BY <1>1, <1>3, <1>6, <1>8 DEF BanInv, BansTypeOK, FailuresCounted, StaffPlays, CutPlays
<1> QED
  BY <1>6, <1>8, <1>9 DEF BanInv

\* While the lists stay as they are, so does what was promised of them.
LEMMA ListsStay ==
  ASSUME BanInv, UNCHANGED <<now, bans, shown, safe, expelled>>,
         \A c \in expelled : online'[c] = online[c] \/ online'[c] = Nil
  PROVE  BannedStaysOut' /\ NumbersHold' /\ BansOutlive'
<1>1. \A k, x : Banished(k, x)' <=> Banished(k, x)
  BY DEF Banished, InForce
<1>2. BannedStaysOut'
  BY <1>1 DEF BanInv, BannedStaysOut, MayEnter
<1>3. NumbersHold' /\ BansOutlive'
  BY DEF BanInv, NumbersHold, BansOutlive
<1> QED
  BY <1>2, <1>3

LEMMA BanPlayerKicksInv == BanInv /\ BanPlayerKicks => BanInv'
<1> SUFFICES ASSUME BanInv, BanPlayerKicks PROVE BanInv'
  OBVIOUS
<1>1. expelling # Nil /\ expelling' = Nil /\ Gone(expelling)
  BY DEF BanPlayerKicks
<1>2. PICK c \in Character \ Staff : c = expelling
  BY <1>1 DEF BanInv, BansTypeOK
<1>3. expelled' = expelled \/ expelled' = expelled \cup {c}
  BY <1>2 DEF BanPlayerKicks
<1>4. UNCHANGED <<now, bans, tries, visits, failures, kept, shown, safe>>
  BY DEF BanPlayerKicks, sessionVars
<1>5. /\ online' \in [Character -> Address \cup {Nil}] /\ cut' \subseteq Character
      /\ StaffPlays' /\ CutPlays'
      /\ online'[c] = Nil /\ \A d \in Character : online'[d] = online[d] \/ online'[d] = Nil
  BY <1>1, <1>2, GoneKeeps
<1>6. \A k, x : Banished(k, x)' <=> Banished(k, x)
  BY <1>4 DEF Banished, InForce
<1>7. BannedStaysOut'
  BY <1>3, <1>5, <1>6 DEF BanInv, BansTypeOK, BannedStaysOut, MayEnter
<1>8. NumbersHold' /\ BansOutlive'
  BY <1>4 DEF BanInv, NumbersHold, BansOutlive
<1>9. BansTypeOK' /\ (\A l \in BanKinds : IsFiniteSet(kept[l]))' /\ FailuresCounted'
  BY <1>1, <1>3, <1>4, <1>5 DEF BanInv, BansTypeOK, FailuresCounted
<1> QED
  BY <1>5, <1>7, <1>8, <1>9 DEF BanInv

LEMMA BansManagerShowInv == BanInv /\ BansManagerShow => BanInv'
<1> SUFFICES ASSUME BanInv, BansManagerShow PROVE BanInv'
  OBVIOUS
<1>1. UNCHANGED <<now, bans, tries, visits, failures, online, cut, expelling, kept, expelled, safe>>
  BY DEF BansManagerShow, sessionVars
<1>2. shown' = bans
  BY DEF BansManagerShow
<1>3. \A k, x : Banished(k, x)' <=> Banished(k, x)
  BY <1>1 DEF Banished, InForce
<1>4. BannedStaysOut' /\ NumbersHold' /\ BansOutlive'
  BY <1>1, <1>2, <1>3 DEF BanInv, BannedStaysOut, MayEnter, NumbersHold, BansOutlive
<1>5. BansTypeOK' /\ (\A l \in BanKinds : IsFiniteSet(kept[l]))' /\ FailuresCounted' /\ StaffPlays' /\ CutPlays'
  BY <1>1, <1>2 DEF BanInv, BansTypeOK, FailuresCounted, StaffPlays, CutPlays
<1> QED
  BY <1>4, <1>5 DEF BanInv

LEMMA BansManagerRemoveInv == BanInv /\ BansManagerRemove => BanInv'
<1> SUFFICES ASSUME BanInv, BansManagerRemove PROVE BanInv'
  OBVIOUS
<1>1. UNCHANGED <<now, tries, visits, failures, online, cut, expelling, kept, expelled>> /\ shown' = Nil
  BY DEF BansManagerRemove, sessionVars
<1>2. PICK k \in BanKinds : \E n \in DOMAIN bans[k] \cap DOMAIN shown[k] :
        /\ bans' = [bans EXCEPT ![k] = RemoveAt(@, n)]
        /\ safe' = {s \in safe : s.kind # k \/ s.who # bans[k][n].who}
  BY DEF BansManagerRemove
<1>3. PICK n \in DOMAIN bans[k] :
        /\ bans' = [bans EXCEPT ![k] = RemoveAt(@, n)]
        /\ safe' = {s \in safe : s.kind # k \/ s.who # bans[k][n].who}
  BY <1>2
<1>4. bans \in [BanKinds -> Seq(Banned)] /\ safe \subseteq Lasting /\ BannedStaysOut /\ BansOutlive
  BY DEF BanInv, BansTypeOK
<1> DEFINE W == RemoveAt(bans[k], n)
<1>5. /\ W \in Seq(Banned)
      /\ Range(W) \subseteq Range(bans[k])
      /\ \A b \in Range(bans[k]) : b # bans[k][n] => b \in Range(W)
  <2>1. PICK L \in Seq(Banned) : L = bans[k]
    BY <1>4
  <2> QED
    BY <2>1, RemoveTakes
<1>6. bans' = [bans EXCEPT ![k] = W]
  BY <1>3
<1> HIDE DEF W
<1>7. /\ bans' \in [BanKinds -> Seq(Banned)] /\ bans'[k] = W
      /\ \A l \in BanKinds : l # k => bans'[l] = bans[l]
  BY <1>4, <1>5, <1>6
<1>8. \A l \in BanKinds : \A x : Banished(l, x)' => Banished(l, x)
  BY <1>1, <1>5, <1>7 DEF Banished, InForce
<1>9. BannedStaysOut'
  BY <1>1, <1>4, <1>8 DEF BannedStaysOut, MayEnter, BanKinds
<1>10. BansOutlive'
  <2> SUFFICES ASSUME NEW s \in safe', s.until > now
               PROVE  \E b \in Range(bans'[s.kind]) : b.who = s.who /\ b.until = s.until
    BY <1>1 DEF BansOutlive
  <2>1. s \in safe /\ s.kind \in BanKinds /\ (s.kind # k \/ s.who # bans[k][n].who)
    BY <1>3, <1>4 DEF Lasting
  <2>2. PICK b \in Range(bans[s.kind]) : b.who = s.who /\ b.until = s.until
    BY <2>1, <1>4 DEF BansOutlive
  <2>3. b \in Range(bans'[s.kind])
    BY <2>1, <2>2, <1>5, <1>7
  <2> QED
    BY <2>2, <2>3
<1>11. NumbersHold'
  BY <1>1 DEF NumbersHold
<1>12. BansTypeOK' /\ (\A l \in BanKinds : IsFiniteSet(kept[l]))' /\ FailuresCounted' /\ StaffPlays' /\ CutPlays'
  BY <1>1, <1>3, <1>7 DEF BanInv, BansTypeOK, FailuresCounted, StaffPlays, CutPlays
<1> QED
  BY <1>9, <1>10, <1>11, <1>12 DEF BanInv

LEMMA AskInv == BanInv /\ Ask => BanInv'
<1> SUFFICES ASSUME BanInv, Ask PROVE BanInv'
  OBVIOUS
<1>1. UNCHANGED <<now, bans, tries, online, cut, expelling, kept, shown, expelled, safe>>
  BY DEF Ask
<1>2. PICK v \in Connection, a \in Address, right \in BOOLEAN, c \in Character \ Staff :
        /\ visits[v] = Idle /\ ~IpDisabled(a) /\ ~Banished("address", a)
        /\ visits' = [visits EXCEPT ![v] = [stage |-> "asked", name |-> c, from |-> a, right |-> right]]
        /\ failures' = IF \E w \in Connection : visits[w].stage = "asked" /\ visits[w].from = a
                       THEN [failures EXCEPT ![a] = Nil] ELSE failures
  BY DEF Ask
<1>3. [stage |-> "asked", name |-> c, from |-> a, right |-> right] \in Visit
  BY DEF Visit
<1>4. visits' \in [Connection -> Visit]
  BY <1>2, <1>3 DEF BanInv, BansTypeOK
<1>5. failures' \in [Address -> Nat \cup {Nil}] /\ FailuresCounted'
  BY <1>1, <1>2 DEF BanInv, BansTypeOK, FailuresCounted
<1>6. BannedStaysOut' /\ NumbersHold' /\ BansOutlive'
  BY <1>1, ListsStay
<1>7. BansTypeOK' /\ (\A l \in BanKinds : IsFiniteSet(kept[l]))' /\ StaffPlays' /\ CutPlays'
  BY <1>1, <1>4, <1>5 DEF BanInv, BansTypeOK, StaffPlays, CutPlays
<1> QED
  BY <1>5, <1>6, <1>7 DEF BanInv

LEMMA AttemptInv == BanInv /\ Attempt => BanInv'
<1> SUFFICES ASSUME BanInv, Attempt PROVE BanInv'
  OBVIOUS
<1>1. UNCHANGED <<now, bans, online, cut, expelling, kept, shown, expelled, safe>>
  BY DEF Attempt
<1>2. PICK v \in Connection :
        LET from == visits[v].from
        IN  /\ visits[v].stage = "asked"
            /\ tries' = [tries EXCEPT ![from] = Tried(from, visits[v].right)]
            /\ visits' \in {[visits EXCEPT ![v] = Idle]} \cup
                           (IF visits[v].right THEN {[visits EXCEPT ![v].stage = "tried"]} ELSE {})
            /\ failures' = [failures EXCEPT ![from] = IF @ = Nil THEN @ ELSE IF visits[v].right THEN 0
                                                    ELSE IF tries[from].number >= MaxTries THEN 1 ELSE @ + 1]
  BY DEF Attempt
<1>3. PICK a \in Address, right \in BOOLEAN : a = visits[v].from /\ right = visits[v].right
  BY <1>2 DEF BanInv, BansTypeOK, Visit, Idle
<1>4. /\ tries \in [Address -> [number : 0 .. MaxTries, last : {Nil} \cup 0 .. MaxTime]]
      /\ failures \in [Address -> Nat \cup {Nil}] /\ visits \in [Connection -> Visit]
      /\ now \in 0 .. MaxTime /\ FailuresCounted
  BY DEF BanInv, BansTypeOK
<1>5. MaxTries \in Nat \ {0}
  BY BansAssumption
<1>6. visits' \in [Connection -> Visit]
  <2>1. [visits[v] EXCEPT !.stage = "tried"] \in Visit
    BY <1>2, <1>4 DEF Visit, Idle
  <2>2. Idle \in Visit
    BY DEF Visit
  <2>3. visits' = [visits EXCEPT ![v] = Idle] \/ visits' = [visits EXCEPT ![v].stage = "tried"]
    BY <1>2
  <2> QED
    BY <2>1, <2>2, <2>3, <1>4
<1> DEFINE number == tries[a].number
           t == Tried(a, right)
           f == IF failures[a] = Nil THEN Nil ELSE IF right THEN 0 ELSE IF number >= MaxTries THEN 1 ELSE failures[a] + 1
<1>7. number \in 0 .. MaxTries /\ (failures[a] # Nil => failures[a] \in Nat /\ failures[a] <= number)
  BY <1>4 DEF FailuresCounted
<1>8. t.last = now /\ t \in [number : 0 .. MaxTries, last : {Nil} \cup 0 .. MaxTime]
      /\ (~right => t.number = IF number >= MaxTries THEN 1 ELSE number + 1)
  <2> DEFINE before == IF number >= MaxTries THEN 0 ELSE number
             quick == tries[a].last # Nil /\ now < tries[a].last + RetryTimeout
             next == IF ~right \/ quick THEN before + 1 ELSE 0
  <2>1. t = [number |-> next, last |-> now]
    BY DEF Tried
  <2>2. before \in 0 .. MaxTries - 1
    BY <1>5, <1>7
  <2> HIDE DEF quick
  <2>3. next \in 0 .. MaxTries /\ (~right => next = before + 1)
    BY <2>2, <1>5
  <2>4. before + 1 = IF number >= MaxTries THEN 1 ELSE number + 1
    OBVIOUS
  <2> HIDE DEF next, before, t
  <2> QED
    BY <2>1, <2>3, <2>4, <1>4
<1>9. tries' = [tries EXCEPT ![a] = t]
  BY <1>2, <1>3
<1>10. failures' = [failures EXCEPT ![a] = f]
  BY <1>2, <1>3
<1>11. f \in Nat \cup {Nil} /\ (f # Nil => f <= t.number)
  <2> HIDE DEF t, number
  <2>1. CASE failures[a] = Nil
    BY <2>1
  <2>2. CASE failures[a] # Nil /\ right
    BY <2>2, <1>8
  <2>3. CASE failures[a] # Nil /\ ~right
    BY <2>3, <1>5, <1>7, <1>8
  <2> QED
    BY <2>1, <2>2, <2>3
<1> HIDE DEF t, f, number
<1>12. /\ tries' \in [Address -> [number : 0 .. MaxTries, last : {Nil} \cup 0 .. MaxTime]]
       /\ failures' \in [Address -> Nat \cup {Nil}] /\ FailuresCounted'
  BY <1>4, <1>8, <1>9, <1>10, <1>11 DEF FailuresCounted
<1>13. BannedStaysOut' /\ NumbersHold' /\ BansOutlive'
  BY <1>1, ListsStay
<1>14. BansTypeOK' /\ (\A l \in BanKinds : IsFiniteSet(kept[l]))' /\ StaffPlays' /\ CutPlays'
  BY <1>1, <1>6, <1>12 DEF BanInv, BansTypeOK, StaffPlays, CutPlays
<1> QED
  BY <1>12, <1>13, <1>14 DEF BanInv

LEMMA BanLoginInv == BanInv /\ Login => BanInv'
<1> SUFFICES ASSUME BanInv, Login PROVE BanInv'
  OBVIOUS
<1>1. UNCHANGED <<now, bans, tries, failures, expelling, kept, shown, expelled, safe>>
  BY DEF Login
<1>2. PICK v \in Connection :
        LET c == visits[v].name
        IN  /\ visits[v].stage = "tried" /\ visits' = [visits EXCEPT ![v] = Idle]
            /\ IF c \in cut
               THEN cut' = cut \ {c} /\ online' = [online EXCEPT ![c] = visits[v].from]
               ELSE /\ online' = IF online[c] = Nil /\ MayEnter(c)
                                 THEN [online EXCEPT ![c] = visits[v].from] ELSE online
                    /\ UNCHANGED cut
  BY DEF Login
<1>3. PICK c \in Character \ Staff, a \in Address : c = visits[v].name /\ a = visits[v].from
  BY <1>2 DEF BanInv, BansTypeOK, Visit, Idle
<1>4. \/ c \in cut /\ cut' = cut \ {c} /\ online' = [online EXCEPT ![c] = a]
      \/ MayEnter(c) /\ online' = [online EXCEPT ![c] = a] /\ cut' = cut
      \/ online' = online /\ cut' = cut
  BY <1>2, <1>3
<1>5. visits' \in [Connection -> Visit]
  BY <1>2 DEF BanInv, BansTypeOK, Visit
<1>6. online' \in [Character -> Address \cup {Nil}] /\ cut' \subseteq Character /\ a # Nil
  <2>1. a # Nil
    BY BansAssumption
  <2>2. online \in [Character -> Address \cup {Nil}] /\ cut \subseteq Character
    BY DEF BanInv, BansTypeOK
  <2> QED
    BY <2>1, <2>2, <1>4
<1>7. StaffPlays' /\ CutPlays'
  BY <1>4, <1>6, BansAssumption DEF BanInv, BansTypeOK, StaffPlays, CutPlays
<1>8. \A d : MayEnter(d)' <=> MayEnter(d)
  <2>1. \A k, x : Banished(k, x)' <=> Banished(k, x)
    BY <1>1 DEF Banished, InForce
  <2> QED
    BY <2>1 DEF MayEnter
<1>9. BannedStaysOut'
  <2> SUFFICES ASSUME NEW d \in expelled', ~MayEnter(d)'
               PROVE  online'[d] = Nil
    BY DEF BannedStaysOut
  <2>1. d \in expelled /\ ~MayEnter(d) /\ d \in Character
    BY <1>1, <1>8 DEF BanInv, BansTypeOK
  <2>2. online[d] = Nil /\ d \notin cut
    BY <2>1 DEF BanInv, BannedStaysOut, CutPlays
  <2> QED
    BY <2>1, <2>2, <1>4 DEF BanInv, BansTypeOK
<1>10. NumbersHold' /\ BansOutlive'
  BY <1>1 DEF BanInv, NumbersHold, BansOutlive
<1>11. BansTypeOK' /\ (\A l \in BanKinds : IsFiniteSet(kept[l]))' /\ FailuresCounted'
  BY <1>1, <1>5, <1>6 DEF BanInv, BansTypeOK, FailuresCounted
<1> QED
  BY <1>7, <1>9, <1>10, <1>11 DEF BanInv

LEMMA LoseConnectionInv == BanInv /\ LoseConnection => BanInv'
<1> SUFFICES ASSUME BanInv, LoseConnection PROVE BanInv'
  OBVIOUS
<1>1. UNCHANGED <<now, bans, tries, visits, failures, online, expelling, kept, shown, expelled, safe>>
  BY DEF LoseConnection, sessionVars
<1>2. PICK c \in Character \ (Staff \cup cut) : online[c] # Nil /\ cut' = cut \cup {c}
  BY DEF LoseConnection
<1>3. BannedStaysOut' /\ NumbersHold' /\ BansOutlive'
  BY <1>1, ListsStay
<1>4. /\ BansTypeOK' /\ (\A l \in BanKinds : IsFiniteSet(kept[l]))'
      /\ FailuresCounted' /\ StaffPlays' /\ CutPlays'
  BY <1>1, <1>2 DEF BanInv, BansTypeOK, FailuresCounted, StaffPlays, CutPlays
<1> QED
  BY <1>3, <1>4 DEF BanInv

LEMMA BanLeaveInv == BanInv /\ Leave => BanInv'
<1> SUFFICES ASSUME BanInv, Leave PROVE BanInv'
  OBVIOUS
<1>1. UNCHANGED <<now, bans, tries, visits, failures, expelling, kept, shown, expelled, safe>>
  BY DEF Leave, sessionVars
<1>2. PICK c \in Character \ Staff : Gone(c)
  BY DEF Leave
<1>3. /\ online' \in [Character -> Address \cup {Nil}] /\ cut' \subseteq Character
      /\ StaffPlays' /\ CutPlays'
      /\ online'[c] = Nil /\ \A d \in Character : online'[d] = online[d] \/ online'[d] = Nil
  BY <1>2, GoneKeeps
<1>4. expelled \subseteq Character
  BY DEF BanInv, BansTypeOK
<1>5. BannedStaysOut' /\ NumbersHold' /\ BansOutlive'
  BY <1>1, <1>3, <1>4, ListsStay
<1>6. BansTypeOK' /\ (\A l \in BanKinds : IsFiniteSet(kept[l]))' /\ FailuresCounted'
  BY <1>1, <1>3 DEF BanInv, BansTypeOK, FailuresCounted
<1> QED
  BY <1>3, <1>5, <1>6 DEF BanInv

LEMMA ListFinite ==
  ASSUME NEW L \in Seq(Banned)
  PROVE  IsFiniteSet(Range(L))
<1>1. PICK n \in Nat : n = Len(L)
  OBVIOUS
<1>2. /\ IsFiniteSet(1 .. n)
      /\ Cardinality(1 .. n) = IF 1 > n THEN 0 ELSE n - 1 + 1
  BY FS_Interval
<1>3. DOMAIN L = 1 .. n
  BY <1>1
<1>4. PICK S : S = 1 .. n
  OBVIOUS
<1>5. PICK T : T = Range(L)
  OBVIOUS
<1>6. L \in Surjection(S, T)
  BY <1>3, <1>4, <1>5 DEF Surjection, Range
<1>7. IsFiniteSet(T)
  BY ONLY <1>2, <1>4, <1>6, FS_Surjection
<1> QED
  BY <1>5, <1>7

LEMMA SaveBansInv == BanInv /\ SaveBans => BanInv'
<1> SUFFICES ASSUME BanInv, SaveBans PROVE BanInv'
  OBVIOUS
<1>1. UNCHANGED <<now, bans, tries, visits, failures, online, cut, expelling, shown, expelled>>
  BY DEF SaveBans, sessionVars
<1>2. \/ /\ kept' = [k \in BanKinds |-> {b \in Range(bans[k]) : b.until > now}]
         /\ safe' = {s \in Lasting :
                       [who |-> s.who, until |-> s.until] \in Range(bans[s.kind]) /\ s.until > now}
      \/ UNCHANGED <<kept, safe>>
  BY DEF SaveBans
<1>3. ASSUME NEW k \in BanKinds
      PROVE  Range(bans[k]) \subseteq Banned /\ IsFiniteSet(Range(bans[k]))
  <2>1. PICK L \in Seq(Banned) : L = bans[k]
    BY DEF BanInv, BansTypeOK
  <2>2. IsFiniteSet(Range(L))
    BY ListFinite
  <2>3. \A i \in DOMAIN L : L[i] \in Banned
    OBVIOUS
  <2> QED
    BY <2>1, <2>2, <2>3 DEF Range
<1>4. kept' \in [BanKinds -> SUBSET Banned] /\ \A k \in BanKinds : IsFiniteSet(kept'[k])
  <2>1. CASE UNCHANGED <<kept, safe>>
    BY <2>1 DEF BanInv, BansTypeOK
  <2>2. CASE kept' = [k \in BanKinds |-> {b \in Range(bans[k]) : b.until > now}]
    <3>1. ASSUME NEW k \in BanKinds PROVE kept'[k] \in SUBSET Banned /\ IsFiniteSet(kept'[k])
      <4>1. kept'[k] = {b \in Range(bans[k]) : b.until > now}
        BY <2>2
      <4>2. kept'[k] \subseteq Range(bans[k])
        BY <4>1
      <4> QED
        BY <4>2, <1>3, FS_Subset
    <3> QED
      BY <2>2, <3>1
  <2> QED
    BY <2>1, <2>2, <1>2
<1>5. safe' \subseteq Lasting
  BY <1>2 DEF BanInv, BansTypeOK
<1>6. BansOutlive'
  <2>1. CASE UNCHANGED <<kept, safe>>
    BY <2>1, <1>1 DEF BanInv, BansOutlive
  <2>2. CASE safe' = {s \in Lasting :
                       [who |-> s.who, until |-> s.until] \in Range(bans[s.kind]) /\ s.until > now}
    BY <2>2, <1>1 DEF BansOutlive
  <2> QED
    BY <2>1, <2>2, <1>2
<1>7. BannedStaysOut' /\ NumbersHold'
  <2>1. \A k, x : Banished(k, x)' <=> Banished(k, x)
    BY <1>1 DEF Banished, InForce
  <2> QED
    BY <2>1, <1>1 DEF BanInv, BannedStaysOut, NumbersHold, MayEnter
<1>8. BansTypeOK' /\ FailuresCounted' /\ StaffPlays' /\ CutPlays'
  BY <1>1, <1>4, <1>5 DEF BanInv, BansTypeOK, FailuresCounted, StaffPlays, CutPlays
<1> QED
  BY <1>4, <1>6, <1>7, <1>8 DEF BanInv

LEMMA RestartInv == BanInv /\ Restart => BanInv'
<1> SUFFICES ASSUME BanInv, Restart PROVE BanInv'
  OBVIOUS
<1>1. /\ bans' = [k \in BanKinds |-> LoadBans(kept[k])]
      /\ tries' = [a \in Address |-> [number |-> 0, last |-> Nil]] /\ failures' = [a \in Address |-> 0]
      /\ visits' = [c \in Connection |-> Idle]
      /\ online' = [c \in Character |-> IF c \in Staff THEN online[c] ELSE Nil]
      /\ cut' = {} /\ expelling' = Nil /\ shown' = Nil
      /\ safe' = {s \in safe : \E b \in kept[s.kind] : b.who = s.who /\ b.until = s.until}
      /\ UNCHANGED <<now, kept, expelled>>
  BY DEF Restart
<1>2. /\ kept \in [BanKinds -> SUBSET Banned] /\ safe \subseteq Lasting /\ now \in 0 .. MaxTime
      /\ \A k \in BanKinds : IsFiniteSet(kept[k])
      /\ online \in [Character -> Address \cup {Nil}] /\ expelled \subseteq Character \ Staff
      /\ StaffPlays
  BY DEF BanInv, BansTypeOK
<1>3. ASSUME NEW k \in BanKinds
      PROVE  bans'[k] \in Seq(Banned) /\ Range(bans'[k]) = {b \in kept[k] : b.until > now /\ b.until # Forever}
  <2>1. PICK S \in SUBSET Banned : S = {b \in kept[k] : b.until > now /\ b.until # Forever}
    BY <1>2
  <2>2. kept[k] \in SUBSET Banned /\ IsFiniteSet(kept[k]) /\ S \subseteq kept[k]
    BY <1>2, <2>1
  <2>3. IsFiniteSet(S)
    BY <2>2, FS_Subset
  <2>4. SetToSeq(S) \in Seq(Banned) /\ Range(SetToSeq(S)) = S
    BY <2>3, RowsListed
  <2>5. bans'[k] = SetToSeq(S)
    BY <1>1, <2>1 DEF LoadBans
  <2> QED
    BY <2>1, <2>4, <2>5
<1>4. bans' \in [BanKinds -> Seq(Banned)]
  BY <1>1, <1>3
<1>5. BansOutlive'
  <2> SUFFICES ASSUME NEW s \in safe', s.until > now
               PROVE  \E b \in Range(bans'[s.kind]) : b.who = s.who /\ b.until = s.until
    BY <1>1 DEF BansOutlive
  <2>1. s \in safe /\ \E b \in kept[s.kind] : b.who = s.who /\ b.until = s.until
    BY <1>1
  <2>2. s.kind \in BanKinds /\ s.until \in 0 .. MaxTime + Length
    BY <2>1, <1>2 DEF Lasting
  <2>3. s.until # Forever
    BY <2>2, BansAssumption
  <2> QED
    BY <2>1, <2>2, <2>3, <1>3
<1>6. BannedStaysOut' /\ StaffPlays' /\ CutPlays' /\ NumbersHold'
  BY <1>1, <1>2, BansAssumption DEF BannedStaysOut, StaffPlays, CutPlays, NumbersHold
<1>7. tries' \in [Address -> [number : 0 .. MaxTries, last : {Nil} \cup 0 .. MaxTime]]
  BY <1>1, BansAssumption
<1>8. visits' \in [Connection -> Visit] /\ failures' \in [Address -> Nat \cup {Nil}] /\ FailuresCounted'
  BY <1>1 DEF Visit, FailuresCounted
<1>9. BansTypeOK' /\ (\A l \in BanKinds : IsFiniteSet(kept[l]))'
  BY <1>1, <1>2, <1>4, <1>7, <1>8 DEF BansTypeOK
<1> QED
  BY <1>5, <1>6, <1>8, <1>9 DEF BanInv

LEMMA TickInv == BanInv /\ Tick => BanInv'
<1> SUFFICES ASSUME BanInv, Tick PROVE BanInv'
  OBVIOUS
<1>1. now < MaxTime /\ now' = now + 1
  BY DEF Tick
<1>2. UNCHANGED <<bans, tries, visits, failures, online, cut, expelling, kept, shown, expelled, safe>>
  BY DEF Tick, sessionVars
<1>3. /\ now \in 0 .. MaxTime /\ bans \in [BanKinds -> Seq(Banned)] /\ safe \subseteq Lasting
      /\ MaxTime \in Nat /\ BannedStaysOut /\ BansOutlive
  BY BansAssumption DEF BanInv, BansTypeOK
<1>4. ASSUME NEW k \in BanKinds, NEW x
      PROVE  Banished(k, x)' => Banished(k, x)
  <2>1. \A b \in Range(bans[k]) : b.until \in Nat
    <3>1. PICK L \in Seq(Banned) : L = bans[k]
      BY <1>3
    <3>2. \A i \in DOMAIN L : L[i] \in Banned
      OBVIOUS
    <3> QED
      BY <3>1, <3>2 DEF Range, Banned
  <2>2. \A b \in Range(bans[k]) : InForce(b)' => InForce(b)
    BY <2>1, <1>1, <1>3 DEF InForce
  <2> QED
    BY <2>2, <1>2 DEF Banished
<1>5. BannedStaysOut'
  BY <1>2, <1>3, <1>4 DEF BannedStaysOut, MayEnter, BanKinds
<1>6. BansOutlive'
  BY <1>1, <1>2, <1>3 DEF BansOutlive, Lasting
<1>7. /\ BansTypeOK' /\ (\A l \in BanKinds : IsFiniteSet(kept[l]))'
      /\ FailuresCounted' /\ StaffPlays' /\ CutPlays' /\ NumbersHold'
  BY <1>1, <1>2, <1>3 DEF BanInv, BansTypeOK, FailuresCounted, StaffPlays, CutPlays, NumbersHold
<1> QED
  BY <1>5, <1>6, <1>7 DEF BanInv

LEMMA BanInvNext == BanInv /\ [BanNext]_banVars => BanInv'
<1>1. BanInv /\ UNCHANGED banVars => BanInv'
  <2> SUFFICES ASSUME BanInv, UNCHANGED banVars PROVE BanInv'
    OBVIOUS
  <2>1. UNCHANGED <<now, bans, tries, visits, online, cut, expelling, kept, shown, expelled, safe, failures>>
    BY DEF banVars
  <2>2. BannedStaysOut' /\ NumbersHold' /\ BansOutlive'
    BY <2>1, ListsStay
  <2> QED
    BY <2>1, <2>2 DEF BanInv, BansTypeOK, FailuresCounted, StaffPlays, CutPlays
<1> QED
  BY <1>1, BanAndKickInv, ParseBanPlayerInv, BanPlayerKicksInv, BansManagerAddInv, BansManagerShowInv,
     BansManagerRemoveInv, AskInv, AttemptInv, BanLoginInv, LoseConnectionInv, BanLeaveInv, SaveBansInv,
     RestartInv, TickInv DEF BanNext

LEMMA BansInductive == BanSpec => []BanInv
BY BanInvInit, BanInvNext, PTL DEF BanSpec

\* Who was banned and sent away stays out while the ban is in force, numbers mean the bans that
\* were shown, nobody tries more often than he may, and saved bans outlive the server
\* (ban.cpp:52, 361, otserv.cpp:402, commands.cpp:1203).
THEOREM BansHoldAlways == BanSpec => []BansHold
<1>1. BanInv => BansHold
  <2> SUFFICES ASSUME BanInv PROVE TriesCounted
    BY DEF BanInv, BansHold
  <2> SUFFICES ASSUME NEW a \in Address, failures[a] # Nil
               PROVE  failures[a] <= MaxTries
    BY DEF TriesCounted
  <2>1. failures[a] \in Nat /\ tries[a].number \in 0 .. MaxTries /\ failures[a] <= tries[a].number
    BY DEF BanInv, BansTypeOK, FailuresCounted
  <2> QED
    BY <2>1, BansAssumption
<1> QED
  BY <1>1, BansInductive, PTL

\* The variables of the bans keep their types; staff is never about to be kicked.
THEOREM BansTyped == BanSpec => []BansTypeOK
<1>1. BanInv => BansTypeOK
  BY DEF BanInv
<1> QED
  BY <1>1, BansInductive, PTL
=============================================================================
