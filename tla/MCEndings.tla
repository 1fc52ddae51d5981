------------------------------ MODULE MCEndings -------------------------------
(***************************************************************************)
(* How sessions, the server and mutes come to an end, for TLC: instances   *)
(* of Session, Orders, Admin and Talk as parts that share no state, under  *)
(* the fairness of each.                                                   *)
(***************************************************************************)
EXTENDS Session, Admin, Talk, TLC

CONSTANTS t1, t2, a, ann, tut, god, c1, c2

VARIABLES part, \* the part that goes on
          voice \* who speaks in it

Ranks == [p \in {ann, tut, god} |-> IF p = ann THEN 0 ELSE IF p = tut THEN 1 ELSE 5]
Commands == {"reload", "close", "open", "kick", "save", "shutdown", "max", "skill", "online"}
FromGod == {"reload", "close", "open", "skill"}
FromGM == {"kick", "save", "shutdown"}
AskedOf == [c \in Commands |-> IF c \in FromGod THEN 5 ELSE IF c \in FromGM THEN 3 ELSE IF c = "max" THEN 2 ELSE 0]
Places == [c \in Commands |-> IF c \in FromGod THEN 1 ELSE 2]
Signs == [c \in Commands |-> IF c = "online" THEN "!" ELSE "/"]

-----------------------------------------------------------------------------
\* Commands without a remote control, under one file or as it is edited; two remote controls
\* that come, log in and go; and one that gives orders beside one player.
Alone == OrdersNext /\ UNCHANGED <<adminVars, file>>
Edited == OrdersNext /\ UNCHANGED <<adminVars, expelled, counts, limit>> /\ inside' \subseteq {tut, god}
Gates == /\ Refused \/ Compares \/ Adds \/ Ends \/ Removes \/ HangsUp \/ Chats \/ Encrypts \/ LogsIn
         /\ links'[c2].tries <= 1
Remote == /\ AdminNext /\ links'[c2] = NewLink
          /\ UNCHANGED <<file, expelled, counts>> /\ inside' \subseteq {tut} /\ links'[c1].tries = 0

Speaking == TalkNext /\ \A s \in Speaker \ {voice} : talk'[s] = talk[s]

Parts == {"sessions", "orders", "files", "gates", "remote", "talk"}
endVars == <<part, voice, vars, orderVars, adminVars, talkVars>>

EndingsInit ==
    /\ part \in Parts /\ voice \in Speaker
    /\ part # "talk" => voice = ann
    /\ IF part = "sessions" THEN TRUE ELSE name = [t \in Conn |-> a]
    /\ Init
    /\ OrdersInit /\ AdminInit /\ (part \in {"sessions", "orders", "files", "talk"} => needs = {})
    /\ part = "remote" => needs = {"login", "encryption"}
    /\ TalkInit

EndingsNext ==
    /\ UNCHANGED <<part, voice>>
    /\ \/ part = "sessions" /\ Next /\ UNCHANGED <<orderVars, adminVars, talkVars>>
       \/ part = "orders" /\ Alone /\ UNCHANGED <<vars, talkVars>>
       \/ part = "files" /\ Edited /\ UNCHANGED <<vars, talkVars>>
       \/ part = "gates" /\ Gates /\ UNCHANGED <<vars, talkVars>>
       \/ part = "remote" /\ Remote /\ UNCHANGED <<vars, talkVars>>
       \/ part = "talk" /\ Speaking /\ UNCHANGED <<vars, orderVars, adminVars>>

\* The threads of the connections and the timer of the shutdowns keep going.
EndingsSpec == EndingsInit /\ [][EndingsNext]_endVars /\ Fairness /\ OrdersFair

-----------------------------------------------------------------------------
\* Every variable of the parts has its type.
EndingsTypeOK == TypeOK /\ OrdersTypeOK /\ AdminTypeOK /\ TalkTypeOK

\* Lost sessions are resolved, removed players freed, and announced shutdowns come
\* (protocol79.cpp:189, game.cpp:3591).
EverythingEnds == SessionsEnd /\ ShutdownComes
=============================================================================
