--------------------------------- MODULE Admin ----------------------------------
(***************************************************************************)
(* The protocol of the remote control (admin.cpp): connections, encryption *)
(* and login, and the orders that act on the server of Orders.  Every      *)
(* connection is a thread of its own; the number of connections is kept    *)
(* without a lock, and a player that is looked up is kicked later.         *)
(***************************************************************************)
EXTENDS Orders

CONSTANTS MaxConnections,   \* of admin.xml; every connection of Admin is used once
          NoPerson

ASSUME AdminAssumption == MaxConnections \in Nat \ {0} /\ NoPerson \notin Person

VARIABLES
    needs,     \* what admin.xml requires: "login", "encryption"
    links,     \* the connections: m_state, m_loginTries and what they are about
    current,   \* m_currrentConnections
    raced,     \* history: two changed the number at once
    obeyed     \* history: connections whose orders were obeyed

adminVars == <<needs, links, current, raced, obeyed>>

NewLink == [at |-> "none", seen |-> 0, tries |-> 0, aim |-> NoPerson, todo |-> {},
            knows |-> FALSE, hidden |-> FALSE]

AdminInit ==
    /\ needs \in SUBSET {"login", "encryption"}
    /\ links = [c \in Admin |-> NewLink]
    /\ current = 0 /\ raced = FALSE /\ obeyed = {}

States == {"none", "adding", "ENCRYPTION_NO_SET", "NO_LOGGED_IN", "LOGGED_IN", "aiming", "reloading", "saving",
           "ending", "removing", "gone"}
Talking == {"ENCRYPTION_NO_SET", "NO_LOGGED_IN", "LOGGED_IN"}
Obeying == {"aiming", "reloading", "saving"}

AdminTypeOK ==
    /\ needs \subseteq {"login", "encryption"}
    /\ links \in [Admin -> [at : States, seen : Nat, tries : 0 .. 4, aim : Person \cup {NoPerson},
                             todo : SUBSET Person, knows : BOOLEAN, hidden : BOOLEAN]]
    /\ current \in Nat /\ raced \in BOOLEAN /\ obeyed \subseteq Admin

Goes(c, place) == links' = [links EXCEPT ![c].at = place]

\* Who leaves is aimed at no more, nor saved: a session that follows is another object, and
\* the last in the list that saveServer walks.
Forget(l) == [c \in Admin |->
    [l[c] EXCEPT !.aim = IF @ \in inside' THEN @ ELSE NoPerson,
                 !.todo = IF l[c].at = "saving" THEN (@ \cap inside') \cup (inside' \ inside) ELSE {}]]

-----------------------------------------------------------------------------
(* The number of connections.                                              *)

\* receiveLoop, when allowIP refuses the address.
Refused ==
    /\ \E c \in Admin : links[c].at = "none" /\ Goes(c, "gone")
    /\ UNCHANGED <<needs, current, raced, obeyed, orderVars>>

\* addConnection: the number is compared, and what was read or what is there is put up by one.
Compares ==
    /\ \E c \in Admin :
        /\ links[c].at = "none"
        /\ IF current >= MaxConnections THEN Goes(c, "gone")
           ELSE links' = [links EXCEPT ![c].at = "adding", ![c].seen = current]
    /\ UNCHANGED <<needs, current, raced, obeyed, orderVars>>

Adds ==
    /\ \E c \in Admin :
        /\ links[c].at = "adding" /\ Goes(c, "ENCRYPTION_NO_SET")
        /\ current' \in {links[c].seen + 1, current + 1}
        /\ raced' = (raced \/ (\E d \in Admin \ {c} : links[d].at \in {"adding", "removing"}) \/ current # links[c].seen)
    /\ UNCHANGED <<needs, obeyed, orderVars>>

\* removeConnection.
Ends ==
    /\ \E c \in Admin :
        /\ links[c].at = "ending"
        /\ links' = [links EXCEPT ![c].at = "removing", ![c].seen = current]
    /\ UNCHANGED <<needs, current, raced, obeyed, orderVars>>

Removes ==
    /\ \E c \in Admin :
        /\ links[c].at = "removing" /\ Goes(c, "gone")
        /\ current' \in {n - 1 : n \in {links[c].seen, current} \ {0}} \cup ({links[c].seen, current} \cap {0})
        /\ raced' = (raced \/ (\E d \in Admin \ {c} : links[d].at \in {"adding", "removing"}) \/ current # links[c].seen)
    /\ UNCHANGED <<needs, obeyed, orderVars>>

-----------------------------------------------------------------------------
(* parsePacket.                                                            *)

\* The state a message finds: what is not required is passed over.
Found(c) ==
    LET s == IF links[c].at = "ENCRYPTION_NO_SET" /\ "encryption" \notin needs THEN "NO_LOGGED_IN" ELSE links[c].at
    IN  IF s = "NO_LOGGED_IN" /\ "login" \notin needs THEN "LOGGED_IN" ELSE s

\* Mutation: an encrypted connection is taken for one that has logged in.
TrustsKeys(c) == links' = [links EXCEPT ![c].at = "LOGGED_IN", ![c].hidden = TRUE]

\* AP_MSG_ENCRYPTION with a key the server can read.
TakesKey(c) == links' = [links EXCEPT ![c].at = "NO_LOGGED_IN", ![c].hidden = TRUE]

\* The connection is closed, waits too long, or has tried too often.
HangsUp ==
    /\ \E c \in Admin : links[c].at \in Talking /\ Goes(c, "ending")
    /\ UNCHANGED <<needs, current, raced, obeyed, orderVars>>

\* Whatever changes nothing: a ping, a message out of place, a key that cannot be read.
Chats ==
    /\ \E c \in Admin :
        /\ links[c].at \in Talking /\ Goes(c, Found(c))
        /\ Found(c) = "NO_LOGGED_IN" => links[c].tries <= 3
    /\ UNCHANGED <<needs, current, raced, obeyed, orderVars>>

Encrypts ==
    /\ \E c \in Admin : Found(c) = "ENCRYPTION_NO_SET" /\ links[c].at \in Talking /\ TakesKey(c)
    /\ UNCHANGED <<needs, current, raced, obeyed, orderVars>>

\* passwordMatch answers.
PasswordMatch(c, right) ==
    links' = [links EXCEPT ![c].at = IF right THEN "LOGGED_IN" ELSE "NO_LOGGED_IN",
                           ![c].knows = right, ![c].tries = IF right THEN @ ELSE @ + 1]

LogsIn ==
    /\ \E c \in Admin :
        /\ links[c].at \in Talking /\ Found(c) = "NO_LOGGED_IN"
        /\ IF links[c].tries > 3 THEN Goes(c, "ending") ELSE \E right \in BOOLEAN : PasswordMatch(c, right)
    /\ UNCHANGED <<needs, current, raced, obeyed, orderVars>>

\* AP_MSG_COMMAND.
Obeys(c) == /\ links[c].at \in Talking /\ Found(c) = "LOGGED_IN" /\ Running
            /\ obeyed' = obeyed \cup {c}
            /\ UNCHANGED <<needs, current, raced>>

AdminCloses ==
    /\ Free /\ CloseServer(Enter)
    /\ \E c \in Admin : Obeys(c) /\ links' = Forget([links EXCEPT ![c].at = "LOGGED_IN"])
    /\ UNCHANGED <<listVars, limit, counts, forgotten, breaches, expelled>>

\* CMD_SHUTDOWN_SERVER, without a save.
AdminShutsDown ==
    /\ \E c \in Admin : Obeys(c) /\ Goes(c, "ending")
    /\ state' = "shutdown"
    /\ UNCHANGED <<listVars, limit, inside, changed, counts, forgotten, breaches, expelled>>

\* CMD_RELOAD_COMMANDS, without gameLock: players go on, and so does the next reload.
AdminReloads ==
    /\ \E c \in Admin : Obeys(c) /\ Goes(c, "reloading") /\ BeginReload(c)
    /\ UNCHANGED <<serverVars, breaches, expelled>>

AdminReloadsOn ==
    /\ \E c \in Admin :
        /\ links[c].at = "reloading" /\ ReloadsOn(c)
        /\ Goes(c, IF Reloading(c)' THEN "reloading" ELSE "LOGGED_IN")
    /\ UNCHANGED <<needs, current, raced, obeyed>>

\* CMD_SERVER_SAVE, without gameLock: one player after the other is saved.
AdminSaves ==
    /\ \E c \in Admin :
        Obeys(c) /\ links' = [links EXCEPT ![c].at = "saving", ![c].todo = inside]
    /\ UNCHANGED orderVars

AdminSavesOn ==
    /\ Running /\ \E c \in Admin :
        /\ links[c].at = "saving"
        /\ \/ \E p \in links[c].todo :
                changed' = changed \ {p} /\ links' = [links EXCEPT ![c].todo = @ \ {p}]
           \/ links[c].todo = {} /\ Goes(c, "LOGGED_IN") /\ UNCHANGED changed
    /\ UNCHANGED <<needs, current, raced, obeyed, listVars, state, limit, inside, counts, forgotten, breaches, expelled>>

\* CMD_PLAYER_LIMIT: nought as well.
AdminLimits ==
    /\ \E c \in Admin : Obeys(c) /\ Goes(c, "LOGGED_IN")
    /\ limit' \in Limits
    /\ UNCHANGED <<listVars, state, inside, changed, counts, forgotten, breaches, expelled>>

\* CMD_KICK and the bans: the player is looked up under gameLock and kicked later.
AdminAims ==
    /\ Free /\ \E c \in Admin, p \in inside :
        Obeys(c) /\ links' = [links EXCEPT ![c].at = "aiming", ![c].aim = p]
    /\ UNCHANGED orderVars

AdminKicks ==
    /\ Running /\ \E c \in Admin :
        /\ links[c].at = "aiming"
        /\ Without({links[c].aim})
        /\ links' = Forget([links EXCEPT ![c].at = "LOGGED_IN", ![c].aim = NoPerson])
    /\ UNCHANGED <<needs, current, raced, obeyed, listVars, state, limit, counts, forgotten, breaches, expelled>>

AdminNext ==
    \/ OrdersNext /\ links' = Forget(links) /\ UNCHANGED <<needs, current, raced, obeyed>>
    \/ Refused \/ Compares \/ Adds \/ Ends \/ Removes \/ HangsUp \/ Chats \/ Encrypts \/ LogsIn
    \/ AdminCloses \/ AdminShutsDown \/ AdminReloads \/ AdminReloadsOn \/ AdminSaves \/ AdminSavesOn
    \/ AdminLimits \/ AdminAims \/ AdminKicks

AdminSpec == OrdersInit /\ AdminInit /\ [][AdminNext]_<<orderVars, adminVars>>

-----------------------------------------------------------------------------

\* Orders are obeyed only of those who gave the password and a key, where these are required
\* (admin.cpp:181).
OnlyAdmitted ==
    \A c \in obeyed : /\ "login" \in needs => links[c].knows
                      /\ "encryption" \in needs => links[c].hidden

\* The number of connections is right, and kept within its limit, unless two threads changed it
\* at once (admin.cpp:845).
Inside == {c \in Admin : links[c].at \in Talking \cup Obeying \cup {"ending", "removing"}}
CountedRight == ~raced => current = Cardinality(Inside) /\ current <= MaxConnections

\* What players have done is lost at the end only when the administrator ends the server
\* (admin.cpp:411).
EndsSaved == forgotten # {} => obeyed # {}

AdminHold == OnlyAdmitted /\ CountedRight /\ EndsSaved

\* Commands and the remote control do what they are allowed to (commands.cpp:269, admin.cpp:181).
OrdersKept == OrdersHold /\ AdminHold
=============================================================================
