-------------------------------- MODULE Npcs --------------------------------
(***************************************************************************)
(* A shopkeeper: how an Npc is read and takes its handlers from a script   *)
(* (npc.cpp), how it turns to a customer and walks about when it has none,  *)
(* and how its script keeps one conversation with several customers        *)
(* (data/npc/scripts/lib/npcsystem): whom it talks to, who waits, and what *)
(* a word means after the words before it.                                 *)
(* Places are in a row; what is said is the word that matters in it.       *)
(***************************************************************************)
EXTENDS Integers, SequencesExt

CONSTANTS Customer,
          Ware,          \* what the shop sells
          Script,        \* files of scripts: [defines, sound]
          LastPlace, Home,
          Radius,        \* masterRadius
          TalkRadius,
          MaxCount,      \* bound on the amount asked for
          Noone          \* nobody, nothing, no script

Handlers == {"onCreatureAppear", "onCreatureDisappear", "onCreatureSay", "onThink"}
Places == 0 .. LastPlace
Away == -1
\* The keywords under the root; "ride" is the one destination.
Roots == Ware \cup {"hi", "bye", "ride", "bring"}
Nodes == Roots \cup {"root", "yes", "no", "aboard", "stay"}

ASSUME NpcAssumption ==
    /\ {LastPlace, Radius, TalkRadius, MaxCount} \subseteq Nat /\ Home \in Places
    /\ Noone \notin Customer \cup Ware
    /\ Ware \cap {"root", "hi", "bye", "ride", "bring", "yes", "no", "aboard", "stay"} = {}
    /\ \A s \in Script : s.defines \subseteq Handlers /\ s.sound \in BOOLEAN

VARIABLES
    shop,    \* where the npc is, Away before it is placed
    handles, \* NpcScript: the script each handler is from
    stray,   \* functions that a script left in the global table
    broken,  \* history: a script failed after it had defined functions
    at,      \* where the customers are, Away when not in the game
    focus,   \* NpcHandler.focus
    facing,  \* Npc::focusCreature
    walks,   \* eventWalk is set
    line,    \* Queue.customers
    node,    \* KeywordHandler.lastNode
    under,   \* the parent of the nodes "yes" and "no", which the wares share
    amount,  \* ShopModule.amount
    asked,   \* history: the offer the focus was asked to confirm
    mixed,   \* history: others spoke since then, or the offer was made to another
    passed,  \* history: the npc let its customer go without looking at the line
    missold  \* history: something was sold that was not offered

custVars == <<focus, line, passed>>
wordVars == <<node, under, amount, asked, mixed>>
loadVars == <<handles, stray, broken>>
npcVars == <<shop, loadVars, at, facing, walks, wordVars, custVars, missold>>

NpcInit ==
    /\ shop = Away /\ handles = [h \in Handlers |-> Noone] /\ stray = [h \in Handlers |-> Noone]
    /\ broken = FALSE
    /\ at \in [Customer -> {LastPlace, Away}]
    /\ focus = Noone /\ facing = Noone /\ walks = FALSE /\ line = <<>>
    /\ node = "root" /\ under = Noone /\ amount = 0 /\ asked = Noone /\ mixed = FALSE
    /\ passed = FALSE /\ missold = FALSE

NpcTypeOK ==
    /\ shop \in Places \cup {Away} /\ at \in [Customer -> Places \cup {Away}]
    /\ focus \in Customer \cup {Noone} /\ facing \in Customer \cup {Noone} /\ walks \in BOOLEAN
    /\ \A i \in DOMAIN line : line[i] \in Customer
    /\ amount \in 0 .. MaxCount
    /\ node \in Nodes /\ under \in Ware \cup {Noone}
    /\ missold \in BOOLEAN

-----------------------------------------------------------------------------
(* Reading the npc.                                                        *)

\* LuaScriptInterface::getEvent: the function that is global now, and it is global no longer.
OwnOrStray(s) == [h \in Handlers |-> IF h \in s.defines THEN s ELSE stray[h]]

\* Npc::Npc and NpcScript, called by Commands::placeNpc and the spawns.  A script that fails
\* leaves what it has defined; an npc without handlers is not placed.
LoadNpc ==
    /\ shop = Away
    /\ \E s \in Script :
        IF s.sound
        THEN /\ handles' = OwnOrStray(s) /\ stray' = [h \in Handlers |-> Noone] /\ shop' = Home
             \* Npc::onCreatureAppear of itself.
             /\ walks' = TRUE
             /\ UNCHANGED broken
        ELSE /\ stray' = OwnOrStray(s) /\ broken' = (broken \/ s.defines # {})
             /\ UNCHANGED <<handles, shop, walks>>
    /\ UNCHANGED <<at, facing, wordVars, custVars, missold>>

Handled(h) == shop # Away /\ handles[h] # Noone

-----------------------------------------------------------------------------
(* Whom it talks to.                                                       *)

Distance(c) == IF at[c] > shop THEN at[c] - shop ELSE shop - at[c]
InRange(c) == at[c] # Away /\ Distance(c) <= TalkRadius

\* Npc::setCreatureFocus, with the creature that the number in the script stands for.
SetCreatureFocus(c) ==
    IF c # Noone THEN facing' = c /\ walks' = FALSE
    ELSE facing' = Noone /\ walks' = TRUE

\* NpcHandler.changeFocus: an offer that was made to another is not taken back.
ChangeFocus(c) == focus' = c /\ SetCreatureFocus(c)

\* Queue.greetNext: who cannot be greeted any more loses the place.
Greetable == {i \in DOMAIN line : InRange(line[i])}
Next1 == CHOOSE i \in Greetable : \A k \in Greetable : i <= k

\* unGreet and onWalkAway.
NextPlease ==
    /\ mixed' = TRUE /\ passed' = FALSE
    /\ IF Greetable # {}
       THEN /\ ChangeFocus(line[Next1])
            /\ line' = SubSeq(line, Next1 + 1, Len(line))
       ELSE ChangeFocus(Noone) /\ line' = <<>>

\* NpcHandler.onGreet.
OnGreet(c) ==
    \/ focus = Noone /\ ChangeFocus(c) /\ mixed' = TRUE /\ UNCHANGED <<line, passed>>
    \/ focus = c /\ UNCHANGED <<focus, facing, walks, line, mixed, passed>>
    \/ /\ focus \notin {Noone, c}
       /\ line' = IF c \in Range(line) THEN line ELSE Append(line, c)
       /\ mixed' = TRUE
       /\ UNCHANGED <<focus, facing, walks, passed>>

-----------------------------------------------------------------------------
(* What a word means.                                                      *)

Children(n) ==
    CASE n = "root" -> Roots [] n \in Ware -> {"yes", "no"} [] n = "ride" -> {"aboard", "stay"}
      [] OTHER -> {}

Parent(n) ==
    CASE n \in Roots -> "root" [] n \in {"yes", "no"} -> under [] n \in {"aboard", "stay"} -> "ride"
      [] OTHER -> Noone

\* KeywordHandler.processMessage: the children of the last node, of its parent and of the root.
Heard(n) == Children(node) \cup (IF Parent(node) # Noone THEN Children(Parent(node)) ELSE {}) \cup Roots

\* Mutation: the parent of a node that several share is not set again.
AboveFirst(n) == IF under = Noone THEN node ELSE under

\* The ware that is the parent when n is found: that of the level where it was found.
Above(n) == IF node \in Ware THEN node ELSE Parent(node)

\* The word is taken for n, whoever says it.
TakenFor(n) ==
    /\ n \in Heard(n)
    /\ node' = n
    /\ under' = IF n \in {"yes", "no"} THEN Above(n) ELSE under

\* NpcHandler.resetNpc.
ResetNpc == node' = "root" /\ amount' = 0 /\ asked' = Noone

Keeps == UNCHANGED <<focus, facing, walks, line, passed>>

\* Words of somebody else than the focus move the conversation on and are not answered.
Overheard(c, n) ==
    /\ c # focus /\ n \notin {"hi", "bring"} /\ TakenFor(n)
    /\ mixed' = TRUE
    /\ UNCHANGED <<at, focus, facing, walks, line, passed, amount, asked, missold>>

\* FocusModule.onGreet: an answer to anybody counts for the one who is talked to.
Greeting(c) ==
    /\ TakenFor("hi") /\ OnGreet(c)
    /\ UNCHANGED <<at, amount, asked, missold>>

\* FocusModule.onFarewell: the keyword stays the last one.
Farewell(c) ==
    /\ c = focus /\ TakenFor("bye") /\ NextPlease
    /\ UNCHANGED <<at, amount, asked, missold>>

\* ShopModule.tradeItem.
TradeItem(c, w) ==
    /\ c = focus /\ TakenFor(w)
    /\ \E n \in 1 .. MaxCount : amount' = n /\ asked' = <<w, n>>
    /\ mixed' = FALSE
    /\ UNCHANGED <<at, focus, facing, walks, line, passed, missold>>

\* ShopModule.onConfirm, with or without the money.
ConfirmTrade(c) ==
    /\ c = focus /\ "yes" \in Heard("yes")
    /\ missold' = (missold \/ (asked # <<Above("yes"), amount>> /\ ~mixed))
    /\ under' = Above("yes") /\ ResetNpc
    /\ UNCHANGED <<at, focus, facing, walks, line, passed, mixed>>

\* ShopModule.onDecline and TravelModule.onDecline.
Decline(c, n) ==
    /\ c = focus /\ n \in Heard(n)
    /\ under' = IF n = "no" THEN Above(n) ELSE under
    /\ ResetNpc
    /\ UNCHANGED <<at, focus, facing, walks, line, passed, mixed, missold>>

\* TravelModule.travel.
Travel(c) ==
    /\ c = focus /\ TakenFor("ride") /\ mixed' = FALSE /\ asked' = Noone
    /\ UNCHANGED <<at, focus, facing, walks, line, passed, amount, missold>>

\* TravelModule.onConfirm: who pays is let go, and nobody of the line is greeted.
ConfirmTravel(c) ==
    /\ c = focus /\ "aboard" \in Heard("aboard")
    /\ ResetNpc
    /\ \/ at' = [at EXCEPT ![c] = Away] /\ ChangeFocus(Noone) /\ passed' = TRUE /\ mixed' = TRUE
       \/ UNCHANGED <<at, focus, facing, walks, passed, mixed>>
    /\ UNCHANGED <<line, under, missold>>

\* TravelModule.bringMeTo: only for those who are not talked to.
BringMeTo(c) ==
    /\ c # focus /\ TakenFor("bring") /\ mixed' = TRUE
    /\ \/ at' = [at EXCEPT ![c] = Away]
       \/ UNCHANGED at
    /\ Keeps /\ UNCHANGED <<amount, asked, missold>>

\* Npc::onCreatureSay and NpcHandler.onCreatureSay.
OnCreatureSay ==
    /\ Handled("onCreatureSay")
    /\ \E c \in Customer :
        /\ InRange(c)
        /\ \/ Greeting(c) \/ Farewell(c) \/ ConfirmTrade(c) \/ Travel(c) \/ ConfirmTravel(c) \/ BringMeTo(c)
           \/ \E w \in Ware : TradeItem(c, w)
           \/ \E n \in {"no", "stay"} : Decline(c, n)
           \/ \E n \in Nodes \ {"root"} : Overheard(c, n)
    /\ UNCHANGED <<shop, loadVars>>

-----------------------------------------------------------------------------
(* Time, steps, and customers that come and go.                            *)

\* Npc::onThink and NpcHandler.onThink: the focus is let go when it is out of range, and at any
\* time for having been idle; what anybody says and is answered puts that off.
OnThink ==
    /\ shop # Away
    /\ \/ (~Handled("onThink") \/ focus = Noone) /\ UNCHANGED <<custVars, facing, walks, mixed>>
       \/ /\ Handled("onThink") /\ focus # Noone
          /\ \/ NextPlease
             \/ InRange(focus) /\ SetCreatureFocus(focus) /\ UNCHANGED <<custVars, mixed>>
    /\ UNCHANGED <<shop, loadVars, at, node, under, amount, asked, missold>>

\* Npc::canWalkTo.
CanWalkTo(p) == p \in Places /\ p - Home <= Radius /\ Home - p <= Radius /\ \A c \in Customer : at[c] # p

\* Npc::getNextStep and getRandomStep.
RandomStep ==
    /\ shop # Away /\ walks /\ facing = Noone
    /\ \E p \in {shop - 1, shop + 1} : CanWalkTo(p) /\ shop' = p
    /\ UNCHANGED <<loadVars, at, facing, walks, wordVars, custVars, missold>>

CustomerWalks ==
    /\ \E c \in Customer, p \in Places :
        /\ at[c] # Away /\ p - at[c] \in {-1, 1} /\ p # shop
        /\ at' = [at EXCEPT ![c] = p]
    /\ UNCHANGED <<shop, loadVars, facing, walks, wordVars, custVars, missold>>

CustomerComes ==
    /\ \E c \in Customer : at[c] = Away /\ at' = [at EXCEPT ![c] = LastPlace]
    /\ UNCHANGED <<shop, loadVars, facing, walks, wordVars, custVars, missold>>

\* Npc::onCreatureDisappear and NpcHandler.onCreatureDisappear.  Who comes back has another
\* number, which nothing here stands for.
CustomerLeaves ==
    /\ \E c \in Customer :
        /\ at[c] # Away /\ at' = [at EXCEPT ![c] = Away]
        /\ IF Handled("onCreatureDisappear") /\ focus = c
           THEN NextPlease
           ELSE UNCHANGED <<custVars, facing, walks, mixed>>
    /\ UNCHANGED <<shop, loadVars, node, under, amount, asked, missold>>

NpcNext ==
    \/ LoadNpc \/ OnCreatureSay \/ OnThink \/ RandomStep \/ CustomerWalks \/ CustomerComes \/ CustomerLeaves

NpcSpec == NpcInit /\ [][NpcNext]_npcVars

-----------------------------------------------------------------------------

\* An npc looks at whom it talks to or at nobody, and it walks about just when it looks at
\* nobody: no conversation leaves it rooted to the spot (npc.cpp:411).
NeverRooted ==
    shop # Away =>
        /\ facing \in {focus, Noone}
        /\ walks <=> facing = Noone

\* Nobody waits twice, nobody waits while he is served, and the npc is not free while somebody
\* waits, but after a customer who travelled (npchandler.lua:299, modules.lua:338).
LineKept ==
    /\ \A i, k \in DOMAIN line : line[i] = line[k] => i = k
    /\ ~passed => focus \notin Range(line)
    /\ ~passed /\ focus = Noone => line = <<>>

\* What is sold is what the customer was asked about last, unless somebody else spoke in
\* between or the question was put to another one (keywordhandler.lua:179).
SoldAsOffered == ~missold

\* An npc runs the functions of its own script, unless one that failed left others (luascript.cpp:427).
OwnHandlers == \A h \in Handlers : handles[h] # Noone /\ ~broken => h \in handles[h].defines

NpcsHold == NeverRooted /\ LineKept /\ SoldAsOffered /\ OwnHandlers
=============================================================================
