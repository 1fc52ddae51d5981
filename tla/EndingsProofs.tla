---------------------------- MODULE EndingsProofs ----------------------------
(***************************************************************************)
(* Proofs about Orders, Admin and Talk: commands and the remote control do *)
(* what they are allowed to, and mutes silence, for any number of players, *)
(* commands, connections and speakers.                                     *)
(***************************************************************************)
EXTENDS Admin, Talk, FiniteSetTheorems, TLAPS

USE OrdersAssumption, AdminAssumption

-----------------------------------------------------------------------------
(* Commands.                                                                *)

\* However far reloads are, a command asks one or what the file says, and letters are its own.
Modest ==
    /\ \A c \in Command : level[c] \in {1, Asked[c]}
    /\ tags \subseteq {Sign[c] : c \in Command}

\* What a reload has done when it met no other.
Halfway(r) ==
    /\ reloads[r].at = "blanking" => \A c \in Command \ reloads[r].todo : c \notin listed
    /\ reloads[r].at = "parsing" => listed = {}
    /\ reloads[r].at = "loading" /\ trusted =>
          listed = Command \ reloads[r].todo /\ \A c \in listed : level[c] = Asked[c]
    /\ reloads[r].at = "tagging" =>
          (trusted => level = Asked) /\ \A c \in Command \ reloads[r].todo : Sign[c] \in tags

OneReload == \A q, r \in Reloader : Reloading(q) /\ Reloading(r) => q = r

Apart == ~ mingled => OneReload /\ \A r \in Reloader : Halfway(r)

OrdersInv == OrdersTypeOK /\ Modest /\ Apart /\ OrdersHold

\* The rules about ranks compare numbers.
LEMMA Ranks == \A p \in Person : Rank[p] \in Nat
OBVIOUS

\* The part of the invariant that is about the list of commands.
ListInv ==
    /\ file \in Files /\ level \in [Command -> Nat] /\ listed \subseteq Command
    /\ reloads \in [Reloader -> [at : Stages, todo : SUBSET Command]]
    /\ mingled \in BOOLEAN /\ trusted \in BOOLEAN
    /\ Modest /\ Apart /\ TagsKnown

\* One reload turns to another stage: the others stay, and while it goes on it is not quiet.
LEMMA TurnsKeeps ==
  ASSUME ListInv, NEW r \in Reloader, NEW stage \in Stages, NEW S \in SUBSET Command, Turns(r, stage, S)
  PROVE  /\ reloads' \in [Reloader -> [at : Stages, todo : SUBSET Command]]
         /\ reloads'[r].at = stage /\ reloads'[r].todo = S
         /\ \A q \in Reloader \ {r} : reloads'[q] = reloads[q]
         /\ stage # "none" => ~ Quiet'
<1>1. reloads' = [reloads EXCEPT ![r] = [at |-> stage, todo |-> S]]
  BY DEF Turns
<1>2. /\ reloads' \in [Reloader -> [at : Stages, todo : SUBSET Command]]
      /\ reloads'[r].at = stage /\ reloads'[r].todo = S
      /\ \A q \in Reloader \ {r} : reloads'[q] = reloads[q]
  BY <1>1 DEF ListInv
<1> QED
  BY <1>2 DEF Quiet, Reloading

\* A reload under way that meets no other is the only one.
LEMMA AloneKeeps ==
  ASSUME ListInv, NEW r \in Reloader, Reloading(r), UNCHANGED mingled,
         \A q \in Reloader \ {r} : reloads'[q] = reloads[q],
         ~ mingled => Halfway(r)'
  PROVE  Apart'
<1> SUFFICES ASSUME ~ mingled PROVE OneReload' /\ \A q \in Reloader : Halfway(q)'
  BY DEF Apart
<1>1. \A q \in Reloader \ {r} : reloads'[q].at = "none"
  BY DEF ListInv, Apart, OneReload, Reloading
<1>2. OneReload'
  BY <1>1 DEF OneReload, Reloading
<1>3. \A q \in Reloader \ {r} : Halfway(q)'
  BY <1>1 DEF Halfway
<1> QED
  BY <1>2, <1>3

LEMMA BeginReloadList == ASSUME ListInv, NEW r \in Reloader, BeginReload(r) PROVE ListInv'
<1>1. /\ reloads' \in [Reloader -> [at : Stages, todo : SUBSET Command]]
      /\ reloads'[r].at = "blanking" /\ reloads'[r].todo = Command
      /\ \A q \in Reloader \ {r} : reloads'[q] = reloads[q]
      /\ ~ Quiet'
  BY TurnsKeeps DEF BeginReload, Stages
<1>2. mingled' = (\E q \in Reloader \ {r} : Reloading(q)) /\ UNCHANGED <<file, level, listed, tags, trusted>>
  BY DEF BeginReload
<1>3. Apart'
  <2> SUFFICES ASSUME ~ mingled' PROVE OneReload' /\ \A q \in Reloader : Halfway(q)'
    BY DEF Apart
  <2>1. \A q \in Reloader \ {r} : reloads'[q].at = "none"
    BY <1>1, <1>2 DEF Reloading
  <2>2. OneReload'
    BY <2>1 DEF OneReload, Reloading
  <2>3. Halfway(r)' /\ \A q \in Reloader \ {r} : Halfway(q)'
    BY <1>1, <2>1 DEF Halfway
  <2> QED
    BY <2>2, <2>3
<1>4. Modest' /\ TagsKnown'
  BY <1>1, <1>2 DEF ListInv, Modest, TagsKnown
<1> QED
  BY <1>1, <1>2, <1>3, <1>4 DEF ListInv

LEMMA BlanksList == ASSUME ListInv, NEW r \in Reloader, Blanks(r) PROVE ListInv'
<1> DEFINE todo == reloads[r].todo
<1>1. todo \in SUBSET Command /\ reloads[r].at = "blanking" /\ Reloading(r)
  BY DEF ListInv, Blanks, Reloading
<1>2. UNCHANGED <<file, trusted, mingled>>
  BY DEF Blanks
<1>3. CASE todo # {} /\ Reset(r, First(todo)) /\ Turns(r, "blanking", todo \ First(todo)) /\ UNCHANGED tags
  <2>1. todo \ First(todo) \in SUBSET Command /\ "blanking" \in Stages
    BY <1>1 DEF Stages
  <2>2. /\ reloads' \in [Reloader -> [at : Stages, todo : SUBSET Command]]
        /\ reloads'[r].at = "blanking" /\ reloads'[r].todo = todo \ First(todo)
        /\ \A q \in Reloader \ {r} : reloads'[q] = reloads[q]
        /\ ~ Quiet'
    BY <1>3, <2>1, TurnsKeeps
  <2>3. /\ level' = [c \in Command |-> IF c \in First(todo) THEN 1 ELSE level[c]]
        /\ listed' = listed \ First(todo) \/ (mingled /\ listed' = listed)
    BY <1>3 DEF Reset
  <2>4. level' \in [Command -> Nat] /\ listed' \subseteq Command /\ Modest' /\ TagsKnown'
    BY <1>3, <2>2, <2>3 DEF ListInv, Modest, TagsKnown
  <2>5. ~ mingled => Halfway(r)'
    BY <1>1, <2>2, <2>3 DEF ListInv, Apart, Halfway
  <2>6. Apart'
    BY <1>1, <1>2, <2>2, <2>5, AloneKeeps
  <2> QED
    BY <1>2, <2>2, <2>4, <2>6 DEF ListInv
<1>4. CASE todo = {} /\ tags' = {} /\ Turns(r, "parsing", {}) /\ UNCHANGED <<level, listed>>
  <2>1. {} \in SUBSET Command /\ "parsing" \in Stages
    BY DEF Stages
  <2>2. /\ reloads' \in [Reloader -> [at : Stages, todo : SUBSET Command]]
        /\ reloads'[r].at = "parsing"
        /\ \A q \in Reloader \ {r} : reloads'[q] = reloads[q]
        /\ ~ Quiet'
    BY <1>4, <2>1, TurnsKeeps
  <2>3. Modest' /\ TagsKnown'
    BY <1>4, <2>2 DEF ListInv, Modest, TagsKnown
  <2>4. ~ mingled => Halfway(r)'
    BY <1>1, <1>4, <2>2 DEF ListInv, Apart, Halfway
  <2>5. Apart'
    BY <1>1, <1>2, <2>2, <2>4, AloneKeeps
  <2> QED
    BY <1>2, <1>4, <2>2, <2>3, <2>5 DEF ListInv
<1> QED
  BY <1>3, <1>4 DEF Blanks

LEMMA ParsesList == ASSUME ListInv, NEW r \in Reloader, Parses(r) PROVE ListInv'
<1>1. reloads[r].at = "parsing" /\ Reloading(r)
  BY DEF Parses, Reloading
<1>2. UNCHANGED <<file, level, listed, tags, mingled>> /\ trusted' = (file = "sound")
  BY DEF Parses
<1>3. PICK stage \in {"none", "loading"}, S \in SUBSET Command :
        /\ Turns(r, stage, S)
        /\ file = "foreign" => stage = "none"
        /\ file # "foreign" => stage = "loading" /\ S = ListedIn(file)
  <2>1. ListedIn(file) \in SUBSET Command /\ {} \in SUBSET Command
    BY DEF ListInv, Files, ListedIn
  <2> QED
    BY <2>1 DEF Parses
<1>4. /\ reloads' \in [Reloader -> [at : Stages, todo : SUBSET Command]]
      /\ reloads'[r].at = stage /\ reloads'[r].todo = S
      /\ \A q \in Reloader \ {r} : reloads'[q] = reloads[q]
      /\ stage # "none" => ~ Quiet'
  <2>1. stage \in Stages
    BY DEF Stages
  <2> QED
    BY <1>3, <2>1, TurnsKeeps
<1>5. Modest' /\ TagsKnown'
  BY <1>2, <1>3, <1>4 DEF ListInv, Modest, TagsKnown
<1>6. ~ mingled => Halfway(r)'
  <2>1. trusted' => S = Command \/ stage = "none"
    BY <1>2, <1>3 DEF ListedIn
  <2>2. ~ mingled => listed = {}
    BY <1>1 DEF ListInv, Apart, Halfway
  <2> QED
    BY <1>2, <1>3, <1>4, <2>1, <2>2 DEF Halfway
<1>7. Apart'
  BY <1>1, <1>2, <1>4, <1>6, AloneKeeps
<1> QED
  BY <1>2, <1>4, <1>5, <1>7 DEF ListInv

LEMMA LoadsList == ASSUME ListInv, NEW r \in Reloader, Loads(r) PROVE ListInv'
<1> DEFINE todo == reloads[r].todo
<1>1. todo \in SUBSET Command /\ reloads[r].at = "loading" /\ Reloading(r)
  BY DEF ListInv, Loads, Reloading
<1>2. UNCHANGED <<file, tags, trusted, mingled>>
  BY DEF Loads
<1>3. ASSUME NEW n \in {Place[c] : c \in todo}, NEW S, S = {c \in todo : Place[c] = n},
             level' = [c \in Command |-> IF c \in S \ listed THEN Asked[c] ELSE level[c]],
             listed' = listed \cup S, Turns(r, "loading", todo \ S)
      PROVE  ListInv'
  <2>1. todo \ S \in SUBSET Command /\ "loading" \in Stages /\ S \subseteq Command
    BY <1>1, <1>3 DEF Stages
  <2>2. /\ reloads' \in [Reloader -> [at : Stages, todo : SUBSET Command]]
        /\ reloads'[r].at = "loading" /\ reloads'[r].todo = todo \ S
        /\ \A q \in Reloader \ {r} : reloads'[q] = reloads[q]
        /\ ~ Quiet'
    BY <1>3, <2>1, TurnsKeeps
  <2>3. level' \in [Command -> Nat] /\ listed' \subseteq Command /\ Modest' /\ TagsKnown'
    BY <1>2, <1>3, <2>1, <2>2 DEF ListInv, Modest, TagsKnown
  <2>4. ~ mingled => Halfway(r)'
    BY <1>1, <1>2, <1>3, <2>1, <2>2 DEF ListInv, Apart, Halfway
  <2>5. Apart'
    BY <1>1, <1>2, <2>2, <2>4, AloneKeeps
  <2> QED
    BY <1>2, <2>2, <2>3, <2>5 DEF ListInv
<1>4. CASE todo = {} /\ Turns(r, "tagging", Command) /\ UNCHANGED <<level, listed>>
  <2>1. Command \in SUBSET Command /\ "tagging" \in Stages
    BY DEF Stages
  <2>2. /\ reloads' \in [Reloader -> [at : Stages, todo : SUBSET Command]]
        /\ reloads'[r].at = "tagging" /\ reloads'[r].todo = Command
        /\ \A q \in Reloader \ {r} : reloads'[q] = reloads[q]
        /\ ~ Quiet'
    BY <1>4, <2>1, TurnsKeeps
  <2>3. Modest' /\ TagsKnown'
    BY <1>2, <1>4, <2>2 DEF ListInv, Modest, TagsKnown
  <2>4. ~ mingled => Halfway(r)'
    <3>1. ~ mingled /\ trusted => \A c \in Command : level[c] = Asked[c]
      BY <1>1, <1>4 DEF ListInv, Apart, Halfway
    <3>2. ~ mingled /\ trusted => level = Asked
      BY <3>1 DEF ListInv
    <3> QED
      BY <1>2, <1>4, <2>2, <3>2 DEF Halfway
  <2>5. Apart'
    BY <1>1, <1>2, <2>2, <2>4, AloneKeeps
  <2> QED
    BY <1>2, <1>4, <2>2, <2>3, <2>5 DEF ListInv
<1>5. \/ \E n \in {Place[c] : c \in todo} :
           LET S == {c \in todo : Place[c] = n} IN
           /\ level' = [c \in Command |-> IF c \in S \ listed THEN Asked[c] ELSE level[c]]
           /\ listed' = listed \cup S /\ Turns(r, "loading", todo \ S)
      \/ todo = {} /\ Turns(r, "tagging", Command) /\ UNCHANGED <<level, listed>>
  BY DEF Loads
<1> QED
  BY <1>3, <1>4, <1>5

LEMMA TagsList == ASSUME ListInv, NEW r \in Reloader, Tags(r) PROVE ListInv'
<1> DEFINE todo == reloads[r].todo
<1>1. todo \in SUBSET Command /\ reloads[r].at = "tagging" /\ Reloading(r) /\ First(todo) \subseteq todo
  BY DEF ListInv, Tags, Reloading, First
<1>2. UNCHANGED <<file, level, listed, trusted, mingled>> /\ tags' = tags \cup {Sign[c] : c \in First(todo)}
  BY DEF Tags
<1>3. Modest'
  BY <1>1, <1>2 DEF ListInv, Modest
<1>4. CASE todo # {} /\ Turns(r, "tagging", todo \ First(todo))
  <2>1. todo \ First(todo) \in SUBSET Command /\ "tagging" \in Stages
    BY <1>1 DEF Stages
  <2>2. /\ reloads' \in [Reloader -> [at : Stages, todo : SUBSET Command]]
        /\ reloads'[r].at = "tagging" /\ reloads'[r].todo = todo \ First(todo)
        /\ \A q \in Reloader \ {r} : reloads'[q] = reloads[q]
        /\ ~ Quiet'
    BY <1>4, <2>1, TurnsKeeps
  <2>3. ~ mingled => Halfway(r)'
    BY <1>1, <1>2, <2>2 DEF ListInv, Apart, Halfway
  <2>4. Apart'
    BY <1>1, <1>2, <2>2, <2>3, AloneKeeps
  <2> QED
    BY <1>2, <1>3, <2>2, <2>4 DEF ListInv, TagsKnown
<1>5. CASE todo = {} /\ Turns(r, "none", {})
  <2>1. {} \in SUBSET Command /\ "none" \in Stages
    BY DEF Stages
  <2>2. /\ reloads' \in [Reloader -> [at : Stages, todo : SUBSET Command]]
        /\ reloads'[r].at = "none"
        /\ \A q \in Reloader \ {r} : reloads'[q] = reloads[q]
    BY <1>5, <2>1, TurnsKeeps
  <2>3. TagsKnown'
    <3>1. ~ mingled /\ trusted => level = Asked
      BY <1>1 DEF ListInv, Apart, Halfway
    <3>2. ~ mingled => {Sign[c] : c \in Command} \subseteq tags
      BY <1>1, <1>5 DEF ListInv, Apart, Halfway
    <3>3. ~ mingled => tags' = {Sign[c] : c \in Command}
      BY <1>2, <1>3, <3>2 DEF Modest
    <3> QED
      BY <1>2, <3>1, <3>3 DEF TagsKnown
  <2>4. Apart'
    BY <1>1, <1>2, <2>2, AloneKeeps DEF Halfway
  <2> QED
    BY <1>2, <1>3, <2>2, <2>3, <2>4 DEF ListInv
<1> QED
  BY <1>4, <1>5 DEF Tags

\* A step of the list of commands alone.
LEMMA ListStep ==
  ASSUME OrdersInv, UNCHANGED <<serverVars, breaches, expelled>>, ListInv => ListInv'
  PROVE  OrdersInv'
<1>1. ListInv'
  BY DEF OrdersInv, OrdersTypeOK, OrdersHold, ListInv
<1>2. OrdersTypeOK'
  BY <1>1 DEF OrdersInv, OrdersTypeOK, ListInv, serverVars
<1>3. OnlyAllowed' /\ KickedFromAbove' /\ ClosedToMost'
  BY DEF OrdersInv, OrdersHold, OnlyAllowed, KickedFromAbove, ClosedToMost, serverVars
<1> QED
  BY <1>1, <1>2, <1>3 DEF OrdersInv, OrdersHold, ListInv

LEMMA ReloadsOnInv == ASSUME OrdersInv, NEW r \in Reloader, ReloadsOn(r) PROVE OrdersInv'
<1>1. ListInv => ListInv'
  BY BlanksList, ParsesList, LoadsList, TagsList DEF ReloadsOn
<1> QED
  BY <1>1, ListStep DEF ReloadsOn

LEMMA BeginReloadInv ==
  ASSUME OrdersInv, NEW r \in Reloader, BeginReload(r), UNCHANGED <<serverVars, breaches, expelled>>
  PROVE  OrdersInv'
BY BeginReloadList, ListStep

LEMMA OrdersInitInv == OrdersInit => OrdersInv
<1> SUFFICES ASSUME OrdersInit PROVE OrdersInv
  OBVIOUS
<1>1. /\ reloads = [r \in Reloader |-> [at |-> "none", todo |-> {}]]
      /\ level = Asked /\ tags = {Sign[c] : c \in Command}
  BY DEF OrdersInit
<1>2. OrdersTypeOK
  <2>1. reloads \in [Reloader -> [at : Stages, todo : SUBSET Command]]
    BY <1>1 DEF Stages
  <2>2. level \in [Command -> Nat] /\ counts \in Seq(0 .. MaxMinutes)
    BY <1>1 DEF OrdersInit
  <2> QED
    BY <2>1, <2>2 DEF OrdersInit, OrdersTypeOK, Files
<1>3. Modest
  BY <1>1 DEF Modest
<1>4. \A r \in Reloader : reloads[r].at = "none"
  BY <1>1
<1>5. Apart
  BY <1>4 DEF Apart, OneReload, Reloading, Halfway
<1>6. OrdersHold
  BY <1>1 DEF OrdersInit, OrdersHold, OnlyAllowed, KickedFromAbove, ClosedToMost, TagsKnown
<1> QED
  BY <1>2, <1>3, <1>5, <1>6 DEF OrdersInv

\* Players and the server change, the list of commands and the history of its use do not.
LEMMA ServerStep ==
  ASSUME OrdersInv, UNCHANGED <<listVars, breaches>>,
         state' \in {"normal", "closed", "shutdown", "ended"}, limit' \in Limits,
         inside' \subseteq Person, changed' \subseteq inside', counts' \in Seq(0 .. MaxMinutes),
         \A e \in expelled' : e \in expelled \/ Rank[e[1]] > Rank[e[2]],
         state' = "closed" => \A p \in inside' : Rank[p] >= Enter
  PROVE  OrdersInv'
<1>1. OrdersTypeOK'
  BY DEF OrdersInv, OrdersTypeOK, listVars
<1>2. OnlyAllowed' /\ TagsKnown' /\ Modest' /\ Apart'
  BY DEF OrdersInv, OrdersHold, OnlyAllowed, TagsKnown, Modest, Apart, OneReload, Halfway, Reloading, Quiet, listVars
<1>3. KickedFromAbove' /\ ClosedToMost'
  BY DEF OrdersInv, OrdersHold, KickedFromAbove, ClosedToMost
<1> QED
  BY <1>1, <1>2, <1>3 DEF OrdersInv, OrdersHold

\* What OrdersInv says of the server before a step.
LEMMA ServerNow ==
  ASSUME OrdersInv
  PROVE  /\ state \in {"normal", "closed", "shutdown", "ended"} /\ limit \in Limits
         /\ inside \subseteq Person /\ changed \subseteq inside /\ counts \in Seq(0 .. MaxMinutes)
         /\ state = "closed" => \A p \in inside : Rank[p] >= Enter
BY DEF OrdersInv, OrdersTypeOK, OrdersHold, ClosedToMost

LEMMA LoginInv == ASSUME OrdersInv, Login PROVE OrdersInv'
<1>1. PICK p \in Person \ inside :
        /\ state = "closed" => Rank[p] >= Enter
        /\ inside' = inside \cup {p}
        /\ UNCHANGED <<listVars, state, limit, changed, counts, forgotten, breaches, expelled>>
  BY DEF Login
<1> QED
  BY <1>1, ServerNow, ServerStep

LEMMA LeavesGameInv == ASSUME OrdersInv, LeavesGame PROVE OrdersInv'
BY ServerNow, ServerStep DEF LeavesGame, Without

LEMMA PlaysInv == ASSUME OrdersInv, Plays PROVE OrdersInv'
BY ServerNow, ServerStep DEF Plays

LEMMA AutoServerSaveInv == ASSUME OrdersInv, AutoServerSave PROVE OrdersInv'
BY ServerNow, ServerStep DEF AutoServerSave, SaveServer

LEMMA CheckShutdownInv == ASSUME OrdersInv, CheckShutdown PROVE OrdersInv'
<1>1. PICK i \in DOMAIN counts :
        IF counts[i] = 0
        THEN ShutdownServer /\ counts' = <<>>
        ELSE counts' = [counts EXCEPT ![i] = @ - 1] /\ UNCHANGED <<state, inside, changed, forgotten>>
  BY DEF CheckShutdown
<1>2. counts' \in Seq(0 .. MaxMinutes)
  <2>1. counts[i] \in 0 .. MaxMinutes
    BY ServerNow
  <2>2. CASE counts' = <<>>
    BY <2>2
  <2>3. CASE counts[i] # 0 /\ counts' = [counts EXCEPT ![i] = @ - 1]
    <3>1. counts[i] - 1 \in 0 .. MaxMinutes
      BY <2>1, <2>3
    <3> QED
      BY <2>3, <3>1, ServerNow
  <2> QED
    BY <1>1, <2>2, <2>3
<1>3. UNCHANGED <<listVars, limit, breaches, expelled>>
  BY DEF CheckShutdown
<1>4. CASE ShutdownServer
  BY <1>2, <1>3, <1>4, ServerNow, ServerStep DEF ShutdownServer, Without
<1>5. CASE UNCHANGED <<state, inside, changed, forgotten>>
  BY <1>2, <1>3, <1>5, ServerNow, ServerStep
<1> QED
  BY <1>1, <1>4, <1>5

LEMMA SignalInv == ASSUME OrdersInv, Signal PROVE OrdersInv'
BY ServerNow, ServerStep DEF Signal, ShutdownServer, Without

LEMMA MainEndsInv == ASSUME OrdersInv, MainEnds PROVE OrdersInv'
BY ServerNow, ServerStep DEF MainEnds

\* A file is edited; nobody has read it yet.
LEMMA EditFileInv == ASSUME OrdersInv, EditFile PROVE OrdersInv'
<1>1. OrdersTypeOK'
  BY DEF OrdersInv, OrdersTypeOK, EditFile, serverVars
<1>2. Modest' /\ Apart'
  BY DEF OrdersInv, Modest, Apart, OneReload, Halfway, Reloading, EditFile
<1>3. OrdersHold'
  BY DEF OrdersInv, OrdersHold, OnlyAllowed, KickedFromAbove, ClosedToMost, TagsKnown, Quiet, Reloading, EditFile,
     serverVars
<1> QED
  BY <1>1, <1>2, <1>3 DEF OrdersInv

\* A command runs for nobody with less than the file asks, where that can be said: nobody
\* without any access passes a command that asks one.
LEMMA SayAllowed ==
  ASSUME OrdersInv, NEW p \in Person, NEW c \in Command, Say(p, c)
  PROVE  breaches' = breaches
<1>1. Rank[p] >= level[c] /\ Rank[p] \in Nat /\ Asked[c] \in Nat /\ level[c] \in {1, Asked[c]}
  BY DEF OrdersInv, Modest, Say
<1>2. trusted /\ Quiet /\ ~ mingled => level = Asked
  BY DEF OrdersInv, OrdersHold, TagsKnown
<1>3. ~ (Rank[p] < Asked[c] /\ (Rank[p] = 0 \/ (trusted /\ Quiet /\ ~ mingled)))
  BY <1>1, <1>2
<1> QED
  BY <1>3 DEF Say

LEMMA SayInv ==
  ASSUME OrdersInv, NEW p \in Person, NEW c \in Command, Say(p, c)
  PROVE  OrdersInv'
<1>1. breaches' = breaches /\ Does(p, c)
  BY SayAllowed DEF Say
<1>2. CASE BeginReload(ByCommand) /\ UNCHANGED <<serverVars, expelled>>
  BY <1>1, <1>2, BeginReloadInv DEF Reloader
<1>3. CASE CloseServer(Protect) /\ UNCHANGED <<listVars, limit, counts, forgotten, expelled>>
  <2>1. \A q \in inside' : q \in inside /\ Rank[q] >= Protect
    BY <1>3 DEF CloseServer
  <2>2. \A q \in inside' : Rank[q] >= Enter
    BY <2>1, ServerNow
  <2> QED
    BY <1>1, <1>3, <2>1, <2>2, ServerNow, ServerStep DEF CloseServer, SaveServer
<1>4. CASE state' = "normal" /\ UNCHANGED <<listVars, limit, inside, changed, counts, forgotten, expelled>>
  BY <1>1, <1>4, ServerNow, ServerStep
<1>5. CASE (\E q \in Person : KickBy(p, q)) /\ UNCHANGED <<listVars, state, limit, counts, forgotten>>
  <2>1. PICK q \in Person : KickBy(p, q)
    BY <1>5
  <2>2. inside' \subseteq inside /\ changed' \subseteq inside'
    BY <2>1, ServerNow DEF KickBy, Without
  <2>3. \A e \in expelled' : e \in expelled \/ Rank[e[1]] > Rank[e[2]]
    BY <2>1 DEF KickBy
  <2> QED
    BY <1>1, <1>5, <2>2, <2>3, ServerNow, ServerStep
<1>6. CASE SaveServer /\ UNCHANGED <<listVars, state, limit, inside, counts, forgotten, expelled>>
  BY <1>1, <1>6, ServerNow, ServerStep DEF SaveServer
<1>7. CASE SheduleShutdown /\ UNCHANGED <<listVars, state, limit, inside, changed, forgotten, expelled>>
  <2>1. counts' \in Seq(0 .. MaxMinutes)
    BY <1>7, ServerNow DEF SheduleShutdown
  <2> QED
    BY <1>1, <1>7, <2>1, ServerNow, ServerStep
<1>8. CASE SetMaxPlayers /\ UNCHANGED <<listVars, state, inside, changed, counts, forgotten, expelled>>
  BY <1>1, <1>8, ServerNow, ServerStep DEF SetMaxPlayers
<1>9. CASE Gives /\ UNCHANGED <<listVars, state, limit, inside, counts, forgotten, expelled>>
  BY <1>1, <1>9, ServerNow, ServerStep DEF Gives
<1>10. CASE Informs
  BY <1>1, <1>10, ServerNow, ServerStep DEF Informs, serverVars
<1> QED
  BY <1>1, <1>2, <1>3, <1>4, <1>5, <1>6, <1>7, <1>8, <1>9, <1>10 DEF Does

LEMMA OrdersNextInv == ASSUME OrdersInv, OrdersNext PROVE OrdersInv'
BY EditFileInv, LoginInv, LeavesGameInv, PlaysInv, AutoServerSaveInv, CheckShutdownInv, SignalInv,
   MainEndsInv, ReloadsOnInv, SayInv DEF OrdersNext, Reloader

-----------------------------------------------------------------------------
(* The remote control.                                                      *)

Link == [at : States, seen : Nat, tries : 0 .. 4, aim : Person \cup {NoPerson}, todo : SUBSET Person,
         knows : BOOLEAN, hidden : BOOLEAN]

\* What admin.xml requires of one who gives orders.
MayOrder(c) ==
    /\ "login" \in needs => links[c].knows
    /\ "encryption" \in needs => links[c].hidden

\* Nobody gets further than the password and the key allow.
Admitted ==
    \A c \in Admin :
        /\ links[c].at \in {"LOGGED_IN"} \cup Obeying => MayOrder(c)
        /\ links[c].at = "NO_LOGGED_IN" /\ "encryption" \in needs => links[c].hidden

\* Who was obeyed does not log in again.
ObeyedThere ==
    \A c \in obeyed : MayOrder(c) /\ links[c].at \in {"LOGGED_IN", "ending", "removing", "gone"} \cup Obeying

\* The number of connections is right, and no thread adds itself beyond the limit.
Counting ==
    /\ IsFiniteSet(Inside) /\ CountedRight
    /\ \A c \in Admin : links[c].at = "adding" => links[c].seen < MaxConnections

LinksInv == AdminTypeOK /\ Admitted /\ ObeyedThere /\ Counting

\* The server is shut down without a save by those who may give orders only.
EndingInv == EndsSaved /\ (state = "shutdown" => obeyed # {})

AdminInv == OrdersInv /\ LinksInv /\ EndingInv

LEMMA AdminInitInv == OrdersInit /\ AdminInit => AdminInv
<1> SUFFICES ASSUME OrdersInit, AdminInit PROVE AdminInv
  OBVIOUS
<1>1. links \in [Admin -> Link] /\ \A c \in Admin : links[c].at = "none"
  BY DEF AdminInit, NewLink, Link, States
<1>2. Inside = {}
  BY <1>1 DEF Inside, Talking, Obeying
<1>3. AdminTypeOK /\ Admitted /\ ObeyedThere
  BY <1>1 DEF AdminInit, AdminTypeOK, Admitted, ObeyedThere, Link, Obeying
<1>4. Counting
  BY <1>1, <1>2, FS_EmptySet DEF AdminInit, Counting, CountedRight
<1> QED
  BY <1>3, <1>4, OrdersInitInv DEF AdminInv, LinksInv, EndingInv, EndsSaved, OrdersInit

\* What a step of connection c must keep: the others stay as they are, but for whom they aim at.
OthersSame(c) ==
    /\ links' \in [Admin -> Link] /\ UNCHANGED needs
    /\ \A d \in Admin \ {c} : /\ links'[d].at = links[d].at /\ links'[d].seen = links[d].seen
                              /\ links'[d].knows = links[d].knows /\ links'[d].hidden = links[d].hidden

\* c is allowed to be where it goes.
WellPlaced(c) ==
    /\ links[c].at \in {"LOGGED_IN"} \cup Obeying => MayOrder(c)
    /\ links[c].at = "NO_LOGGED_IN" /\ "encryption" \in needs => links[c].hidden
    /\ c \in obeyed => MayOrder(c) /\ links[c].at \in {"LOGGED_IN", "ending", "removing", "gone"} \cup Obeying
    /\ links[c].at = "adding" => links[c].seen < MaxConnections

LEMMA PlacedStep ==
  ASSUME LinksInv, NEW c \in Admin, OthersSame(c), WellPlaced(c)',
         current' \in Nat, raced' \in BOOLEAN, obeyed' \subseteq obeyed \cup {c},
         IsFiniteSet(Inside)', CountedRight'
  PROVE  LinksInv'
<1>1. AdminTypeOK'
  BY DEF LinksInv, AdminTypeOK, OthersSame, Link
<1>2. ASSUME NEW d \in Admin, d # c
      PROVE  /\ MayOrder(d)' = MayOrder(d) /\ links'[d].at = links[d].at /\ links'[d].hidden = links[d].hidden
             /\ links'[d].seen = links[d].seen
  BY <1>2 DEF OthersSame, MayOrder
<1>3. Admitted'
  BY <1>2 DEF LinksInv, Admitted, WellPlaced, OthersSame
<1>4. ObeyedThere'
  BY <1>2 DEF LinksInv, AdminTypeOK, ObeyedThere, WellPlaced
<1>5. Counting'
  BY <1>2 DEF LinksInv, Counting, WellPlaced
<1> QED
  BY <1>1, <1>3, <1>4, <1>5 DEF LinksInv

\* A step that leaves c on the same side of the count.
LEMMA SameSideStep ==
  ASSUME LinksInv, NEW c \in Admin, OthersSame(c), WellPlaced(c)', UNCHANGED <<current, raced>>,
         obeyed' \subseteq obeyed \cup {c},
         c \in Inside <=> links'[c].at \in Talking \cup Obeying \cup {"ending", "removing"}
  PROVE  LinksInv'
<1>1. Inside' = Inside
  BY DEF OthersSame, Inside
<1>2. IsFiniteSet(Inside)' /\ CountedRight'
  BY <1>1 DEF LinksInv, Counting, CountedRight
<1> QED
  BY <1>2, PlacedStep DEF LinksInv, AdminTypeOK

\* What LinksInv says of a connection.
LEMMA LinkNow ==
  ASSUME LinksInv
  PROVE  /\ links \in [Admin -> Link] /\ current \in Nat /\ raced \in BOOLEAN /\ obeyed \subseteq Admin
         /\ \A c \in Admin : WellPlaced(c)
BY DEF LinksInv, AdminTypeOK, Link, Admitted, ObeyedThere, Counting, WellPlaced

\* Forgetting whom a connection aims at changes nothing else of it.
LEMMA ForgetKeeps ==
  ASSUME NEW l \in [Admin -> Link], inside' \subseteq Person
  PROVE  /\ Forget(l) \in [Admin -> Link]
         /\ \A c \in Admin : /\ Forget(l)[c].at = l[c].at /\ Forget(l)[c].seen = l[c].seen
                             /\ Forget(l)[c].knows = l[c].knows /\ Forget(l)[c].hidden = l[c].hidden
BY DEF Forget, Link

\* A connection whose record is replaced.
LEMMA OneLink ==
  ASSUME LinksInv, NEW c \in Admin, NEW l \in Link, UNCHANGED needs,
         links' = [links EXCEPT ![c] = l] \/ (links' = Forget([links EXCEPT ![c] = l]) /\ inside' \subseteq Person)
  PROVE  /\ OthersSame(c) /\ links'[c].at = l.at /\ links'[c].seen = l.seen
         /\ links'[c].knows = l.knows /\ links'[c].hidden = l.hidden
<1>1. PICK m : m = [links EXCEPT ![c] = l]
  OBVIOUS
<1>2. /\ m \in [Admin -> Link] /\ m[c] = l
      /\ \A d \in Admin \ {c} : m[d] = links[d]
  BY <1>1, LinkNow
<1>3. links' = m \/ (links' = Forget(m) /\ inside' \subseteq Person)
  BY <1>1
<1>4. /\ links' \in [Admin -> Link]
      /\ \A d \in Admin : /\ links'[d].at = m[d].at /\ links'[d].seen = m[d].seen
                          /\ links'[d].knows = m[d].knows /\ links'[d].hidden = m[d].hidden
  BY ONLY <1>2, <1>3, ForgetKeeps
<1> QED
  BY <1>2, <1>4 DEF OthersSame

LEMMA RefusedInv == ASSUME LinksInv, Refused PROVE LinksInv'
<1>1. PICK c \in Admin : links[c].at = "none" /\ Goes(c, "gone")
  BY DEF Refused
<1> DEFINE l == [links[c] EXCEPT !.at = "gone"]
<1>2. l \in Link /\ links' = [links EXCEPT ![c] = l] /\ l.at = "gone"
  BY <1>1, LinkNow DEF Goes, Link, States
<1> HIDE DEF l
<1>3. OthersSame(c) /\ links'[c].at = "gone"
  BY <1>2, OneLink DEF Refused
<1>4. c \notin obeyed /\ c \notin Inside
  BY <1>1, LinkNow DEF WellPlaced, Inside, Talking, Obeying
<1>5. WellPlaced(c)'
  BY <1>3, <1>4 DEF WellPlaced, Refused, Obeying
<1> QED
  BY <1>3, <1>4, <1>5, SameSideStep DEF Refused, Talking, Obeying

LEMMA ComparesInv == ASSUME LinksInv, Compares PROVE LinksInv'
<1>1. PICK c \in Admin :
        /\ links[c].at = "none"
        /\ IF current >= MaxConnections THEN Goes(c, "gone")
           ELSE links' = [links EXCEPT ![c].at = "adding", ![c].seen = current]
  BY DEF Compares
<1>2. PICK l \in Link : /\ links' = [links EXCEPT ![c] = l] /\ l.at \in {"gone", "adding"}
                        /\ l.at = "adding" => l.seen < MaxConnections
  <2>1. CASE current >= MaxConnections
    <3> DEFINE l == [links[c] EXCEPT !.at = "gone"]
    <3>1. l \in Link /\ links' = [links EXCEPT ![c] = l] /\ l.at = "gone"
      BY <1>1, <2>1, LinkNow DEF Goes, Link, States
    <3> QED
      BY <3>1
  <2>2. CASE ~ (current >= MaxConnections)
    BY <1>1, <2>2, LinkNow DEF Link, States
  <2> QED
    BY <2>1, <2>2
<1>3. OthersSame(c) /\ links'[c].at = l.at /\ links'[c].seen = l.seen
  BY <1>2, OneLink DEF Compares
<1>4. c \notin obeyed /\ c \notin Inside
  BY <1>1, LinkNow DEF WellPlaced, Inside, Talking, Obeying
<1>5. WellPlaced(c)'
  BY <1>2, <1>3, <1>4 DEF WellPlaced, Compares, Obeying
<1> QED
  BY <1>2, <1>3, <1>4, <1>5, SameSideStep DEF Compares, Talking, Obeying

\* The number is put up by one that was within the limit.
LEMMA AddsInv == ASSUME LinksInv, Adds PROVE LinksInv'
<1>1. PICK c \in Admin :
        /\ links[c].at = "adding" /\ Goes(c, "ENCRYPTION_NO_SET")
        /\ current' \in {links[c].seen + 1, current + 1}
        /\ raced' = (raced \/ (\E d \in Admin \ {c} : links[d].at \in {"adding", "removing"}) \/ current # links[c].seen)
  BY DEF Adds
<1> DEFINE l == [links[c] EXCEPT !.at = "ENCRYPTION_NO_SET"]
<1>2. l \in Link /\ links' = [links EXCEPT ![c] = l] /\ l.at = "ENCRYPTION_NO_SET"
  BY <1>1, LinkNow DEF Goes, Link, States
<1> HIDE DEF l
<1>3. OthersSame(c) /\ links'[c].at = "ENCRYPTION_NO_SET"
  BY <1>2, OneLink DEF Adds
<1>4. c \notin obeyed /\ c \notin Inside /\ links[c].seen < MaxConnections /\ links[c].seen \in Nat
  BY <1>1, LinkNow DEF WellPlaced, Inside, Talking, Obeying, Link
<1>5. WellPlaced(c)'
  BY <1>3, <1>4 DEF WellPlaced, Adds, Obeying
<1>6. Inside' = Inside \cup {c}
  BY <1>3 DEF OthersSame, Inside, Talking, Obeying
<1>7. IsFiniteSet(Inside) /\ CountedRight
  BY DEF LinksInv, Counting
<1>8. IsFiniteSet(Inside)' /\ Cardinality(Inside') = Cardinality(Inside) + 1
  BY <1>4, <1>6, <1>7, FS_AddElement
<1>9. CountedRight'
  <2>1. ASSUME ~ raced'
        PROVE  current' = Cardinality(Inside') /\ current' <= MaxConnections
    <3>1. ~ raced /\ current = links[c].seen
      BY <1>1, <2>1
    <3>2. current' = current + 1 /\ current = Cardinality(Inside) /\ current \in Nat
      BY <1>1, <1>7, <3>1, LinkNow DEF CountedRight
    <3> QED
      BY <1>4, <1>8, <3>1, <3>2
  <2> QED
    BY <2>1 DEF CountedRight
<1>10. current' \in Nat /\ raced' \in BOOLEAN /\ obeyed' \subseteq obeyed \cup {c}
  BY <1>1, <1>4, LinkNow DEF Adds
<1> QED
  BY <1>3, <1>5, <1>8, <1>9, <1>10, PlacedStep

LEMMA EndsInv == ASSUME LinksInv, Ends PROVE LinksInv'
<1>1. PICK c \in Admin :
        links[c].at = "ending" /\ links' = [links EXCEPT ![c].at = "removing", ![c].seen = current]
  BY DEF Ends
<1> DEFINE l == [links[c] EXCEPT !.at = "removing", !.seen = current]
<1>2. l \in Link /\ links' = [links EXCEPT ![c] = l] /\ l.at = "removing"
      /\ l.knows = links[c].knows /\ l.hidden = links[c].hidden
  BY <1>1, LinkNow DEF Link, States
<1> HIDE DEF l
<1>3. OthersSame(c) /\ links'[c].at = "removing"
      /\ links'[c].knows = links[c].knows /\ links'[c].hidden = links[c].hidden
  BY <1>2, OneLink DEF Ends
<1>4. WellPlaced(c)'
  BY <1>1, <1>3, LinkNow DEF WellPlaced, MayOrder, Ends, Obeying
<1>5. c \in Inside
  BY <1>1 DEF Inside
<1> QED
  BY <1>3, <1>4, <1>5, SameSideStep DEF Ends

LEMMA RemovesInv == ASSUME LinksInv, Removes PROVE LinksInv'
<1>1. PICK c \in Admin :
        /\ links[c].at = "removing" /\ Goes(c, "gone")
        /\ current' \in {n - 1 : n \in {links[c].seen, current} \ {0}} \cup ({links[c].seen, current} \cap {0})
        /\ raced' = (raced \/ (\E d \in Admin \ {c} : links[d].at \in {"adding", "removing"}) \/ current # links[c].seen)
  BY DEF Removes
<1> DEFINE l == [links[c] EXCEPT !.at = "gone"]
<1>2. l \in Link /\ links' = [links EXCEPT ![c] = l] /\ l.at = "gone"
      /\ l.knows = links[c].knows /\ l.hidden = links[c].hidden
  BY <1>1, LinkNow DEF Goes, Link, States
<1> HIDE DEF l
<1>3. OthersSame(c) /\ links'[c].at = "gone"
      /\ links'[c].knows = links[c].knows /\ links'[c].hidden = links[c].hidden
  BY <1>2, OneLink DEF Removes
<1>4. WellPlaced(c)'
  BY <1>1, <1>3, LinkNow DEF WellPlaced, MayOrder, Removes, Obeying
<1>5. c \in Inside /\ Inside' = Inside \ {c}
  BY <1>1, <1>3 DEF OthersSame, Inside, Talking, Obeying
<1>6. IsFiniteSet(Inside) /\ CountedRight
  BY DEF LinksInv, Counting
<1>7. IsFiniteSet(Inside)' /\ Cardinality(Inside') = Cardinality(Inside) - 1 /\ Cardinality(Inside) \in Nat \ {0}
  <2>1. Cardinality(Inside) \in Nat /\ Cardinality(Inside) # 0
    BY <1>5, <1>6, FS_CardinalityType, FS_EmptySet
  <2> QED
    BY <1>5, <1>6, <2>1, FS_RemoveElement
<1>8. links[c].seen \in Nat /\ current \in Nat
  BY LinkNow DEF Link
<1>9. CountedRight'
  <2>1. ASSUME ~ raced'
        PROVE  current' = Cardinality(Inside') /\ current' <= MaxConnections
    <3>1. ~ raced /\ current = links[c].seen
      BY <1>1, <2>1
    <3>2. current = Cardinality(Inside) /\ current <= MaxConnections
      BY <1>6, <3>1 DEF CountedRight
    <3>3. current' = current - 1
      BY <1>1, <1>7, <3>1, <3>2
    <3> QED
      BY <1>7, <1>8, <3>2, <3>3
  <2> QED
    BY <2>1 DEF CountedRight
<1>10. current' \in Nat /\ raced' \in BOOLEAN /\ obeyed' \subseteq obeyed \cup {c}
  BY <1>1, <1>8, LinkNow DEF Removes
<1> QED
  BY <1>3, <1>4, <1>7, <1>9, <1>10, PlacedStep

\* A connection that talks goes on talking, or ends, as one of those it may be.
LEMMA TalkingStep ==
  ASSUME LinksInv, NEW c \in Admin, links[c].at \in Talking \cup Obeying, NEW l \in Link,
         links' = [links EXCEPT ![c] = l] \/ (links' = Forget([links EXCEPT ![c] = l]) /\ inside' \subseteq Person),
         UNCHANGED <<needs, current, raced>>, obeyed' \subseteq obeyed \cup {c},
         l.at \in Talking \cup Obeying \cup {"ending"},
         l.at \in {"LOGGED_IN"} \cup Obeying \/ c \in obeyed' =>
            ("login" \in needs => l.knows) /\ ("encryption" \in needs => l.hidden),
         l.at = "NO_LOGGED_IN" /\ "encryption" \in needs => l.hidden,
         c \in obeyed' => l.at \in {"LOGGED_IN", "ending"} \cup Obeying
  PROVE  LinksInv'
<1>1. /\ OthersSame(c) /\ links'[c].at = l.at
      /\ links'[c].knows = l.knows /\ links'[c].hidden = l.hidden
  BY OneLink
<1>2. WellPlaced(c)'
  BY <1>1 DEF WellPlaced, MayOrder, Talking, Obeying
<1>3. c \in Inside
  BY DEF Inside
<1> QED
  BY <1>1, <1>2, <1>3, SameSideStep

\* What the state a message finds allows.
LEMMA FoundAllows ==
  ASSUME LinksInv, NEW c \in Admin, links[c].at \in Talking
  PROVE  /\ Found(c) \in Talking
         /\ Found(c) = "LOGGED_IN" => MayOrder(c)
         /\ Found(c) = "NO_LOGGED_IN" /\ "encryption" \in needs => links[c].hidden
         /\ c \in obeyed => Found(c) = "LOGGED_IN" /\ links[c].at = "LOGGED_IN" /\ MayOrder(c)
BY LinkNow DEF WellPlaced, MayOrder, Found, Talking, Obeying

LEMMA HangsUpInv == ASSUME LinksInv, HangsUp PROVE LinksInv'
<1>1. PICK c \in Admin : links[c].at \in Talking /\ Goes(c, "ending")
  BY DEF HangsUp
<1> DEFINE l == [links[c] EXCEPT !.at = "ending"]
<1>2. l \in Link /\ links' = [links EXCEPT ![c] = l] /\ l.at = "ending"
      /\ l.knows = links[c].knows /\ l.hidden = links[c].hidden
  BY <1>1, LinkNow DEF Goes, Link, States
<1> HIDE DEF l
<1> QED
  BY <1>1, <1>2, FoundAllows, TalkingStep DEF HangsUp, MayOrder, Obeying

LEMMA ChatsInv == ASSUME LinksInv, Chats PROVE LinksInv'
<1>1. PICK c \in Admin : links[c].at \in Talking /\ Goes(c, Found(c))
  BY DEF Chats
<1> DEFINE l == [links[c] EXCEPT !.at = Found(c)]
<1>2. Found(c) \in Talking
  BY <1>1, FoundAllows
<1>3. l \in Link /\ links' = [links EXCEPT ![c] = l] /\ l.at = Found(c)
      /\ l.knows = links[c].knows /\ l.hidden = links[c].hidden
  BY <1>1, <1>2, LinkNow DEF Goes, Link, States, Talking
<1> HIDE DEF l
<1>4. /\ l.at = "LOGGED_IN" \/ c \in obeyed => ("login" \in needs => l.knows) /\ ("encryption" \in needs => l.hidden)
      /\ l.at = "NO_LOGGED_IN" /\ "encryption" \in needs => l.hidden
      /\ c \in obeyed => l.at = "LOGGED_IN"
      /\ l.at \notin Obeying
  BY <1>1, <1>2, <1>3, FoundAllows DEF MayOrder, Talking, Obeying
<1>5. UNCHANGED <<needs, current, raced, obeyed>>
  BY DEF Chats
<1> QED
  BY <1>1, <1>2, <1>3, <1>4, <1>5, TalkingStep

LEMMA EncryptsInv == ASSUME LinksInv, Encrypts PROVE LinksInv'
<1>1. PICK c \in Admin : Found(c) = "ENCRYPTION_NO_SET" /\ links[c].at \in Talking /\ TakesKey(c)
  BY DEF Encrypts
<1> DEFINE l == [links[c] EXCEPT !.at = "NO_LOGGED_IN", !.hidden = TRUE]
<1>2. l \in Link /\ links' = [links EXCEPT ![c] = l] /\ l.at = "NO_LOGGED_IN" /\ l.hidden
  BY <1>1, LinkNow DEF TakesKey, Link, States
<1>3. c \notin obeyed
  BY <1>1, FoundAllows
<1> HIDE DEF l
<1> QED
  BY <1>1, <1>2, <1>3, TalkingStep DEF Encrypts, Talking, Obeying

LEMMA LogsInInv == ASSUME LinksInv, LogsIn PROVE LinksInv'
<1>1. PICK c \in Admin :
        /\ links[c].at \in Talking /\ Found(c) = "NO_LOGGED_IN"
        /\ IF links[c].tries > 3 THEN Goes(c, "ending") ELSE \E right \in BOOLEAN : PasswordMatch(c, right)
  BY DEF LogsIn
<1>2. c \notin obeyed /\ ("encryption" \in needs => links[c].hidden)
  BY <1>1, FoundAllows
<1>3. PICK l \in Link : /\ links' = [links EXCEPT ![c] = l] /\ l.hidden = links[c].hidden
                        /\ l.at \in {"ending", "NO_LOGGED_IN", "LOGGED_IN"} /\ (l.at = "LOGGED_IN" => l.knows)
  <2>1. CASE links[c].tries > 3
    BY <1>1, <2>1, LinkNow DEF Goes, Link, States
  <2>2. CASE ~ (links[c].tries > 3)
    <3>1. PICK right \in BOOLEAN : PasswordMatch(c, right)
      BY <1>1, <2>2
    <3> DEFINE l == [links[c] EXCEPT !.at = IF right THEN "LOGGED_IN" ELSE "NO_LOGGED_IN",
                                     !.knows = right, !.tries = IF right THEN @ ELSE @ + 1]
    <3>2. l \in Link
      <4>1. links[c] \in Link /\ links[c].tries \in 0 .. 3
        BY <2>2, LinkNow DEF Link
      <4>2. (IF right THEN links[c].tries ELSE links[c].tries + 1) \in 0 .. 4
        BY <4>1
      <4> QED
        BY <4>1, <4>2 DEF Link, States
    <3>3. links' = [links EXCEPT ![c] = l]
      BY <3>1, LinkNow DEF PasswordMatch, Link
    <3> QED
      BY <3>2, <3>3, LinkNow DEF Link
  <2> QED
    BY <2>1, <2>2
<1> QED
  BY <1>1, <1>2, <1>3, TalkingStep DEF LogsIn, Talking, Obeying

\* An order is obeyed, and the connection goes where orders leave it.
LEMMA ObeysStep ==
  ASSUME LinksInv, NEW c \in Admin, Obeys(c), NEW l \in Link,
         links' = [links EXCEPT ![c] = l] \/ (links' = Forget([links EXCEPT ![c] = l]) /\ inside' \subseteq Person),
         l.at \in {"LOGGED_IN", "ending"} \cup Obeying,
         l.knows = links[c].knows, l.hidden = links[c].hidden
  PROVE  LinksInv'
BY FoundAllows, TalkingStep DEF Obeys, MayOrder, Talking, Obeying

\* A connection whose order is being done goes on with it, or is done.
LEMMA GoesOnStep ==
  ASSUME LinksInv, NEW c \in Admin, links[c].at \in Obeying, NEW l \in Link,
         links' = [links EXCEPT ![c] = l] \/ (links' = Forget([links EXCEPT ![c] = l]) /\ inside' \subseteq Person),
         l.at \in {"LOGGED_IN"} \cup Obeying,
         l.knows = links[c].knows, l.hidden = links[c].hidden,
         UNCHANGED <<needs, current, raced, obeyed>>
  PROVE  LinksInv'
<1>1. MayOrder(c)
  BY LinkNow DEF WellPlaced
<1> QED
  BY <1>1, TalkingStep DEF MayOrder, Talking, Obeying

\* The orders that leave a connection where it can give the next.
LEMMA StaysStep ==
  ASSUME LinksInv, NEW c \in Admin, Obeys(c),
         NEW p \in {"LOGGED_IN", "reloading", "ending"}, Goes(c, p)
  PROVE  LinksInv'
<1> DEFINE l == [links[c] EXCEPT !.at = p]
<1>1. l \in Link /\ links' = [links EXCEPT ![c] = l] /\ l.at = p
      /\ l.knows = links[c].knows /\ l.hidden = links[c].hidden
  BY LinkNow DEF Goes, Link, States
<1> HIDE DEF l
<1> QED
  BY <1>1, ObeysStep DEF Obeying

\* A step of a connection that changes neither the game nor the list of commands.
LEMMA GateStep ==
  ASSUME AdminInv, LinksInv', UNCHANGED orderVars, obeyed \subseteq obeyed'
  PROVE  AdminInv'
<1> USE DEF orderVars, listVars, serverVars
<1>1. OrdersInv'
  <2>1. OrdersTypeOK'
    BY DEF AdminInv, OrdersInv, OrdersTypeOK
  <2>2. OrdersHold'
    BY DEF AdminInv, OrdersInv, OrdersHold, OnlyAllowed, KickedFromAbove, ClosedToMost, TagsKnown, Quiet, Reloading
  <2>3. Modest' /\ Apart'
    BY DEF AdminInv, OrdersInv, Modest, Apart, OneReload, Halfway, Reloading
  <2> QED
    BY <2>1, <2>2, <2>3 DEF OrdersInv
<1>2. EndingInv'
  BY DEF AdminInv, EndingInv, EndsSaved
<1> QED
  BY <1>1, <1>2 DEF AdminInv

LEMMA AdminClosesInv == ASSUME AdminInv, AdminCloses PROVE AdminInv'
<1>1. PICK c \in Admin : Obeys(c) /\ links' = Forget([links EXCEPT ![c].at = "LOGGED_IN"])
  BY DEF AdminCloses
<1>2. /\ \A p \in inside' : p \in inside /\ Rank[p] >= Enter
      /\ state' = "closed" /\ changed' = {}
      /\ UNCHANGED <<listVars, limit, counts, forgotten, breaches, expelled>>
  BY DEF AdminCloses, CloseServer, SaveServer
<1>3. OrdersInv'
  BY <1>2, ServerNow, ServerStep DEF AdminInv
<1>4. LinksInv'
  <2> DEFINE l == [links[c] EXCEPT !.at = "LOGGED_IN"]
  <2>1. l \in Link /\ [links EXCEPT ![c].at = "LOGGED_IN"] = [links EXCEPT ![c] = l] /\ l.at = "LOGGED_IN"
        /\ l.knows = links[c].knows /\ l.hidden = links[c].hidden
    BY LinkNow DEF AdminInv, Link, States
  <2>2. links' = Forget([links EXCEPT ![c] = l]) /\ inside' \subseteq Person
    BY <1>1, <1>2, <2>1, ServerNow DEF AdminInv
  <2> HIDE DEF l
  <2> QED
    BY <1>1, <2>1, <2>2, ObeysStep DEF AdminInv
<1>5. EndingInv'
  BY <1>1, <1>2 DEF EndingInv, EndsSaved, Obeys
<1> QED
  BY <1>3, <1>4, <1>5 DEF AdminInv

LEMMA AdminShutsDownInv == ASSUME AdminInv, AdminShutsDown PROVE AdminInv'
<1>1. PICK c \in Admin : Obeys(c) /\ Goes(c, "ending")
  BY DEF AdminShutsDown
<1>2. LinksInv'
  BY <1>1, StaysStep DEF AdminInv
<1>3. OrdersInv'
  BY ServerNow, ServerStep DEF AdminInv, AdminShutsDown
<1>4. EndingInv'
  BY <1>1 DEF EndingInv, EndsSaved, Obeys
<1> QED
  BY <1>2, <1>3, <1>4 DEF AdminInv

LEMMA AdminReloadsInv == ASSUME AdminInv, AdminReloads PROVE AdminInv'
<1>1. PICK c \in Admin : Obeys(c) /\ Goes(c, "reloading") /\ BeginReload(c)
  BY DEF AdminReloads
<1>2. UNCHANGED <<serverVars, breaches, expelled>>
  BY DEF AdminReloads
<1>3. LinksInv'
  BY <1>1, StaysStep DEF AdminInv
<1>4. OrdersInv'
  BY <1>1, <1>2, BeginReloadInv DEF AdminInv, Reloader
<1>5. EndingInv'
  BY <1>1, <1>2 DEF AdminInv, EndingInv, EndsSaved, Obeys, serverVars
<1> QED
  BY <1>3, <1>4, <1>5 DEF AdminInv

\* A reload goes on command by command while everything else does.
LEMMA AdminReloadsOnInv == ASSUME AdminInv, AdminReloadsOn PROVE AdminInv'
<1>1. PICK c \in Admin :
        /\ links[c].at = "reloading" /\ ReloadsOn(c)
        /\ Goes(c, IF Reloading(c)' THEN "reloading" ELSE "LOGGED_IN")
  BY DEF AdminReloadsOn
<1>2. UNCHANGED <<needs, current, raced, obeyed>>
  BY DEF AdminReloadsOn
<1>3. OrdersInv'
  BY <1>1, ReloadsOnInv DEF AdminInv, Reloader
<1>4. PICK place \in {"reloading", "LOGGED_IN"} : Goes(c, place)
  BY <1>1
<1> DEFINE l == [links[c] EXCEPT !.at = place]
<1>5. l \in Link /\ links' = [links EXCEPT ![c] = l] /\ l.at = place
      /\ l.knows = links[c].knows /\ l.hidden = links[c].hidden
  BY <1>4, LinkNow DEF Goes, Link, States, AdminInv
<1> HIDE DEF l
<1>6. LinksInv'
  BY <1>1, <1>2, <1>5, GoesOnStep DEF AdminInv, Obeying
<1>7. EndingInv'
  BY <1>1, <1>2 DEF AdminInv, EndingInv, EndsSaved, ReloadsOn, serverVars
<1> QED
  BY <1>3, <1>6, <1>7 DEF AdminInv

LEMMA AdminSavesInv == ASSUME AdminInv, AdminSaves PROVE AdminInv'
<1>1. PICK c \in Admin : Obeys(c) /\ links' = [links EXCEPT ![c].at = "saving", ![c].todo = inside]
  BY DEF AdminSaves
<1>2. UNCHANGED orderVars
  BY DEF AdminSaves
<1> DEFINE l == [links[c] EXCEPT !.at = "saving", !.todo = inside]
<1>3. l \in Link /\ links' = [links EXCEPT ![c] = l] /\ l.at = "saving"
      /\ l.knows = links[c].knows /\ l.hidden = links[c].hidden
  <2>1. links \in [Admin -> Link] /\ inside \in SUBSET Person
    BY LinkNow, ServerNow DEF AdminInv
  <2>2. links[c] \in Link /\ "saving" \in States
    BY <2>1 DEF States
  <2>3. l \in Link /\ l.at = "saving" /\ l.knows = links[c].knows /\ l.hidden = links[c].hidden
    BY ONLY <2>1, <2>2 DEF Link
  <2>4. links' = [links EXCEPT ![c] = l]
    BY ONLY <1>1, <2>1 DEF Link
  <2> QED
    BY <2>3, <2>4
<1> HIDE DEF l
<1>4. LinksInv'
  BY <1>1, <1>3, ObeysStep DEF AdminInv, Obeying
<1> QED
  BY <1>1, <1>2, <1>4, GateStep DEF Obeys

\* A save goes on player by player while everything else does.
LEMMA AdminSavesOnInv == ASSUME AdminInv, AdminSavesOn PROVE AdminInv'
<1>1. PICK c \in Admin :
        /\ links[c].at = "saving"
        /\ \/ \E p \in links[c].todo :
                changed' = changed \ {p} /\ links' = [links EXCEPT ![c].todo = @ \ {p}]
           \/ links[c].todo = {} /\ Goes(c, "LOGGED_IN") /\ UNCHANGED changed
  BY DEF AdminSavesOn
<1>2. UNCHANGED <<needs, current, raced, obeyed, listVars, state, limit, inside, counts, forgotten, breaches, expelled>>
  BY DEF AdminSavesOn
<1>3. PICK l \in Link : /\ links' = [links EXCEPT ![c] = l] /\ l.at \in {"saving", "LOGGED_IN"}
                        /\ l.knows = links[c].knows /\ l.hidden = links[c].hidden
  <2>1. CASE links[c].todo = {} /\ Goes(c, "LOGGED_IN")
    <3> DEFINE l == [links[c] EXCEPT !.at = "LOGGED_IN"]
    <3>1. l \in Link /\ links' = [links EXCEPT ![c] = l] /\ l.at = "LOGGED_IN"
          /\ l.knows = links[c].knows /\ l.hidden = links[c].hidden
      BY <2>1, LinkNow DEF Goes, Link, States, AdminInv
    <3> QED
      BY <3>1
  <2>2. ASSUME NEW p \in links[c].todo, links' = [links EXCEPT ![c].todo = @ \ {p}]
        PROVE  \E l \in Link : /\ links' = [links EXCEPT ![c] = l] /\ l.at \in {"saving", "LOGGED_IN"}
                               /\ l.knows = links[c].knows /\ l.hidden = links[c].hidden
    <3> DEFINE l == [links[c] EXCEPT !.todo = links[c].todo \ {p}]
    <3>1. l \in Link /\ links' = [links EXCEPT ![c] = l] /\ l.at = links[c].at
          /\ l.knows = links[c].knows /\ l.hidden = links[c].hidden
      BY <2>2, LinkNow DEF Link, AdminInv
    <3> QED
      BY <1>1, <3>1
  <2> QED
    BY <1>1, <2>1, <2>2
<1>4. LinksInv'
  BY <1>1, <1>2, <1>3, GoesOnStep DEF AdminInv, Obeying
<1>5. OrdersInv'
  <2>1. changed' \subseteq changed
    BY <1>1
  <2> QED
    BY <1>2, <2>1, ServerNow, ServerStep DEF AdminInv
<1>6. EndingInv'
  BY <1>2 DEF AdminInv, EndingInv, EndsSaved
<1> QED
  BY <1>4, <1>5, <1>6 DEF AdminInv

LEMMA AdminLimitsInv == ASSUME AdminInv, AdminLimits PROVE AdminInv'
<1>1. PICK c \in Admin : Obeys(c) /\ Goes(c, "LOGGED_IN")
  BY DEF AdminLimits
<1>2. LinksInv'
  BY <1>1, StaysStep DEF AdminInv
<1>3. OrdersInv'
  BY ServerNow, ServerStep DEF AdminInv, AdminLimits
<1>4. EndingInv'
  BY <1>1 DEF AdminInv, AdminLimits, EndingInv, EndsSaved, Obeys
<1> QED
  BY <1>2, <1>3, <1>4 DEF AdminInv

LEMMA AdminAimsInv == ASSUME LinksInv, inside \subseteq Person, AdminAims PROVE LinksInv'
<1>1. PICK c \in Admin, p \in inside :
        Obeys(c) /\ links' = [links EXCEPT ![c].at = "aiming", ![c].aim = p]
  BY DEF AdminAims
<1> DEFINE l == [links[c] EXCEPT !.at = "aiming", !.aim = p]
<1>2. l \in Link /\ links' = [links EXCEPT ![c] = l] /\ l.at = "aiming"
      /\ l.knows = links[c].knows /\ l.hidden = links[c].hidden
  <2>1. links \in [Admin -> Link] /\ p \in Person
    BY <1>1, LinkNow
  <2>2. links[c] \in Link /\ "aiming" \in States
    BY <2>1 DEF States
  <2>3. l \in Link /\ l.at = "aiming" /\ l.knows = links[c].knows /\ l.hidden = links[c].hidden
    BY ONLY <2>1, <2>2 DEF Link
  <2>4. links' = [links EXCEPT ![c] = l]
    BY ONLY <1>1, <2>1 DEF Link
  <2> QED
    BY <2>3, <2>4
<1> HIDE DEF l
<1> QED
  BY <1>1, <1>2, ObeysStep DEF Obeying

\* Whoever is aimed at is kicked by one who was allowed to, long before perhaps.
LEMMA AdminKicksInv == ASSUME AdminInv, AdminKicks PROVE AdminInv'
<1>1. PICK c \in Admin :
        /\ links[c].at = "aiming" /\ Without({links[c].aim})
        /\ links' = Forget([links EXCEPT ![c].at = "LOGGED_IN", ![c].aim = NoPerson])
  BY DEF AdminKicks
<1>2. UNCHANGED <<needs, current, raced, obeyed, listVars, state, limit, counts, forgotten, breaches, expelled>>
  BY DEF AdminKicks
<1>3. LinksInv'
  <2> DEFINE l == [links[c] EXCEPT !.at = "LOGGED_IN", !.aim = NoPerson]
  <2>1. l \in Link /\ [links EXCEPT ![c].at = "LOGGED_IN", ![c].aim = NoPerson] = [links EXCEPT ![c] = l]
        /\ l.at = "LOGGED_IN" /\ l.knows = links[c].knows /\ l.hidden = links[c].hidden
    <3>1. links \in [Admin -> Link] /\ links[c] \in Link
      BY LinkNow DEF AdminInv
    <3>2. l \in Link /\ l.at = "LOGGED_IN" /\ l.knows = links[c].knows /\ l.hidden = links[c].hidden
      BY ONLY <3>1 DEF Link, States
    <3>3. [links EXCEPT ![c].at = "LOGGED_IN", ![c].aim = NoPerson] = [links EXCEPT ![c] = l]
      BY ONLY <3>1 DEF Link
    <3> QED
      BY <3>2, <3>3
  <2>2. links' = Forget([links EXCEPT ![c] = l]) /\ inside' \subseteq Person
    BY <1>1, <2>1, ServerNow DEF AdminInv, Without
  <2> HIDE DEF l
  <2> QED
    BY <1>1, <1>2, <2>1, <2>2, GoesOnStep DEF AdminInv, Obeying
<1>4. OrdersInv'
  <2>1. inside' \subseteq inside /\ changed' \subseteq inside'
    BY <1>1, ServerNow DEF AdminInv, Without
  <2> QED
    BY <1>2, <2>1, ServerNow, ServerStep DEF AdminInv
<1>5. EndingInv'
  BY <1>2 DEF AdminInv, EndingInv, EndsSaved
<1> QED
  BY <1>3, <1>4, <1>5 DEF AdminInv

\* A step of the game and its players: connections forget whom they aimed at.
LEMMA GameStep ==
  ASSUME AdminInv, OrdersNext, links' = Forget(links), UNCHANGED <<needs, current, raced, obeyed>>
  PROVE  AdminInv'
<1>1. OrdersInv'
  BY OrdersNextInv DEF AdminInv
<1>2. LinksInv'
  <2>1. /\ links' \in [Admin -> Link]
        /\ \A c \in Admin : /\ links'[c].at = links[c].at /\ links'[c].seen = links[c].seen
                            /\ links'[c].knows = links[c].knows /\ links'[c].hidden = links[c].hidden
    BY <1>1, LinkNow, ForgetKeeps DEF AdminInv, OrdersInv, OrdersTypeOK
  <2>2. \A c \in Admin : MayOrder(c)' = MayOrder(c)
    BY <2>1 DEF MayOrder
  <2>3. AdminTypeOK'
    BY <2>1 DEF AdminInv, LinksInv, AdminTypeOK, Link
  <2>4. Admitted' /\ ObeyedThere'
    BY <2>1, <2>2 DEF AdminInv, LinksInv, AdminTypeOK, Admitted, ObeyedThere
  <2>5. Inside' = Inside
    BY <2>1 DEF Inside
  <2>6. Counting'
    BY <2>1, <2>5 DEF AdminInv, LinksInv, Counting, CountedRight
  <2> QED
    BY <2>3, <2>4, <2>6 DEF LinksInv
<1>3. EndingInv'
  <2>1. forgotten' # {} => forgotten # {} \/ state = "shutdown"
    BY DEF OrdersNext, EditFile, Login, LeavesGame, Plays, AutoServerSave, CheckShutdown, Signal, ShutdownServer,
       MainEnds, ReloadsOn, Say, Does, Informs, serverVars
  <2>2. state' = "shutdown" => state = "shutdown"
    BY DEF OrdersNext, EditFile, Login, LeavesGame, Plays, AutoServerSave, CheckShutdown, Signal, ShutdownServer,
       MainEnds, ReloadsOn, Say, Does, CloseServer, Informs, serverVars
  <2> QED
    BY <2>1, <2>2 DEF AdminInv, EndingInv, EndsSaved
<1> QED
  BY <1>1, <1>2, <1>3 DEF AdminInv

LEMMA AdminNextInv == AdminInv /\ [AdminNext]_<<orderVars, adminVars>> => AdminInv'
<1> SUFFICES ASSUME AdminInv, [AdminNext]_<<orderVars, adminVars>> PROVE AdminInv'
  OBVIOUS
<1>1. CASE UNCHANGED <<orderVars, adminVars>>
  <2>1. UNCHANGED <<needs, links, current, raced, obeyed>>
    BY <1>1 DEF adminVars
  <2>2. AdminTypeOK' /\ Admitted' /\ ObeyedThere' /\ Counting'
    BY <2>1 DEF AdminInv, LinksInv, AdminTypeOK, Admitted, ObeyedThere, MayOrder, Counting, CountedRight, Inside
  <2> QED
    BY <1>1, <2>1, <2>2, GateStep DEF LinksInv
<1>2. CASE OrdersNext /\ links' = Forget(links) /\ UNCHANGED <<needs, current, raced, obeyed>>
  BY <1>2, GameStep
<1>3. CASE Refused \/ Compares \/ Adds \/ Ends \/ Removes \/ HangsUp \/ Chats \/ Encrypts \/ LogsIn
  <2>1. LinksInv'
    BY <1>3, RefusedInv, ComparesInv, AddsInv, EndsInv, RemovesInv, HangsUpInv, ChatsInv, EncryptsInv, LogsInInv
       DEF AdminInv
  <2>2. UNCHANGED orderVars /\ obeyed \subseteq obeyed'
    BY <1>3 DEF Refused, Compares, Adds, Ends, Removes, HangsUp, Chats, Encrypts, LogsIn
  <2> QED
    BY <2>1, <2>2, GateStep
<1>4. CASE AdminAims
  <2>1. LinksInv' /\ UNCHANGED orderVars /\ obeyed \subseteq obeyed'
    BY <1>4, AdminAimsInv, ServerNow DEF AdminInv, AdminAims, Obeys
  <2> QED
    BY <2>1, GateStep
<1> QED
  BY <1>1, <1>2, <1>3, <1>4, AdminClosesInv, AdminShutsDownInv, AdminReloadsInv, AdminReloadsOnInv,
     AdminSavesInv, AdminSavesOnInv, AdminLimitsInv, AdminKicksInv DEF AdminNext

\* Commands and the remote control do what they are allowed to: no command runs for less
\* access than a sound commands.xml asks, nobody is kicked by one who is not above him, a
\* closed server holds nobody who may not enter, orders are obeyed only of those admitted,
\* their number is right unless two threads changed it at once, and what players did is
\* lost at the end only by the administrator's order (commands.cpp:269, admin.cpp:181).
THEOREM OrdersKeptAlways == AdminSpec => []OrdersKept
<1>1. AdminInv => OrdersKept
  <2> SUFFICES ASSUME AdminInv PROVE OrdersKept
    OBVIOUS
  <2>1. OnlyAdmitted
    BY DEF AdminInv, LinksInv, AdminTypeOK, ObeyedThere, MayOrder, OnlyAdmitted
  <2> QED
    BY <2>1 DEF AdminInv, OrdersInv, LinksInv, Counting, EndingInv, OrdersKept, AdminHold
<1> QED
  BY <1>1, AdminInitInv, AdminNextInv, PTL DEF AdminSpec


-----------------------------------------------------------------------------
(***************************************************************************)
(* Talk: whoever is counted once too often is muted in the same step, for  *)
(* longer than the two seconds in which one of the messages is forgotten.  *)
(***************************************************************************)

\* The full buffer is muted until a message is about to leave it.
FullIsMuted(s) ==
    talk[s].count = MaxMessages + 1 => talk[s].muted > 1 \/ (talk[s].muted = 1 /\ talk[s].ticks = 1)

\* Words on their way are of somebody not muted, unless they muted him.
HeardUnmuted(s) ==
    /\ talk[s].stage \in {"asked", "counting"} => talk[s].muted = 0
    /\ talk[s].stage = "telling" /\ talk[s].muted > 0 => talk[s].hushed

SpeakerInv(s) == talk[s].count <= MaxMessages + 1 /\ FullIsMuted(s) /\ HeardUnmuted(s)

TalkInv ==
    /\ TalkTypeOK
    /\ \A s \in Speaker \ Exempt : SpeakerInv(s)
    /\ MutedUnheard
    /\ MutesGrow

TalkRecord == [stage : {"idle", "asked", "counting", "telling"}, type : Types, count : 0 .. MaxMessages + 2,
               ticks : 0 .. 1, muted : Nat, tired : Nat, hushed : BOOLEAN]

LEMMA TalkBounds == MaxMessages \in Nat /\ MuteSeconds \in Nat /\ MuteSeconds > 2 /\ Exhausted \in Nat
                    /\ ExhaustedAdd \in Nat /\ MaxMutes \in Nat /\ Exempt \subseteq Speaker
BY TalkAssumption DEF TalkAssumption

LEMMA MuteLength ==
  ASSUME NEW m \in Nat
  PROVE  MuteSeconds * (m + 1) * (m + 1) \in Nat /\ MuteSeconds * (m + 1) * (m + 1) > 2
<1>1. PICK a \in Nat : a = MuteSeconds * (m + 1) /\ a > 2
  <2> DEFINE b == MuteSeconds * m
  <2>1. MuteSeconds * (m + 1) = b + MuteSeconds
    BY TalkBounds
  <2>2. b \in Nat
    BY TalkBounds
  <2> HIDE DEF b
  <2> QED
    BY <2>1, <2>2, TalkBounds
<1>2. a * (m + 1) = a * m + a /\ a * m \in Nat
  OBVIOUS
<1> DEFINE d == a * m
<1>3. a * (m + 1) = d + a /\ d \in Nat
  BY <1>2
<1> HIDE DEF d
<1>4. a * (m + 1) \in Nat /\ a * (m + 1) > 2
  BY <1>1, <1>3
<1> QED
  BY <1>1, <1>4

\* What is left to show of a step that changes what one speaker does and mutes nobody.
LEMMA SpeakerStep ==
  ASSUME TalkInv, NEW s \in Speaker, NEW t \in TalkRecord, talk' = [talk EXCEPT ![s] = t],
         s \notin Exempt => SpeakerInv(s)', UNCHANGED <<muteCount, mutes, slips>>
  PROVE  TalkInv'
<1>1. TalkTypeOK'
  BY DEF TalkInv, TalkTypeOK, TalkRecord
<1>2. \A z \in Speaker : z # s => talk'[z] = talk[z]
  BY DEF TalkInv, TalkTypeOK
<1>3. \A z \in Speaker \ Exempt : SpeakerInv(z)'
  BY <1>2 DEF TalkInv, SpeakerInv, FullIsMuted, HeardUnmuted
<1>4. MutedUnheard' /\ MutesGrow'
  BY DEF TalkInv, MutedUnheard, MutesGrow
<1> QED
  BY <1>1, <1>3, <1>4 DEF TalkInv

LEMMA TalkNow ==
  ASSUME TalkInv, NEW s \in Speaker
  PROVE  /\ talk[s] \in TalkRecord /\ muteCount[s] \in 0 .. MaxMutes
         /\ \A t : talk' = [talk EXCEPT ![s] = t] => talk'[s] = t
         /\ s \notin Exempt => SpeakerInv(s)
BY DEF TalkInv, TalkTypeOK, TalkRecord

LEMMA FreshFits == Fresh \in TalkRecord
BY TalkBounds DEF Fresh, TalkRecord, Types

\* A step that leaves the mute and the buffer of the speaker alone.
LEMMA SaysSpellInv == ASSUME TalkInv, SaysSpell PROVE TalkInv'
<1>1. CASE UNCHANGED talk
  BY <1>1 DEF SaysSpell, TalkInv, TalkTypeOK, SpeakerInv, FullIsMuted, HeardUnmuted, MutedUnheard, MutesGrow
<1>2. CASE ~UNCHANGED talk
  <2>1. PICK s \in Speaker : Becomes(s, [talk[s] EXCEPT !.tired = Exhausted])
    BY <1>2 DEF SaysSpell, Cast, Acted
  <2> DEFINE t == [talk[s] EXCEPT !.tired = Exhausted]
  <2>2. t \in TalkRecord /\ t.count = talk[s].count /\ t.muted = talk[s].muted /\ t.ticks = talk[s].ticks
        /\ t.stage = talk[s].stage /\ t.hushed = talk[s].hushed
    BY TalkNow, TalkBounds DEF TalkRecord
  <2>3. talk' = [talk EXCEPT ![s] = t]
    BY <2>1 DEF Becomes
  <2> HIDE DEF t
  <2>4. s \notin Exempt => SpeakerInv(s)'
    BY <2>2, <2>3, TalkNow DEF SpeakerInv, FullIsMuted, HeardUnmuted
  <2> QED
    BY <2>2, <2>3, <2>4, SpeakerStep DEF SaysSpell
<1> QED
  BY <1>1, <1>2

LEMMA SaysWordsInv == ASSUME TalkInv, SaysWords PROVE TalkInv'
<1>1. PICK s \in Speaker, y \in Types :
        ~IsMuted(s) /\ Becomes(s, [talk[s] EXCEPT !.stage = "asked", !.type = y, !.hushed = FALSE])
  BY DEF SaysWords
<1> DEFINE t == [talk[s] EXCEPT !.stage = "asked", !.type = y, !.hushed = FALSE]
<1>2. t \in TalkRecord /\ t.count = talk[s].count /\ t.muted = talk[s].muted /\ t.ticks = talk[s].ticks
      /\ t.stage = "asked"
  BY TalkNow DEF TalkRecord
<1>3. talk' = [talk EXCEPT ![s] = t]
  BY <1>1 DEF Becomes
<1> HIDE DEF t
<1>4. s \notin Exempt => SpeakerInv(s)'
  <2> SUFFICES ASSUME s \notin Exempt PROVE SpeakerInv(s)'
    OBVIOUS
  <2>1. talk[s].muted = 0
    BY <1>1, TalkNow DEF IsMuted, TalkRecord
  <2> QED
    BY <1>2, <1>3, <2>1, TalkNow DEF SpeakerInv, FullIsMuted, HeardUnmuted
<1> QED
  BY <1>2, <1>3, <1>4, SpeakerStep DEF SaysWords

LEMMA Asks2Inv == ASSUME TalkInv, Asks2 PROVE TalkInv'
<1>1. PICK s \in Speaker :
        talk[s].stage = "asked" /\ Becomes(s, [talk[s] EXCEPT !.stage = IF IsMuted(s) THEN "idle" ELSE "counting"])
  BY DEF Asks2
<1> DEFINE t == [talk[s] EXCEPT !.stage = IF IsMuted(s) THEN "idle" ELSE "counting"]
<1>2. t \in TalkRecord /\ t.count = talk[s].count /\ t.muted = talk[s].muted /\ t.ticks = talk[s].ticks
      /\ t.stage \in {"idle", "counting"}
  BY TalkNow DEF TalkRecord
<1>3. talk' = [talk EXCEPT ![s] = t]
  BY <1>1 DEF Becomes
<1> HIDE DEF t
<1>4. s \notin Exempt => SpeakerInv(s)'
  BY <1>1, <1>2, <1>3, TalkNow DEF SpeakerInv, FullIsMuted, HeardUnmuted
<1> QED
  BY <1>2, <1>3, <1>4, SpeakerStep DEF Asks2

LEMMA TellsInv == ASSUME TalkInv, Tells PROVE TalkInv'
<1>1. PICK s \in Speaker :
        /\ talk[s].stage = "telling"
        /\ Becomes(s, [talk[s] EXCEPT !.stage = "idle",
                            !.tired = IF talk[s].type # "yell" THEN @ ELSE IF @ = 0 THEN Exhausted ELSE @ + ExhaustedAdd])
        /\ slips' = slips \cup (IF IsMuted(s) /\ ~talk[s].hushed THEN {s} ELSE {})
  BY DEF Tells
<1>2. PICK n \in Nat : Becomes(s, [talk[s] EXCEPT !.stage = "idle", !.tired = n])
  <2> DEFINE k == IF talk[s].type # "yell" THEN talk[s].tired
                  ELSE IF talk[s].tired = 0 THEN Exhausted ELSE talk[s].tired + ExhaustedAdd
  <2>1. Becomes(s, [talk[s] EXCEPT !.stage = "idle", !.tired = k])
    BY <1>1
  <2>2. k \in Nat
    BY TalkNow, TalkBounds DEF TalkRecord
  <2> HIDE DEF k
  <2> QED
    BY <2>1, <2>2
<1> DEFINE t == [talk[s] EXCEPT !.stage = "idle", !.tired = n]
<1>3. t \in TalkRecord /\ t.count = talk[s].count /\ t.muted = talk[s].muted /\ t.ticks = talk[s].ticks
      /\ t.stage = "idle"
  BY TalkNow DEF TalkRecord
<1>4. talk' = [talk EXCEPT ![s] = t]
  BY <1>2 DEF Becomes
<1> HIDE DEF t
<1>5. s \notin Exempt => SpeakerInv(s)'
  BY <1>3, <1>4, TalkNow DEF SpeakerInv, FullIsMuted, HeardUnmuted
<1>6. UNCHANGED slips
  <2>1. ~(IsMuted(s) /\ ~talk[s].hushed)
    BY <1>1, TalkNow DEF IsMuted, SpeakerInv, HeardUnmuted
  <2> QED
    BY <1>1, <2>1
<1>7. UNCHANGED <<muteCount, mutes, slips>>
  BY <1>6 DEF Tells
<1> QED
  BY <1>3, <1>4, <1>5, <1>7, SpeakerStep

\* A second goes by: a message leaves the full buffer before its mute ends.
LEMMA ThinksInv == ASSUME TalkInv, Thinks PROVE TalkInv'
<1>1. PICK s \in Speaker :
        Becomes(s, [talk[s] EXCEPT !.ticks = 1 - @, !.count = IF talk[s].ticks = 1 THEN Less(@) ELSE @,
                                   !.muted = Less(@), !.tired = Less(@)])
  BY DEF Thinks
<1>2. PICK r \in TalkRecord : r = talk[s]
  BY TalkNow
<1> DEFINE t == [r EXCEPT !.ticks = 1 - @, !.count = IF r.ticks = 1 THEN Less(@) ELSE @,
                          !.muted = Less(@), !.tired = Less(@)]
<1>3. /\ t.stage = r.stage /\ t.hushed = r.hushed /\ t.ticks = 1 - r.ticks /\ t.muted = Less(r.muted)
      /\ t.count = IF r.ticks = 1 THEN Less(r.count) ELSE r.count
  BY DEF TalkRecord
<1>4. t \in TalkRecord
  <2>1. /\ r.ticks \in 0 .. 1 /\ r.count \in 0 .. MaxMessages + 2 /\ r.muted \in Nat /\ r.tired \in Nat
    BY DEF TalkRecord
  <2>2. /\ 1 - r.ticks \in 0 .. 1 /\ Less(r.muted) \in Nat /\ Less(r.tired) \in Nat
        /\ (IF r.ticks = 1 THEN Less(r.count) ELSE r.count) \in 0 .. MaxMessages + 2
    BY <2>1, TalkBounds DEF Less
  <2> QED
    BY <2>2 DEF TalkRecord
<1>5. talk' = [talk EXCEPT ![s] = t]
  BY <1>1, <1>2 DEF Becomes
<1> HIDE DEF t
<1>6. s \notin Exempt => SpeakerInv(s)'
  <2> SUFFICES ASSUME s \notin Exempt PROVE SpeakerInv(s)'
    OBVIOUS
  <2>1. talk'[s] = t
    BY <1>5, TalkNow
  <2>2. r.ticks \in 0 .. 1 /\ r.count \in 0 .. MaxMessages + 2 /\ r.muted \in Nat /\ SpeakerInv(s)
    BY <1>2, TalkNow DEF TalkRecord
  <2>3. t.count <= MaxMessages + 1
    BY <1>2, <1>3, <2>2, TalkBounds DEF SpeakerInv, Less
  <2>4. t.count = MaxMessages + 1 => t.muted > 1 \/ (t.muted = 1 /\ t.ticks = 1)
    BY <1>2, <1>3, <2>2, TalkBounds DEF SpeakerInv, FullIsMuted, Less
  <2>5. /\ t.stage \in {"asked", "counting"} => t.muted = 0
        /\ t.stage = "telling" /\ t.muted > 0 => t.hushed
    BY <1>2, <1>3, <2>2 DEF SpeakerInv, HeardUnmuted, Less
  <2> QED
    BY <2>1, <2>3, <2>4, <2>5 DEF SpeakerInv, FullIsMuted, HeardUnmuted
<1> QED
  BY <1>4, <1>5, <1>6, SpeakerStep DEF Thinks

LEMMA RelogsInv == ASSUME TalkInv, Relogs PROVE TalkInv'
<1>1. PICK s \in Speaker : talk' = [talk EXCEPT ![s] = Fresh]
  BY DEF Relogs, Becomes
<1>2. talk'[s] = Fresh
  BY <1>1, TalkNow
<1>3. SpeakerInv(s)'
  BY <1>2, TalkBounds DEF Fresh, SpeakerInv, FullIsMuted, HeardUnmuted
<1> QED
  BY <1>1, <1>3, FreshFits, SpeakerStep DEF Relogs

\* The message that fills the buffer mutes for more than two seconds; nobody muted comes this far.
LEMMA CountsInv == ASSUME TalkInv, Counts PROVE TalkInv'
<1>1. PICK s \in Speaker :
        LET n == talk[s].count + 1
            length == MuteSeconds * (muteCount[s] + 1) * (muteCount[s] + 1)
            told == [talk[s] EXCEPT !.stage = "telling"]
        IN  /\ talk[s].stage = "counting"
            /\ \/ talk[s].count > MaxMessages + 1 /\ Becomes(s, told) /\ UNCHANGED <<muteCount, mutes>>
               \/ /\ talk[s].count <= MaxMessages + 1 /\ ~Over(n)
                  /\ Becomes(s, [told EXCEPT !.count = n]) /\ UNCHANGED <<muteCount, mutes>>
               \/ /\ talk[s].count <= MaxMessages + 1 /\ Over(n) /\ muteCount[s] < MaxMutes
                  /\ Becomes(s, [told EXCEPT !.count = n, !.muted = length, !.hushed = TRUE])
                  /\ muteCount' = [muteCount EXCEPT ![s] = @ + 1]
                  /\ mutes' = [mutes EXCEPT ![s] = [begun |-> @.begun + 1, last |-> length]]
  BY DEF Counts
<1>2. PICK r \in TalkRecord : r = talk[s]
  BY TalkNow
<1>3. r.count \in 0 .. MaxMessages + 2 /\ r.muted \in Nat /\ r.stage = "counting"
  BY <1>1, <1>2 DEF TalkRecord
<1>4. s \notin Exempt => r.muted = 0 /\ r.count <= MaxMessages
  BY <1>2, <1>3, TalkNow, TalkBounds DEF SpeakerInv, FullIsMuted, HeardUnmuted
<1>5. UNCHANGED slips
  BY DEF Counts
<1> DEFINE told == [r EXCEPT !.stage = "telling"]
           n == r.count + 1
<1>6. CASE r.count > MaxMessages + 1 /\ Becomes(s, told) /\ UNCHANGED <<muteCount, mutes>>
  <2>1. told \in TalkRecord /\ talk' = [talk EXCEPT ![s] = told]
    BY <1>6 DEF TalkRecord, Becomes
  <2>2. s \in Exempt
    BY <1>3, <1>4, <1>6, TalkBounds
  <2> HIDE DEF told
  <2> QED
    BY <1>5, <1>6, <2>1, <2>2, SpeakerStep
<1>7. CASE r.count <= MaxMessages + 1 /\ ~Over(n) /\ Becomes(s, [told EXCEPT !.count = n])
           /\ UNCHANGED <<muteCount, mutes>>
  <2> DEFINE t == [told EXCEPT !.count = n]
  <2>1. n \in 0 .. MaxMessages + 2 /\ n <= MaxMessages
    BY <1>3, <1>7, TalkBounds DEF Over
  <2>2. t \in TalkRecord /\ t.stage = "telling" /\ t.count = n /\ t.muted = r.muted
    BY <2>1 DEF TalkRecord
  <2>3. talk' = [talk EXCEPT ![s] = t]
    BY <1>7 DEF Becomes
  <2> HIDE DEF t, n
  <2>4. s \notin Exempt => SpeakerInv(s)'
    BY <1>4, <2>1, <2>2, <2>3, TalkNow, TalkBounds DEF SpeakerInv, FullIsMuted, HeardUnmuted
  <2> QED
    BY <1>5, <1>7, <2>2, <2>3, <2>4, SpeakerStep
<1>8. ASSUME NEW length, length = MuteSeconds * (muteCount[s] + 1) * (muteCount[s] + 1),
             r.count <= MaxMessages + 1, muteCount[s] < MaxMutes,
             Becomes(s, [told EXCEPT !.count = n, !.muted = length, !.hushed = TRUE]),
             muteCount' = [muteCount EXCEPT ![s] = @ + 1],
             mutes' = [mutes EXCEPT ![s] = [begun |-> @.begun + 1, last |-> length]]
      PROVE  TalkInv'
  <2> DEFINE t == [told EXCEPT !.count = n, !.muted = length, !.hushed = TRUE]
  <2>1. muteCount[s] \in Nat /\ muteCount[s] + 1 \in 0 .. MaxMutes
    BY <1>8, TalkNow, TalkBounds
  <2>2. length \in Nat /\ length > 2
    BY <1>8, <2>1, MuteLength
  <2>3. n \in 0 .. MaxMessages + 2
    BY <1>3, <1>8, TalkBounds
  <2>4. t \in TalkRecord /\ t.stage = "telling" /\ t.count = n /\ t.muted = length /\ t.hushed
    BY <2>2, <2>3 DEF TalkRecord
  <2>5. talk' = [talk EXCEPT ![s] = t] /\ talk'[s] = t /\ \A z \in Speaker : z # s => talk'[z] = talk[z]
    BY <1>8 DEF Becomes, TalkInv, TalkTypeOK
  <2>6. s \notin Exempt => n <= MaxMessages + 1
    BY <1>3, <1>4, TalkBounds
  <2> HIDE DEF t, n
  <2>7. \A z \in Speaker \ Exempt : SpeakerInv(z)'
    BY <2>2, <2>4, <2>5, <2>6 DEF TalkInv, SpeakerInv, FullIsMuted, HeardUnmuted
  <2>8. mutes[s] \in [begun : Nat, last : Nat] /\ mutes[s].begun = muteCount[s]
    BY DEF TalkInv, TalkTypeOK, MutesGrow
  <2>9. TalkTypeOK'
    <3>1. talk' \in [Speaker -> TalkRecord]
      BY <2>4, <2>5 DEF TalkInv, TalkTypeOK, TalkRecord
    <3>2. muteCount' \in [Speaker -> 0 .. MaxMutes]
      BY <1>8, <2>1 DEF TalkInv, TalkTypeOK
    <3>3. mutes' \in [Speaker -> [begun : Nat, last : Nat]]
      BY <1>8, <2>2, <2>8 DEF TalkInv, TalkTypeOK
    <3> QED
      BY <1>5, <3>1, <3>2, <3>3 DEF TalkInv, TalkTypeOK, TalkRecord
  <2>10. MutesGrow'
    <3>1. ASSUME NEW z \in Speaker, z # s
          PROVE  mutes'[z] = mutes[z] /\ muteCount'[z] = muteCount[z]
      BY <1>8, <3>1 DEF TalkInv, TalkTypeOK
    <3>2. mutes'[s].begun = muteCount[s] + 1 /\ muteCount'[s] = muteCount[s] + 1 /\ mutes'[s].last = length
      BY <1>8, <2>8 DEF TalkInv, TalkTypeOK
    <3>3. mutes'[s].last = MuteSeconds * mutes'[s].begun * mutes'[s].begun
      BY <1>8, <3>2
    <3>4. ASSUME NEW z \in Speaker, z # s
          PROVE  /\ mutes'[z].begun = muteCount'[z]
                 /\ mutes'[z].last = MuteSeconds * mutes'[z].begun * mutes'[z].begun
      BY <3>1, <3>4 DEF TalkInv, MutesGrow
    <3> QED
      BY <3>2, <3>3, <3>4 DEF MutesGrow
  <2>11. MutedUnheard'
    BY <1>5 DEF TalkInv, MutedUnheard
  <2> QED
    BY <2>7, <2>9, <2>10, <2>11 DEF TalkInv
<1> QED
  BY <1>1, <1>2, <1>6, <1>7, <1>8

\* The steps of the game keep the invariant of Talk.
LEMMA TalkNextInv == TalkInv /\ [TalkNext]_talkVars => TalkInv'
<1> SUFFICES ASSUME TalkInv, [TalkNext]_talkVars PROVE TalkInv'
  OBVIOUS
<1>1. CASE UNCHANGED talkVars
  BY <1>1 DEF talkVars, TalkInv, TalkTypeOK, SpeakerInv, FullIsMuted, HeardUnmuted, MutedUnheard, MutesGrow
<1> QED
  BY <1>1, SaysSpellInv, SaysWordsInv, Asks2Inv, CountsInv, TellsInv, ThinksInv, RelogsInv DEF TalkNext

LEMMA TalkInitInv == TalkInit => TalkInv
<1> SUFFICES ASSUME TalkInit PROVE TalkInv
  OBVIOUS
<1>1. TalkTypeOK
  BY FreshFits, TalkBounds DEF TalkInit, TalkTypeOK, TalkRecord
<1>2. \A s \in Speaker : SpeakerInv(s)
  BY TalkBounds DEF TalkInit, Fresh, SpeakerInv, FullIsMuted, HeardUnmuted
<1>3. MutesGrow
  <2>1. \A s \in Speaker : mutes[s].begun = 0 /\ mutes[s].last = 0 /\ muteCount[s] = 0
    BY DEF TalkInit
  <2>2. MuteSeconds * 0 = 0 /\ 0 * 0 = 0
    BY TalkBounds
  <2>3. MuteSeconds * 0 * 0 = 0
    BY <2>2
  <2> QED
    BY <2>1, <2>3 DEF MutesGrow
<1> QED
  BY <1>1, <1>2, <1>3 DEF TalkInit, TalkInv, MutedUnheard

\* In every behaviour of the talk nobody leaves the count of his messages behind him, nobody
\* muted is heard, and mutes grow with the square of their number (player.cpp:1404-1420).
THEOREM TalkHoldAlways == TalkSpec => []TalkHold
<1>1. TalkInv => TalkHold
  BY DEF TalkInv, TalkHold, AlwaysCounted, SpeakerInv
<1> QED
  BY <1>1, TalkInitInv, TalkNextInv, PTL DEF TalkSpec
=============================================================================
