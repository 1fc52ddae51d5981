--------------------------------- MODULE Scripts ---------------------------------
(***************************************************************************)
(* The environments in which Lua scripts run (luascript.cpp): a stack of a *)
(* few slots that are used again, the numbers by which a script names the  *)
(* things of the game, the timers a script starts, and the combat objects, *)
(* areas and conditions it makes while it is loaded.  Everything runs      *)
(* under gameLock; one step is one function that a script calls, so that   *)
(* the steps of a script and of those that run inside it alternate.        *)
(***************************************************************************)
EXTENDS Integers, Sequences, FiniteSets

CONSTANTS Interface,    \* the interfaces: each has a Lua state and timers of its own
          Address,      \* where things lie in memory
          NoAddress,
          Depth,        \* slots of m_scriptEnv
          TopUid,       \* where m_lastUID starts again
          MaxMade       \* bound: things that come to be, timers started and combat
                        \* objects made, taken together

ASSUME ScriptsAssumption ==
    /\ NoAddress \notin Address /\ {Depth, TopUid} \subseteq Nat \ {0}
    /\ IsFiniteSet(Address) /\ Cardinality(Address) <= TopUid  \* else addThing looks for a number for ever
    /\ MaxMade \in Nat

VARIABLES
    memory,     \* what lies at an address: there, removed (in ToReleaseThings) or free
    bodies,     \* how many things there have been: who they are
    envs,       \* the environments in use, the last is getScriptEnv()
    slots,      \* what resetEnv leaves alone in a slot: m_lastUID and the last object
    global,     \* m_globalMap: where the thing with the unique id is said to be
    timing,     \* m_timerEvents and m_lastEventTimerId of each interface, the tasks of
                \* the scheduler, how many timers there have been and which are over
    objects,    \* m_combatMap and its like, and what the scripts remember of them
    astray      \* undefined behaviour was met

scriptVars == <<memory, bodies, envs, slots, global, timing, objects, astray>>
things == <<memory, bodies, global>>

Sort == {"item", "unique", "creature"}
Who == 0 .. MaxMade

\* A script names a creature by its id, a unique item on the map by its unique id,
\* and what else it meets by a number that its slot gives.
Uid == [sort : Sort, number : 0 .. (IF MaxMade > TopUid THEN MaxMade ELSE TopUid)]
NameOfUnique == [sort |-> "unique", number |-> 0]

\* given is what the script was told: that uid is the thing body.  task and timer are
\* those of a timer event: the one it was scheduled for and the one it found.
Env == [kind : {"loading", "script", "timer"}, at : Interface, names : SUBSET (Uid \X Address),
        given : SUBSET (Uid \X Who), id : Who, task : Who,
        timer : Who]

TimerEvent == [id : Who, body : Who]
Task == [at : Interface, id : Who, body : Who]
ObjectKind == {"combat", "area"}    \* conditions are made and set as areas are
Object == [kind : ObjectKind, id : Who, body : Who, part : Who]

ScriptTypeOK ==
    /\ memory \in [Address -> [state : {"there", "removed", "free"}, sort : Sort, body : Who]]
    /\ bodies \in Who /\ envs \in Seq(Env) /\ Len(envs) <= Depth /\ astray \in BOOLEAN
    /\ slots \in [1 .. Depth -> [uid : 0 .. TopUid, object : [ObjectKind -> Who]]]
    /\ global \in [at : Address \cup {NoAddress}, body : Who]
    /\ timing.timers \in [Interface -> SUBSET TimerEvent] /\ timing.tasks \subseteq Task
    /\ timing.last \in [Interface -> Who] /\ timing.over \subseteq Who
    /\ timing.made \in Who /\ objects.made \in Who
    /\ objects.map \subseteq Object /\ objects.known \in [Interface -> SUBSET Object]

Here == envs[Len(envs)]
There == {a \in Address : memory[a].state = "there"}
Free == {a \in Address : memory[a].state = "free"}

\* resetEnv, and what the caller sets next.
ResetEnv(kind, i) ==
    [kind |-> kind, at |-> i, names |-> {}, given |-> {}, id |-> 0, task |-> 0, timer |-> 0]

-----------------------------------------------------------------------------

\* m_lastUID, counted up past the numbers in use.
NextNumberUsed(names, last) == IF last >= TopUid THEN 1 ELSE last + 1
NextNumber(names, last) ==
    LET free == (NextNumberUsed(names, last) .. TopUid) \ {n[1].number : n \in {m \in names : m[1].sort = "item"}}
    IN  CHOOSE k \in free : \A m \in free : k <= m

\* ScriptEnviroment::addThing: a thing that has a name in the environment keeps it.
UidOf(e, slot, a, thing) ==
    LET known == {n \in e.names : n[2] = a} IN
    IF known # {} THEN (CHOOSE n \in known : TRUE)[1]
    ELSE CASE thing.sort = "creature" -> [sort |-> "creature", number |-> thing.body]
           [] thing.sort = "unique" -> NameOfUnique
           [] OTHER -> [sort |-> "item", number |-> NextNumber(e.names, slot.uid)]

Named(e, slot, a, thing) ==
    LET uid == UidOf(e, slot, a, thing)
    IN  [e EXCEPT !.names = {n \in @ : n[1] # uid} \cup {<<uid, a>>},
                  !.given = @ \cup {<<uid, thing.body>>}]

Counted(e, slot, a, thing) ==
    IF thing.sort = "item" /\ \A n \in e.names : n[2] # a
    THEN [slot EXCEPT !.uid = NextNumber(e.names, @)] ELSE slot

\* ScriptEnviroment::getThingByUID, in the local map, the global one and the game.
ThingByUid(e, uid) ==
    LET local == {n[2] : n \in {m \in e.names : m[1] = uid /\ m[2] \in There}}
        shared == IF uid.sort = "unique" /\ global.at \in There THEN {global.at} ELSE {}
        creatures == {c \in There : /\ uid.sort = "creature" /\ memory[c].sort = "creature"
                                    /\ memory[c].body = uid.number}
    IN  IF local # {} THEN local ELSE IF shared # {} THEN shared ELSE creatures

\* Nothing takes a thing out of m_globalMap: it may be gone, or another one may lie there.
Dangling(uid) ==
    /\ uid.sort = "unique" /\ global.at # NoAddress
    /\ memory[global.at].state = "free" \/ memory[global.at].body # global.body

CanMake == bodies + timing.made + objects.made < MaxMade    \* bound

-----------------------------------------------------------------------------

ScriptInit ==
    /\ memory = [a \in Address |-> [state |-> "free", sort |-> "item", body |-> 0]]
    /\ bodies = 0 /\ envs = <<>> /\ astray = FALSE
    /\ slots = [d \in 1 .. Depth |-> [uid |-> 0, object |-> [k \in ObjectKind |-> 0]]]
    /\ global = [at |-> NoAddress, body |-> 0]
    /\ timing = [timers |-> [i \in Interface |-> {}], last |-> [i \in Interface |-> 0],
                 tasks |-> {}, over |-> {}, made |-> 0]
    /\ objects = [map |-> {}, known |-> [i \in Interface |-> {}], made |-> 0]

\* A thing of the sort comes to be at a.
Born(a, sort) ==
    /\ CanMake /\ a \in Free
    /\ bodies' = bodies + 1
    /\ memory' = [memory EXCEPT ![a] = [state |-> "there", sort |-> sort, body |-> bodies + 1]]

\* What happens outside scripts: things come and go.  addUniqueThing, for an item of the map.
Appear ==
    \E a \in Address, sort \in Sort :
        /\ envs = <<>> /\ Born(a, sort)
        /\ sort = "unique" => global.at = NoAddress
        /\ global' = IF sort = "unique" THEN [at |-> a, body |-> bodies + 1] ELSE global
        /\ UNCHANGED <<envs, slots, timing, objects, astray>>

\* Mutation: a thing is released at once.
FreedAtOnce(a) == [memory EXCEPT ![a].state = "free"]

\* FreeThing: a thing that is removed stays until flushSendBuffers.
FreeThing(a) == [memory EXCEPT ![a].state = "removed"]

Vanish ==
    \E a \in There :
        /\ envs = <<>> /\ memory' = FreeThing(a)
        /\ UNCHANGED <<bodies, global, envs, slots, timing, objects, astray>>

\* Game::flushSendBuffers, at the end of what a client or the scheduler started.
FlushSendBuffers ==
    /\ envs = <<>> /\ \E a \in Address : memory[a].state = "removed"
    /\ memory' = [a \in Address |-> IF memory[a].state = "removed"
                                    THEN [memory[a] EXCEPT !.state = "free"] ELSE memory[a]]
    /\ UNCHANGED <<bodies, global, envs, slots, timing, objects, astray>>

-----------------------------------------------------------------------------

\* reserveScriptEnv, and the things the caller names in the new environment.
Reserved(e, args) ==
    LET d == Len(envs) + 1 IN
    /\ d <= Depth
    /\ IF args = {} THEN envs' = Append(envs, e) /\ UNCHANGED slots
       ELSE \E a \in args :
            /\ envs' = Append(envs, Named(e, slots[d], a, memory[a]))
            /\ slots' = [slots EXCEPT ![d] = Counted(e, @, a, memory[a])]

\* A script runs: it is told of the thing that it is about.  When all slots are in use
\* it does not run.
ActionScript(i) == \E a \in There : Reserved(ResetEnv("script", i), {a})
NpcThinks(i) == Reserved(ResetEnv("script", i), {})

CallScript ==
    \E i \in Interface :
        /\ ActionScript(i) \/ NpcThinks(i)
        /\ UNCHANGED <<things, timing, objects, astray>>

\* LuaScriptInterface::releaseScriptEnv, when the script is at its end.  The entry of a
\* timer is erased then; a timer that has stopped itself has erased it before.
Return ==
    /\ envs # <<>>
    /\ envs' = SubSeq(envs, 1, Len(envs) - 1)
    /\ LET mine == {t \in timing.timers[Here.at] : t.id = Here.id} IN
       IF Here.kind # "timer" THEN UNCHANGED <<timing, astray>>
       ELSE /\ astray' = (mine = {})
            /\ timing' = [timing EXCEPT !.timers[Here.at] = @ \ mine, !.over = @ \cup {Here.timer}]
    /\ UNCHANGED <<things, slots, objects>>

\* What a script finds gets a name in its environment.
FoundThing(a, thing) ==
    LET d == Len(envs) IN
    /\ envs' = [envs EXCEPT ![d] = Named(@, slots[d], a, thing)]
    /\ slots' = [slots EXCEPT ![d] = Counted(Here, @, a, thing)]

Finds(a) ==
    /\ envs # <<>> /\ a \in There /\ FoundThing(a, memory[a])
    /\ UNCHANGED <<things, timing, objects, astray>>

\* The script finds a thing of one of the sorts under a uid that it was given.
Holds(sorts) == \E g \in IF envs = <<>> THEN {} ELSE Here.given :
    \E a \in ThingByUid(Here, g[1]) : ~Dangling(g[1]) /\ memory[a].sort \in sorts

GetThingFromPos == \E a \in There : Finds(a)
GetPlayerSlotItem == \E a \in There : memory[a].sort # "creature" /\ Holds({"creature"}) /\ Finds(a)
GetContainerItem == \E a \in There : memory[a].sort # "creature" /\ Holds({"item", "unique"}) /\ Finds(a)
RegisterCreature == \E a \in There : memory[a].sort = "creature" /\ Finds(a)

\* An item that goes into a stack is gone at once.
Adds(a) ==
    /\ envs # <<>> /\ Born(a, "item")
    /\ FoundThing(a, [sort |-> "item", body |-> bodies + 1])
    /\ UNCHANGED <<global, timing, objects, astray>>

DoPlayerAddItem == \E a \in Address : Holds({"creature"}) /\ Adds(a)
DoAddContainerItem == \E a \in Address : Holds({"item", "unique"}) /\ Adds(a)

\* doCreateItem, on the ground.
CreateItem ==
    \E a \in Free :
        /\ envs # <<>> /\ CanMake
        /\ memory' = [memory EXCEPT ![a] = [state |-> "removed", sort |-> "item", body |-> bodies + 1]]
        /\ bodies' = bodies + 1
        /\ UNCHANGED <<global, envs, slots, timing, objects, astray>>

\* doSummonCreature.
SummonCreature ==
    \E a \in Address :
        /\ envs # <<>> /\ Born(a, "creature")
        /\ FoundThing(a, [sort |-> "creature", body |-> bodies + 1])
        /\ UNCHANGED <<global, timing, objects, astray>>

\* A thing is removed that the script names by a uid it was given.
Removes(g) ==
    /\ ThingByUid(Here, g[1]) # {}
    /\ IF Dangling(g[1]) THEN astray' = TRUE /\ UNCHANGED memory
       ELSE /\ \E a \in ThingByUid(Here, g[1]) : memory' = FreeThing(a)
            /\ UNCHANGED astray
    /\ UNCHANGED <<bodies, global, envs, slots, timing, objects>>

DoRemoveItem ==
    \E g \in IF envs = <<>> THEN {} ELSE Here.given : g[1].sort # "creature" /\ Removes(g)

\* Items are removed that the script does not name: those of a type that a player has, and
\* his money.
DoPlayerRemoveItem ==
    \E a \in There :
        /\ envs # <<>> /\ memory[a].sort = "item" /\ Holds({"creature"})
        /\ memory' = FreeThing(a)
        /\ UNCHANGED <<bodies, global, envs, slots, timing, objects, astray>>

\* What a spell puts on a tile: a field takes the place of another.  Nobody dies before
\* Game::checkCreature.
DoAreaCombat ==
    \E a \in There, b \in Free :
        /\ envs # <<>> /\ CanMake /\ memory[a].sort = "item"
        /\ memory' = [FreeThing(a) EXCEPT ![b] = [state |-> "there", sort |-> "item", body |-> bodies + 1]]
        /\ bodies' = bodies + 1
        /\ UNCHANGED <<global, envs, slots, timing, objects, astray>>

\* doTransformItem, doChangeTypeItem, doDecayItem: the item changes or is replaced.
TransformItem ==
    \E g \in IF envs = <<>> THEN {} ELSE Here.given :
        /\ ~Dangling(g[1]) /\ CanMake
        /\ \E a \in ThingByUid(Here, g[1]), b \in Free :
            /\ memory[a].sort # "creature"
            /\ memory' = [FreeThing(a) EXCEPT ![b] = [state |-> "there", sort |-> "item", body |-> bodies + 1]]
        /\ bodies' = bodies + 1
        /\ UNCHANGED <<global, envs, slots, timing, objects, astray>>

-----------------------------------------------------------------------------

\* luaAddEvent.
AddTimer ==
    LET i == Here.at
        t == [id |-> timing.last[i] + 1, body |-> timing.made + 1]
    IN  /\ envs # <<>> /\ CanMake
        /\ timing' = [timing EXCEPT !.last[i] = @ + 1, !.made = @ + 1,
                                    !.timers[i] = @ \cup {t},
                                    !.tasks = @ \cup {[at |-> i, id |-> t.id, body |-> t.body]}]
        /\ UNCHANGED <<things, envs, slots, objects, astray>>

\* luaStopEvent: the task stays in the scheduler and will find nothing.
StopTimer ==
    \E t \in IF envs = <<>> THEN {} ELSE timing.timers[Here.at] :
        /\ timing' = [timing EXCEPT !.timers[Here.at] = @ \ {t},
                                    !.over = IF \E d \in 1 .. Len(envs) : envs[d].timer = t.body
                                             THEN @ ELSE @ \cup {t.body}]
        /\ UNCHANGED <<things, envs, slots, objects, astray>>

\* LuaScriptInterface::executeTimerEvent: the scheduler runs a task.
ExecuteTimerEvent ==
    \E t \in timing.tasks :
        /\ envs = <<>>
        /\ timing' = [timing EXCEPT !.tasks = @ \ {t}]
        /\ LET found == {e \in timing.timers[t.at] : e.id = t.id} IN
           IF found = {} THEN UNCHANGED <<envs, slots>>
           ELSE \E e \in found :
                Reserved([ResetEnv("timer", t.at) EXCEPT !.id = t.id, !.task = t.body, !.timer = e.body], {})
        /\ UNCHANGED <<things, objects, astray>>

\* Mutation: the ids start again.
ClosedAfresh(w, i) ==
    [w EXCEPT !.timers[i] = {}, !.over = @ \cup {t.body : t \in w.timers[i]}, !.last[i] = 0]

\* closeState and initState, for a reload: the state and its timers go, the ids go on.
Closed(w, i) ==
    [w EXCEPT !.timers[i] = {}, !.over = @ \cup {t.body : t \in w.timers[i]}]

ReInitState ==
    \E i \in Interface :
        /\ envs = <<>>
        /\ timing' = Closed(timing, i)
        /\ objects' = [objects EXCEPT !.known[i] = {}]
        /\ UNCHANGED <<things, envs, slots, astray>>

\* LuaScriptInterface::loadFile, at start, by a reload and for a new npc.
LoadFile ==
    \E i \in Interface :
        /\ envs = <<>> /\ Reserved(ResetEnv("loading", i), {})
        /\ UNCHANGED <<things, timing, objects, astray>>

Loading == envs # <<>> /\ Here.kind = "loading"

\* Only while loading.  The map is shared by all, the number comes from the slot.
Makes(kind) ==
    LET d == Len(envs)
        o == [kind |-> kind, id |-> slots[d].object[kind] + 1, body |-> objects.made + 1, part |-> 0]
    IN  /\ CanMake
        /\ slots' = [slots EXCEPT ![d].object[kind] = @ + 1]
        /\ objects' = [map |-> {p \in objects.map : p.kind # kind \/ p.id # o.id} \cup {o},
                       made |-> objects.made + 1,
                       known |-> [objects.known EXCEPT ![Here.at] = @ \cup {o}]]
        /\ UNCHANGED <<things, envs, timing, astray>>

CreateCombatObject == Loading /\ Makes("combat")
CreateCombatArea == Loading /\ Makes("area")

\* getCombatObject, getCombatArea.
ObjectOf(kind, id) == {o \in objects.map : o.kind = kind /\ o.id = id}

\* The combat object that the number finds gets the area that the number finds; the script
\* means those it made.
SetCombatArea ==
    /\ Loading
    /\ \E c, p \in objects.known[Here.at] :
        /\ c.kind = "combat" /\ p.kind = "area"
        /\ \E o \in ObjectOf("combat", c.id), q \in ObjectOf("area", p.id) :
            objects' = [objects EXCEPT
                !.map = (@ \ {o}) \cup {[o EXCEPT !.part = q.body]},
                !.known[Here.at] = (@ \ {c}) \cup {[c EXCEPT !.part = p.body]}]
    /\ UNCHANGED <<things, envs, slots, timing, astray>>

ScriptNext ==
    /\ ~astray
    /\ \/ Appear \/ Vanish \/ FlushSendBuffers \/ CallScript \/ Return
       \/ GetThingFromPos \/ GetPlayerSlotItem \/ GetContainerItem \/ RegisterCreature
       \/ DoPlayerAddItem \/ DoAddContainerItem \/ CreateItem \/ SummonCreature
       \/ DoRemoveItem \/ DoPlayerRemoveItem \/ DoAreaCombat \/ TransformItem
       \/ AddTimer \/ StopTimer \/ ExecuteTimerEvent
       \/ ReInitState \/ LoadFile \/ CreateCombatObject \/ CreateCombatArea \/ SetCombatArea

ScriptSpec == ScriptInit /\ [][ScriptNext]_scriptVars

-----------------------------------------------------------------------------

\* What a script was told a uid names is what it finds under that uid, or nothing, however
\* things come, go and are transformed around it and the scripts it starts
\* (luascript.cpp:125-184).  The unique items of the map are the exception: m_globalMap
\* keeps them after they are gone.
NamesExact ==
    \A d \in 1 .. Len(envs) : \A g \in envs[d].given :
        ~Dangling(g[1]) => \A a \in ThingByUid(envs[d], g[1]) : memory[a].body = g[2]

\* A timer runs what was started with its id, once, and not after it was stopped or its
\* interface was loaded again (luascript.cpp:541-584, 4315-4377).
TimersOnce ==
    \A d \in 1 .. Len(envs) :
        envs[d].kind = "timer" => envs[d].task = envs[d].timer /\ envs[d].timer \notin timing.over

\* The combat objects and areas that the scripts remember by a number are those they made,
\* and hold what they were given: loading
\* scripts and reloads do not take numbers that are in use (luascript.cpp:227-302).
ObjectsKept == \A i \in Interface : objects.known[i] \subseteq objects.map

ScriptsHold == NamesExact /\ TimersOnce /\ ObjectsKept
=============================================================================
