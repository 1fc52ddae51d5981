--------------------------------- MODULE Events ---------------------------------
(***************************************************************************)
(* The events that keep a creature going: eventCheck, eventCheckAttacking  *)
(* and eventWalk name an event in the scheduler, which adds the next one   *)
(* when it runs (creature.cpp, monster.cpp, game.cpp).  The thread of the  *)
(* scheduler takes an event out of the queue before it waits for gameLock: *)
(* between the two the creature may stop it, and nobody looks at the       *)
(* result of stopEvent.                                                    *)
(***************************************************************************)
EXTENDS Integers

CONSTANTS Walker, EventId, NoEvent

ASSUME EventsAssumption == NoEvent \notin EventId

VARIABLES
    slot,      \* the id a creature keeps of each kind, NoEvent for 0
    queue,     \* the events in eventIdMap
    popped,    \* the event that waits for gameLock
    life       \* of each creature

eventVars == <<slot, queue, popped, life>>

EventKind == {"think", "attack", "walk"}
Event == [id : EventId, walker : Walker, kind : EventKind]

\* mended: it has been without health and got it back, by an arena.
EventTypeOK ==
    /\ slot \in [Walker -> [EventKind -> EventId \cup {NoEvent}]]
    /\ queue \in SUBSET Event
    /\ popped \in SUBSET Event
    /\ life \in [Walker -> [state : {"new", "alive", "dead", "removed"}, mended : BOOLEAN]]

-----------------------------------------------------------------------------

\* Ids are never given twice; one that nobody names any more stands for a new one.
UsedIds(s, q) ==
    {e.id : e \in q \cup popped} \cup {s[c][k] : c \in Walker, k \in EventKind}

\* addEventThink, addEventThinkAttacking and addEventWalk.
Added(w, c, k) ==
    IF w.slot[c][k] # NoEvent THEN w
    ELSE LET id == CHOOSE i \in EventId : i \notin UsedIds(w.slot, w.queue) IN
         [slot |-> [w.slot EXCEPT ![c][k] = id],
          queue |-> w.queue \cup {[id |-> id, walker |-> c, kind |-> k]}]

\* stopEventThink, stopEventThinkAttacking and stopEventWalk.
Stopped(w, c, k) ==
    [slot |-> [w.slot EXCEPT ![c][k] = NoEvent],
     queue |-> {e \in w.queue : e.id # w.slot[c][k]}]

\* Mutation: the slot keeps an event that does not run on.
RunsOut(w, c, k) == w

\* The event runs on: the slot is emptied, whatever event it names, and filled.
RunsOn(w, c, k) ==
    IF w.slot[c][k] = NoEvent THEN w
    ELSE Added([w EXCEPT !.slot[c][k] = NoEvent], c, k)

Chains == [slot |-> slot, queue |-> queue]
Become(w) == slot' = w.slot /\ queue' = w.queue

\* Bound: no room for the three events one step may add.
Crowded == \A i, j, l \in EventId \ UsedIds(slot, queue) : i = j \/ j = l \/ i = l

-----------------------------------------------------------------------------

EventInit ==
    /\ slot = [c \in Walker |-> [k \in EventKind |-> NoEvent]]
    /\ queue = {} /\ popped = {}
    /\ life = [c \in Walker |-> [state |-> "new", mended |-> FALSE]]

\* Game::placeCreature, and onCreatureAppear of a monster or an npc.
Place ==
    \E c \in Walker, walks \in BOOLEAN :
        LET v == Added(Added(Chains, c, "think"), c, "attack") IN
        /\ life[c].state = "new" /\ ~Crowded
        /\ Become(IF walks THEN Added(v, c, "walk") ELSE v)
        /\ life' = [life EXCEPT ![c].state = "alive"]
        /\ UNCHANGED popped

\* Monster::startThink.
StartThinking ==
    \E c \in Walker, moves \in BOOLEAN :
        LET v == Added(Added(Chains, c, "think"), c, "attack") IN
        /\ life[c].state \in {"alive", "dead"} /\ ~Crowded
        /\ Become(IF moves THEN Added(v, c, "walk") ELSE v)
        /\ UNCHANGED <<popped, life>>

\* startAutoWalk, stopEventWalk.
Walk ==
    \E c \in Walker, on \in BOOLEAN :
        /\ life[c].state \in {"alive", "dead"} /\ ~Crowded
        /\ Become(IF on THEN Added(Chains, c, "walk") ELSE Stopped(Chains, c, "walk"))
        /\ UNCHANGED <<popped, life>>

\* The event thread takes an event out of eventIdMap.
Pop ==
    \E e \in queue :
        /\ popped = {}
        /\ popped' = {e} /\ queue' = queue \ {e}
        /\ UNCHANGED <<slot, life>>

\* Game::removeCreature.
Gone(w, c) == Stopped(Stopped(w, c, "think"), c, "attack")

\* Game::checkCreature of a live creature: onThink, which may end in
\* Monster::stopThink; of one that is in an arena without health, onThink and the
\* way out; of any other without health, the removal.
RunThink(e) ==
    LET c == e.walker IN
    /\ e.kind = "think"
    /\ \/ life[c].state \notin {"alive", "dead"} /\ UNCHANGED <<slot, queue, life>>
       \/ /\ life[c].state = "alive"
          /\ Become(RunsOn(Chains, c, "think")) /\ UNCHANGED life
       \/ /\ life[c].state = "alive"
          /\ Become(Stopped(Stopped(Chains, c, "think"), c, "walk")) /\ UNCHANGED life
       \/ /\ life[c].state = "dead"
          /\ Become(RunsOn(Chains, c, "think"))
          /\ life' = [life EXCEPT ![c] = [state |-> "alive", mended |-> TRUE]]
       \/ /\ life[c].state = "dead"
          /\ Become(Gone(Chains, c))
          /\ life' = [life EXCEPT ![c].state = "removed"]

\* checkCreatureAttacking and checkWalk do nothing for a creature without health:
\* its chain ends and its slot goes on naming the event.  Monster::onWalk of one
\* that is not active ends the chain and empties the slot.
RunOther(e) ==
    LET c == e.walker IN
    /\ e.kind # "think"
    /\ \/ life[c].state # "alive" /\ UNCHANGED <<slot, queue>>
       \/ life[c].state = "alive" /\ Become(RunsOn(Chains, c, e.kind))
       \/ /\ life[c].state = "alive" /\ e.kind = "walk"
          /\ Become([Chains EXCEPT !.slot[c]["walk"] = NoEvent])
    /\ UNCHANGED life

Run ==
    \E e \in popped :
        /\ ~Crowded
        /\ popped' = {}
        /\ RunThink(e) \/ RunOther(e)

LoseHealth ==
    \E c \in Walker :
        /\ life[c].state = "alive"
        /\ life' = [life EXCEPT ![c].state = "dead"]
        /\ UNCHANGED <<slot, queue, popped>>

TakeAway ==
    \E c \in Walker :
        /\ life[c].state \in {"alive", "dead"}
        /\ life' = [life EXCEPT ![c].state = "removed"]
        /\ Become(Gone(Chains, c))
        /\ UNCHANGED popped

EventNext ==
    \/ Place \/ StartThinking \/ Walk \/ Pop \/ Run \/ LoseHealth \/ TakeAway

EventSpec == EventInit /\ [][EventNext]_eventVars

-----------------------------------------------------------------------------

\* No chain is lost: what a live creature keeps the id of is in the scheduler or
\* about to run, so the creature goes on thinking, attacking and walking, and an
\* empty slot can be filled.  One that an arena gave its health back is excepted:
\* its attack may have come due before and never come again.
NoLostChain ==
    \A c \in Walker, k \in EventKind :
        life[c].state = "alive" /\ ~life[c].mended /\ slot[c][k] # NoEvent =>
            [id |-> slot[c][k], walker |-> c, kind |-> k] \in queue \cup popped

=============================================================================
