----------------------------- MODULE Scheduler ------------------------------
(***************************************************************************)
(* The scheduler of the game server (game.cpp, scheduler.h, otsystem.h):   *)
(* Game::eventThread pops the tasks of a priority queue when they are due  *)
(* and runs them; Game::addEvent and Game::stopEvent are called by any     *)
(* thread.  eventLock makes each critical section one step here; the       *)
(* condition variable is signalled after eventLock was released, and       *)
(* gameLock, which most callers hold and most tasks take, is explicit.     *)
(***************************************************************************)
EXTENDS Naturals

CONSTANTS Caller,       \* connection threads, the admin thread, main
          EventThread,  \* the thread of Game::eventThread
          NoThread,     \* gameLock is free
          MaxEvent,     \* bound: events ever added
          MaxTime       \* bound: the clock, in ticks

ASSUME SchedulerAssumption ==
    /\ EventThread \notin Caller
    /\ NoThread \notin Caller \cup {EventThread}
    /\ MaxEvent \in Nat
    /\ MaxTime \in Nat

VARIABLES
    now,            \* OTSYS_TIME()
    gameLock,       \* the thread that holds Game::gameLock
    eventIdCount,   \* the last event id handed out
    cycle,          \* SchedulerTask::_cycle of every id
    locks,          \* does the task take gameLock before anything else?
    eventList,      \* the priority queue
    eventIdMap,     \* the ids whose task may still run
    task,           \* the task eventThread has popped, 0 if none
    deadline,       \* of the timed wait on eventSignal
    pc,             \* where each thread is
    added,          \* the task a caller of addEvent has pushed, 0 if none
    known,          \* history: ids that addEvent has returned
    stopped,        \* history: ids stopEvent answered true for
    fired           \* history: ids whose task was run

queueVars == <<eventIdCount, cycle, locks, eventList, eventIdMap, stopped>>
taskVars == <<task, deadline, fired>>
vars == <<now, gameLock, queueVars, taskVars, pc, added, known>>

EventId == 1 .. MaxEvent
Time == 0 .. MaxTime
Thread == Caller \cup {EventThread}

CallerPc == {"outside", "inside", "signal", "readId"}
EventPc == {"loop", "wait", "timedWait", "timeout", "runTask",
            "inside", "signal", "readId"}

TypeOK ==
    /\ now \in Time
    /\ gameLock \in Thread \cup {NoThread}
    /\ eventIdCount \in 0 .. MaxEvent
    /\ cycle \in [EventId -> Time]
    /\ locks \in [EventId -> BOOLEAN]
    /\ eventList \subseteq EventId
    /\ eventIdMap \subseteq EventId
    /\ task \in 0 .. MaxEvent
    /\ deadline \in Time
    /\ pc \in [Thread -> CallerPc \cup EventPc]
    /\ pc[EventThread] \in EventPc
    /\ \A t \in Caller : pc[t] \in CallerPc
    /\ added \in [Thread -> 0 .. MaxEvent]
    /\ known \subseteq EventId
    /\ stopped \subseteq EventId
    /\ fired \subseteq EventId

Init ==
    /\ now = 0
    /\ gameLock = NoThread
    /\ eventIdCount = 0
    /\ cycle = [e \in EventId |-> 0]
    /\ locks = [e \in EventId |-> FALSE]
    /\ eventList = {}
    /\ eventIdMap = {}
    /\ task = 0
    /\ deadline = 0
    /\ pc = [t \in Thread |-> IF t = EventThread THEN "loop" ELSE "outside"]
    /\ added = [t \in Thread |-> 0]
    /\ known = {}
    /\ stopped = {}
    /\ fired = {}

\* eventList.top(): any of the tasks with the smallest cycle.
Top(e) == e \in eventList /\ \A f \in eventList : cycle[e] <= cycle[f]

\* A task object exists from addEvent until eventThread deletes it.
Live(e) == e \in eventList \/ e = task

-----------------------------------------------------------------------------
(* Callers.  A caller works inside a section that holds gameLock, or in one *)
(* that does not (admin commands, start-up, the raid and server-save tasks).*)

Enter(t, takesLock) ==
    /\ pc[t] = "outside"
    /\ takesLock => gameLock = NoThread
    /\ gameLock' = IF takesLock THEN t ELSE gameLock
    /\ pc' = [pc EXCEPT ![t] = "inside"]
    /\ UNCHANGED <<now, queueVars, taskVars, added, known>>

Leave(t) ==
    /\ pc[t] = "inside"
    /\ t \in Caller
    /\ gameLock' = IF gameLock = t THEN NoThread ELSE gameLock
    /\ pc' = [pc EXCEPT ![t] = "outside"]
    /\ UNCHANGED <<now, queueVars, taskVars, added, known>>

\* Mutant of DoSignal: the empty queue is forgotten.
DoSignalBusy(c) == \E f \in eventList : cycle[f] < c

\* isEmpty || *event < *eventList.top(), evaluated after the push.  The
\* operator< of SchedulerTask compares with >, so this is true of an event
\* that is due later than the top of the queue.
DoSignal(c) == eventList = {} \/ \E f \in eventList : cycle[f] < c

\* Game::addEvent up to the release of eventLock.
AddEvent(t, c, takesLock) ==
    LET e == eventIdCount + 1 IN
    /\ pc[t] = "inside"
    /\ eventIdCount < MaxEvent
    /\ c >= now
    /\ eventIdCount' = e
    /\ cycle' = [cycle EXCEPT ![e] = c]
    /\ locks' = [locks EXCEPT ![e] = takesLock]
    /\ eventIdMap' = eventIdMap \cup {e}
    /\ eventList' = eventList \cup {e}
    /\ added' = [added EXCEPT ![t] = e]
    /\ pc' = [pc EXCEPT ![t] = IF DoSignal(c) THEN "signal" ELSE "readId"]
    /\ UNCHANGED <<now, gameLock, stopped, taskVars, known>>

Waiting == pc[EventThread] \in {"wait", "timedWait"}

\* OTSYS_THREAD_SIGNAL_SEND: lost when eventThread is not waiting.
SendSignal(t) ==
    /\ pc[t] = "signal"
    /\ pc' = [pc EXCEPT ![t] = "readId",
                        ![EventThread] = IF t = EventThread THEN "readId"
                                         ELSE IF Waiting THEN "loop" ELSE @]
    /\ deadline' = IF Waiting THEN 0 ELSE deadline
    /\ UNCHANGED <<now, gameLock, queueVars, task, fired, added, known>>

\* return event->getEventId(): addEvent reads the task it has published.
ReturnId(t) ==
    /\ pc[t] = "readId"
    /\ known' = known \cup {added[t]}
    /\ added' = [added EXCEPT ![t] = 0]
    /\ pc' = [pc EXCEPT ![t] = "inside"]
    /\ UNCHANGED <<now, gameLock, queueVars, taskVars>>

\* Game::stopEvent: the task stays in the queue, its id leaves the map.
StopEvent(t, e) ==
    /\ pc[t] = "inside"
    /\ e \in known
    /\ eventIdMap' = eventIdMap \ {e}
    /\ stopped' = IF e \in eventIdMap THEN stopped \cup {e} ELSE stopped
    /\ UNCHANGED <<now, gameLock, eventIdCount, cycle, locks, eventList,
                   taskVars, pc, added, known>>

-----------------------------------------------------------------------------
(* Game::eventThread.                                                       *)

\* Mutant of WaitSignal: it sleeps without a timeout, whatever is queued.
WaitSignalUntimed ==
    /\ pc[EventThread] = "loop"
    /\ pc' = [pc EXCEPT ![EventThread] = "wait"]
    /\ UNCHANGED <<now, gameLock, queueVars, taskVars, added, known>>

WaitSignal ==
    /\ pc[EventThread] = "loop"
    /\ \/ /\ eventList = {}
          /\ pc' = [pc EXCEPT ![EventThread] = "wait"]
          /\ UNCHANGED deadline
       \/ /\ pc' = [pc EXCEPT ![EventThread] = "timedWait"]
          /\ \E e \in eventList : Top(e) /\ deadline' = cycle[e]
    /\ UNCHANGED <<now, gameLock, queueVars, task, fired, added, known>>

\* A condition variable may wake up without a signal: the loop starts over.
SpuriousWake ==
    /\ Waiting
    /\ pc' = [pc EXCEPT ![EventThread] = "loop"]
    /\ deadline' = 0
    /\ UNCHANGED <<now, gameLock, queueVars, task, fired, added, known>>

\* pthread_cond_timedwait gives up; eventLock is not held again yet.
Timeout ==
    /\ pc[EventThread] = "timedWait"
    /\ now >= deadline
    /\ pc' = [pc EXCEPT ![EventThread] = "timeout"]
    /\ UNCHANGED <<now, gameLock, queueVars, taskVars, added, known>>

\* Mutant of PopTop: the task is run although its id has left eventIdMap.
PopTopAnyway ==
    /\ pc[EventThread] = "timeout"
    /\ \E e \in eventList :
          /\ Top(e)
          /\ eventList' = eventList \ {e}
          /\ eventIdMap' = eventIdMap \ {e}
          /\ task' = e
    /\ pc' = [pc EXCEPT ![EventThread] = "runTask"]
    /\ deadline' = 0
    /\ UNCHANGED <<now, gameLock, eventIdCount, cycle, locks, stopped, fired,
                   added, known>>

\* eventLock is held again: the task on top by now is popped, and it is run
\* only if its id is still in eventIdMap; otherwise it is deleted at once.
PopTop ==
    /\ pc[EventThread] = "timeout"
    /\ \E e \in eventList :
          /\ Top(e)
          /\ eventList' = eventList \ {e}
          /\ eventIdMap' = eventIdMap \ {e}
          /\ task' = IF e \in eventIdMap THEN e ELSE 0
          /\ pc' = [pc EXCEPT ![EventThread] =
                       IF e \in eventIdMap THEN "runTask" ELSE "loop"]
    /\ deadline' = 0
    /\ UNCHANGED <<now, gameLock, eventIdCount, cycle, locks, stopped, fired,
                   added, known>>

\* Mutant of RunTask: the task does not take gameLock.
RunTaskUnlocked ==
    /\ pc[EventThread] = "runTask"
    /\ fired' = fired \cup {task}
    /\ pc' = [pc EXCEPT ![EventThread] = "inside"]
    /\ UNCHANGED <<now, gameLock, queueVars, task, deadline, added, known>>

\* (*task)(_this): most tasks lock gameLock first.
RunTask ==
    /\ pc[EventThread] = "runTask"
    /\ locks[task] => gameLock = NoThread
    /\ gameLock' = IF locks[task] THEN EventThread ELSE gameLock
    /\ fired' = fired \cup {task}
    /\ pc' = [pc EXCEPT ![EventThread] = "inside"]
    /\ UNCHANGED <<now, queueVars, task, deadline, added, known>>

\* Mutant of DeleteTask: eventThread ends with its first task.
DeleteTaskEnds ==
    /\ pc[EventThread] = "inside"
    /\ gameLock' = IF gameLock = EventThread THEN NoThread ELSE gameLock
    /\ task' = 0
    /\ pc' = [pc EXCEPT ![EventThread] = "outside"]
    /\ UNCHANGED <<now, queueVars, deadline, fired, added, known>>

\* The task returns and is deleted.
DeleteTask ==
    /\ pc[EventThread] = "inside"
    /\ gameLock' = IF gameLock = EventThread THEN NoThread ELSE gameLock
    /\ task' = 0
    /\ pc' = [pc EXCEPT ![EventThread] = "loop"]
    /\ UNCHANGED <<now, queueVars, deadline, fired, added, known>>

Tick ==
    /\ now < MaxTime
    /\ now' = now + 1
    /\ UNCHANGED <<gameLock, queueVars, taskVars, pc, added, known>>

Operation(t) ==
    \/ \E c \in Time, takesLock \in BOOLEAN : AddEvent(t, c, takesLock)
    \/ SendSignal(t)
    \/ ReturnId(t)
    \/ \E e \in EventId : StopEvent(t, e)

Next ==
    \/ Tick
    \/ WaitSignal \/ SpuriousWake \/ Timeout \/ PopTop \/ RunTask \/ DeleteTask
    \/ \E t \in Thread : Operation(t)
    \/ \E t \in Caller : Leave(t) \/ \E takesLock \in BOOLEAN : Enter(t, takesLock)

Spec == Init /\ [][Next]_vars

\* Threads keep running, a section under gameLock ends, the mutex does not
\* starve eventThread and spurious wake-ups do not hide a timeout for ever.
Fairness ==
    /\ WF_vars(Tick)
    /\ WF_vars(WaitSignal) /\ WF_vars(PopTop) /\ WF_vars(DeleteTask)
    /\ SF_vars(Timeout) /\ SF_vars(RunTask)
    /\ \A t \in Caller : WF_vars(Leave(t))
    /\ \A t \in Thread : WF_vars(SendSignal(t)) /\ WF_vars(ReturnId(t))

FairSpec == Spec /\ Fairness

-----------------------------------------------------------------------------
(* Properties.                                                              *)

\* eventThread never sleeps without a way to be woken for a queued task: in
\* the untimed wait the queue is empty or a caller is about to signal, and
\* the deadline of the timed wait is the cycle of a task that is still
\* queued, so that no task waits longer than the latest one before it
\* (game.cpp, Game::eventThread and the unlock-then-signal of addEvent).
NoLostWakeup ==
    /\ pc[EventThread] = "wait" =>
          eventList = {} \/ \E t \in Caller : pc[t] = "signal"
    /\ pc[EventThread] \in {"timedWait", "timeout"} =>
          \E e \in eventList : cycle[e] = deadline

\* addEvent reads the event id from the task after eventLock was released,
\* when eventThread may have run and deleted the task already.  The read is
\* safe for a caller that holds gameLock and a task that takes gameLock.
ReadIdLive ==
    \A t \in Thread :
        pc[t] \in {"signal", "readId"} /\ gameLock = t /\ locks[added[t]]
            => Live(added[t])

\* The promise of the scheduler, without its threads: see Timers.
StatusOf(e) ==
    IF e > eventIdCount THEN "unused"
    ELSE IF e \in eventIdMap THEN "pending"
    ELSE IF e \in fired THEN "fired"
    ELSE IF e \in stopped THEN "stopped"
    ELSE "taken"

Abs == INSTANCE Timers WITH
           clock <- now, due <- cycle,
           status <- [e \in EventId |-> StatusOf(e)]

\* Every step of the scheduler is a step of Timers or changes nothing there:
\* an event runs once, never early, and not after stopEvent answered true.
ImplementsTimers == Abs!TSpec

\* An added event is run in the end unless it was stopped, whatever the
\* order of additions, stops, signals and timeouts.
EveryEventFires ==
    \A e \in EventId : e \in eventIdMap ~> e \in fired \cup stopped

\* Game::eventThread, game.cpp:234: "look at the first scheduled item, and
\* then sleep until it's due", "we need to get a notification if there are
\* new events added": while it sleeps, the deadline is the cycle of the first
\* item, or a notification is on its way.
SleepsUntilFirst ==
    pc[EventThread] = "timedWait" =>
        \/ \E e \in eventList : Top(e) /\ deadline = cycle[e]
        \/ \E t \in Caller : pc[t] = "signal"
=============================================================================
