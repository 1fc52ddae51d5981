-------------------------- MODULE SchedulerProofs ---------------------------
(***************************************************************************)
(* Proofs about Scheduler, for every set of callers and every bound.       *)
(***************************************************************************)
EXTENDS Scheduler, TLAPS

\* Ids are handed out in order; the other variables speak of issued ids.
Issued ==
    /\ eventList \subseteq 1 .. eventIdCount
    /\ known \cup stopped \cup fired \subseteq 1 .. eventIdCount
    /\ task <= eventIdCount
    /\ \A t \in Thread : added[t] <= eventIdCount

\* An id is in the map only while its task is queued, and a queued task was
\* neither run nor, while its id is in the map, stopped.
Queued ==
    /\ eventIdMap \subseteq eventList
    /\ fired \cap eventList = {}
    /\ fired \cap stopped = {}
    /\ stopped \cap eventIdMap = {}

\* The popped task left the queue and was not stopped; it runs once.
Popped ==
    /\ task \notin eventList \cup stopped
    /\ pc[EventThread] = "runTask" => task # 0 /\ task \notin fired
    /\ pc[EventThread] \in {"loop", "wait", "timedWait", "timeout"} => task = 0

\* The id of a task that addEvent has pushed is not known to anybody yet: the
\* task is still queued to run, or was popped.  If it takes gameLock and the
\* caller holds gameLock, it has not been run.
Adding ==
    /\ \A t \in Thread : pc[t] \in {"signal", "readId"} => added[t] # 0
    /\ \A t \in Thread : added[t] # 0 => added[t] \notin known
    /\ \A t, u \in Thread : t # u /\ added[t] # 0 => added[t] # added[u]
    /\ \A t \in Thread :
          pc[t] \in {"signal", "readId"} /\ gameLock = t /\ locks[added[t]] =>
             \/ added[t] \in eventIdMap
             \/ added[t] = task /\ pc[EventThread] = "runTask"

TimedOut == pc[EventThread] = "timeout" => deadline <= now

IInv == TypeOK /\ Issued /\ Queued /\ Popped /\ Adding /\ TimedOut /\ NoLostWakeup

USE SchedulerAssumption DEF EventId, Time, Thread, CallerPc, EventPc

LEMMA InitIInv == Init => IInv
<1> SUFFICES ASSUME Init PROVE IInv
  OBVIOUS
<1>1. TypeOK
  BY DEF Init, TypeOK
<1>2. Issued
  BY DEF Init, Issued
<1>3. Queued
  BY DEF Init, Queued
<1>4. Popped
  BY DEF Init, Popped
<1>5. Adding
  BY DEF Init, Adding
<1>6. TimedOut
  BY DEF Init, TimedOut
<1>7. NoLostWakeup
  BY DEF Init, NoLostWakeup
<1> QED
  BY <1>1, <1>2, <1>3, <1>4, <1>5, <1>6, <1>7 DEF IInv

LEMMA TickIInv ==
  ASSUME IInv, Tick
  PROVE  IInv'
<1>1. TypeOK'
  BY DEF IInv, Tick, queueVars, taskVars, TypeOK, Issued
<1>2. Issued'
  BY DEF IInv, Tick, queueVars, taskVars, TypeOK, Issued
<1>3. Queued'
  BY DEF IInv, Tick, queueVars, taskVars, TypeOK, Issued, Queued, Popped
<1>4. Popped'
  BY DEF IInv, Tick, queueVars, taskVars, TypeOK, Issued, Queued, Popped
<1>5. Adding'
  BY DEF IInv, Tick, queueVars, taskVars, TypeOK, Issued, Queued, Popped, Adding
<1>6. TimedOut'
  BY DEF IInv, Tick, queueVars, taskVars, TypeOK, TimedOut
<1>7. NoLostWakeup'
  BY DEF IInv, Tick, queueVars, taskVars, TypeOK, Issued, NoLostWakeup
<1> QED
  BY <1>1, <1>2, <1>3, <1>4, <1>5, <1>6, <1>7 DEF IInv

LEMMA WaitSignalIInv ==
  ASSUME IInv, WaitSignal
  PROVE  IInv'
<1>1. TypeOK'
  <2>1. deadline' \in Time
    BY DEF IInv, WaitSignal, TypeOK, Top
  <2>2. pc' = [pc EXCEPT ![EventThread] = "wait"] \/ pc' = [pc EXCEPT ![EventThread] = "timedWait"]
    BY DEF WaitSignal
  <2>3. pc' \in [Thread -> CallerPc \cup EventPc] /\ pc'[EventThread] \in EventPc /\ \A t \in Caller : pc'[t] = pc[t]
    BY <2>2 DEF IInv, TypeOK
  <2> QED
    BY <2>1, <2>3 DEF IInv, WaitSignal, queueVars, TypeOK
<1>2. Issued'
  BY DEF IInv, WaitSignal, queueVars, taskVars, TypeOK, Issued
<1>3. Queued'
  BY DEF IInv, WaitSignal, queueVars, taskVars, TypeOK, Issued, Queued, Popped
<1>4. Popped'
  BY DEF IInv, WaitSignal, queueVars, taskVars, TypeOK, Issued, Queued, Popped
<1>5. Adding'
  BY DEF IInv, WaitSignal, queueVars, taskVars, TypeOK, Issued, Queued, Popped, Adding
<1>6. TimedOut'
  BY DEF IInv, WaitSignal, queueVars, taskVars, TypeOK, TimedOut
<1>7. NoLostWakeup'
  BY DEF IInv, WaitSignal, queueVars, taskVars, TypeOK, Issued, NoLostWakeup
<1> QED
  BY <1>1, <1>2, <1>3, <1>4, <1>5, <1>6, <1>7 DEF IInv

LEMMA SpuriousWakeIInv ==
  ASSUME IInv, SpuriousWake
  PROVE  IInv'
<1>1. TypeOK'
  BY DEF IInv, SpuriousWake, queueVars, taskVars, Waiting, TypeOK, Issued
<1>2. Issued'
  BY DEF IInv, SpuriousWake, queueVars, taskVars, Waiting, TypeOK, Issued
<1>3. Queued'
  BY DEF IInv, SpuriousWake, queueVars, taskVars, Waiting, TypeOK, Issued, Queued, Popped
<1>4. Popped'
  BY DEF IInv, SpuriousWake, queueVars, taskVars, Waiting, TypeOK, Issued, Queued, Popped
<1>5. Adding'
  BY DEF IInv, SpuriousWake, queueVars, taskVars, Waiting, TypeOK, Issued, Queued, Popped, Adding
<1>6. TimedOut'
  BY DEF IInv, SpuriousWake, queueVars, taskVars, Waiting, TypeOK, TimedOut
<1>7. NoLostWakeup'
  BY DEF IInv, SpuriousWake, queueVars, taskVars, Waiting, TypeOK, Issued, NoLostWakeup
<1> QED
  BY <1>1, <1>2, <1>3, <1>4, <1>5, <1>6, <1>7 DEF IInv

LEMMA TimeoutIInv ==
  ASSUME IInv, Timeout
  PROVE  IInv'
<1>1. TypeOK'
  BY DEF IInv, Timeout, queueVars, taskVars, TypeOK, Issued
<1>2. Issued'
  BY DEF IInv, Timeout, queueVars, taskVars, TypeOK, Issued
<1>3. Queued'
  BY DEF IInv, Timeout, queueVars, taskVars, TypeOK, Issued, Queued, Popped
<1>4. Popped'
  BY DEF IInv, Timeout, queueVars, taskVars, TypeOK, Issued, Queued, Popped
<1>5. Adding'
  BY DEF IInv, Timeout, queueVars, taskVars, TypeOK, Issued, Queued, Popped, Adding
<1>6. TimedOut'
  BY DEF IInv, Timeout, queueVars, taskVars, TypeOK, TimedOut
<1>7. NoLostWakeup'
  BY DEF IInv, Timeout, queueVars, taskVars, TypeOK, Issued, NoLostWakeup
<1> QED
  BY <1>1, <1>2, <1>3, <1>4, <1>5, <1>6, <1>7 DEF IInv

LEMMA PopTopIInv ==
  ASSUME IInv, PopTop
  PROVE  IInv'
<1>1. TypeOK'
  BY DEF IInv, PopTop, queueVars, taskVars, Top, TypeOK, Issued
<1>2. Issued'
  BY DEF IInv, PopTop, queueVars, taskVars, Top, TypeOK, Issued
<1>3. Queued'
  BY DEF IInv, PopTop, queueVars, taskVars, Top, TypeOK, Issued, Queued, Popped
<1>4. Popped'
  BY DEF IInv, PopTop, queueVars, taskVars, Top, TypeOK, Issued, Queued, Popped
<1>5. Adding'
  BY DEF IInv, PopTop, queueVars, taskVars, Top, TypeOK, Issued, Queued, Popped, Adding
<1>6. TimedOut'
  BY DEF IInv, PopTop, queueVars, taskVars, Top, TypeOK, TimedOut
<1>7. NoLostWakeup'
  BY DEF IInv, PopTop, queueVars, taskVars, Top, TypeOK, Issued, NoLostWakeup
<1> QED
  BY <1>1, <1>2, <1>3, <1>4, <1>5, <1>6, <1>7 DEF IInv

LEMMA RunTaskIInv ==
  ASSUME IInv, RunTask
  PROVE  IInv'
<1>1. TypeOK'
  <2>1. task \in EventId
    BY DEF IInv, RunTask, TypeOK, Popped
  <2>2. /\ gameLock' \in Thread \cup {NoThread}
        /\ fired' \subseteq EventId
    BY <2>1 DEF IInv, RunTask, TypeOK
  <2>3. /\ pc' \in [Thread -> CallerPc \cup EventPc]
        /\ pc'[EventThread] \in EventPc
        /\ \A u \in Caller : pc'[u] \in CallerPc
    BY DEF IInv, RunTask, TypeOK
  <2> QED
    BY <2>2, <2>3 DEF IInv, RunTask, queueVars, TypeOK
<1>2. Issued'
  BY DEF IInv, RunTask, queueVars, TypeOK, Issued, Popped
<1>3. Queued'
  BY DEF IInv, RunTask, queueVars, taskVars, TypeOK, Issued, Queued, Popped
<1>4. Popped'
  BY DEF IInv, RunTask, queueVars, taskVars, TypeOK, Issued, Queued, Popped
<1>5. Adding'
  BY DEF IInv, RunTask, queueVars, taskVars, TypeOK, Issued, Queued, Popped, Adding
<1>6. TimedOut'
  BY DEF IInv, RunTask, queueVars, taskVars, TypeOK, TimedOut
<1>7. NoLostWakeup'
  BY DEF IInv, RunTask, queueVars, taskVars, TypeOK, Issued, NoLostWakeup
<1> QED
  BY <1>1, <1>2, <1>3, <1>4, <1>5, <1>6, <1>7 DEF IInv

LEMMA DeleteTaskIInv ==
  ASSUME IInv, DeleteTask
  PROVE  IInv'
<1>1. TypeOK'
  BY DEF IInv, DeleteTask, queueVars, taskVars, TypeOK, Issued
<1>2. Issued'
  BY DEF IInv, DeleteTask, queueVars, taskVars, TypeOK, Issued
<1>3. Queued'
  BY DEF IInv, DeleteTask, queueVars, taskVars, TypeOK, Issued, Queued, Popped
<1>4. Popped'
  BY DEF IInv, DeleteTask, queueVars, taskVars, TypeOK, Issued, Queued, Popped
<1>5. Adding'
  BY DEF IInv, DeleteTask, queueVars, taskVars, TypeOK, Issued, Queued, Popped, Adding
<1>6. TimedOut'
  BY DEF IInv, DeleteTask, queueVars, taskVars, TypeOK, TimedOut
<1>7. NoLostWakeup'
  BY DEF IInv, DeleteTask, queueVars, taskVars, TypeOK, Issued, NoLostWakeup
<1> QED
  BY <1>1, <1>2, <1>3, <1>4, <1>5, <1>6, <1>7 DEF IInv

LEMMA AddEventIInv ==
  ASSUME IInv, NEW t \in Thread, NEW c \in Time, NEW b \in BOOLEAN, AddEvent(t, c, b)
  PROVE  IInv'
<1>1. TypeOK'
  <2>1. eventIdCount + 1 \in EventId
    BY DEF IInv, TypeOK, AddEvent
  <2>2. /\ cycle' \in [EventId -> Time]
        /\ locks' \in [EventId -> BOOLEAN]
        /\ added' \in [Thread -> 0 .. MaxEvent]
        /\ eventList' \subseteq EventId
        /\ eventIdMap' \subseteq EventId
    BY <2>1 DEF IInv, TypeOK, AddEvent
  <2>3. pc' = [pc EXCEPT ![t] = "signal"] \/ pc' = [pc EXCEPT ![t] = "readId"]
    BY DEF AddEvent
  <2>4. /\ pc' \in [Thread -> CallerPc \cup EventPc]
        /\ pc'[EventThread] \in EventPc
        /\ \A u \in Caller : pc'[u] \in CallerPc
    BY <2>3 DEF IInv, TypeOK
  <2> QED
    BY <2>1, <2>2, <2>4 DEF IInv, TypeOK, AddEvent, taskVars
<1>2. Issued'
  BY DEF IInv, AddEvent, queueVars, taskVars, DoSignal, TypeOK, Issued
<1>3. Queued'
  BY DEF IInv, AddEvent, queueVars, taskVars, DoSignal, TypeOK, Issued, Queued, Popped
<1>4. Popped'
  BY DEF IInv, AddEvent, queueVars, taskVars, DoSignal, TypeOK, Issued, Queued, Popped
<1>5. Adding'
  BY DEF IInv, AddEvent, queueVars, taskVars, DoSignal, TypeOK, Issued, Queued, Popped, Adding
<1>6. TimedOut'
  BY DEF IInv, AddEvent, queueVars, taskVars, DoSignal, TypeOK, TimedOut
<1>7. NoLostWakeup'
  BY DEF IInv, AddEvent, queueVars, taskVars, DoSignal, TypeOK, Issued, NoLostWakeup
<1> QED
  BY <1>1, <1>2, <1>3, <1>4, <1>5, <1>6, <1>7 DEF IInv

LEMMA SendSignalIInv ==
  ASSUME IInv, NEW t \in Thread, SendSignal(t)
  PROVE  IInv'
<1>1. TypeOK'
  <2>1. deadline' \in Time
    BY DEF IInv, TypeOK, SendSignal
  <2>2. /\ pc' \in [Thread -> CallerPc \cup EventPc]
        /\ pc'[EventThread] \in EventPc
        /\ \A u \in Caller : pc'[u] \in CallerPc
    <3>1. CASE t = EventThread
      BY <3>1 DEF IInv, TypeOK, SendSignal
    <3>2. CASE t # EventThread
      BY <3>2 DEF IInv, TypeOK, SendSignal
    <3> QED
      BY <3>1, <3>2
  <2> QED
    BY <2>1, <2>2 DEF IInv, TypeOK, SendSignal, queueVars
<1>2. Issued'
  BY DEF IInv, SendSignal, queueVars, taskVars, Waiting, TypeOK, Issued
<1>3. Queued'
  BY DEF IInv, SendSignal, queueVars, taskVars, Waiting, TypeOK, Issued, Queued, Popped
<1>4. Popped'
  BY DEF IInv, SendSignal, queueVars, taskVars, Waiting, TypeOK, Issued, Queued, Popped
<1>5. Adding'
  BY DEF IInv, SendSignal, queueVars, taskVars, Waiting, TypeOK, Issued, Queued, Popped, Adding
<1>6. TimedOut'
  BY DEF IInv, SendSignal, queueVars, taskVars, Waiting, TypeOK, TimedOut
<1>7. NoLostWakeup'
  BY DEF IInv, SendSignal, queueVars, taskVars, Waiting, TypeOK, Issued, NoLostWakeup
<1> QED
  BY <1>1, <1>2, <1>3, <1>4, <1>5, <1>6, <1>7 DEF IInv

LEMMA ReturnIdIInv ==
  ASSUME IInv, NEW t \in Thread, ReturnId(t)
  PROVE  IInv'
<1>0. added[t] \in EventId /\ added[t] <= eventIdCount
  BY DEF IInv, ReturnId, TypeOK, Issued, Adding
<1>a. known' = known \cup {added[t]} /\ added' = [added EXCEPT ![t] = 0]
  BY DEF ReturnId
<1>1. TypeOK'
  <2>a. known' \subseteq EventId
    BY <1>0, <1>a DEF IInv, TypeOK
  <2>b. added' \in [Thread -> 0 .. MaxEvent]
    BY <1>a DEF IInv, TypeOK
  <2>1. known' \subseteq EventId /\ added' \in [Thread -> 0 .. MaxEvent]
    BY <2>a, <2>b
  <2> QED
    BY <2>1 DEF IInv, ReturnId, queueVars, taskVars, TypeOK
<1>2. Issued'
  <2>a. eventIdCount \in Nat /\ added[t] \in 1 .. eventIdCount
    BY <1>0 DEF IInv, TypeOK
  <2>b. known' \subseteq 1 .. eventIdCount
    BY <2>a, <1>a DEF IInv, Issued
  <2>1. eventIdCount \in Nat /\ known' \subseteq 1 .. eventIdCount
    BY <2>a, <2>b
  <2>2. \A u \in Thread : added'[u] <= eventIdCount
    BY <2>1, <1>a DEF IInv, Issued, TypeOK
  <2> QED
    BY <2>1, <2>2 DEF IInv, ReturnId, queueVars, taskVars, Issued
<1>3. Queued'
  BY DEF IInv, ReturnId, queueVars, taskVars, TypeOK, Issued, Queued, Popped
<1>4. Popped'
  BY DEF IInv, ReturnId, queueVars, taskVars, TypeOK, Issued, Queued, Popped
<1>5. Adding'
  BY DEF IInv, ReturnId, queueVars, taskVars, TypeOK, Issued, Queued, Popped, Adding
<1>6. TimedOut'
  BY DEF IInv, ReturnId, queueVars, taskVars, TypeOK, TimedOut
<1>7. NoLostWakeup'
  BY DEF IInv, ReturnId, queueVars, taskVars, TypeOK, Issued, NoLostWakeup
<1> QED
  BY <1>1, <1>2, <1>3, <1>4, <1>5, <1>6, <1>7 DEF IInv

LEMMA StopEventIInv ==
  ASSUME IInv, NEW t \in Thread, NEW e \in EventId, StopEvent(t, e)
  PROVE  IInv'
<1>1. TypeOK'
  BY DEF IInv, StopEvent, queueVars, taskVars, TypeOK, Issued
<1>2. Issued'
  BY DEF IInv, StopEvent, queueVars, taskVars, TypeOK, Issued
<1>3. Queued'
  BY DEF IInv, StopEvent, queueVars, taskVars, TypeOK, Issued, Queued, Popped
<1>4. Popped'
  BY DEF IInv, StopEvent, queueVars, taskVars, TypeOK, Issued, Queued, Popped
<1>5. Adding'
  BY DEF IInv, StopEvent, queueVars, taskVars, TypeOK, Issued, Queued, Popped, Adding
<1>6. TimedOut'
  BY DEF IInv, StopEvent, queueVars, taskVars, TypeOK, TimedOut
<1>7. NoLostWakeup'
  BY DEF IInv, StopEvent, queueVars, taskVars, TypeOK, Issued, NoLostWakeup
<1> QED
  BY <1>1, <1>2, <1>3, <1>4, <1>5, <1>6, <1>7 DEF IInv

LEMMA EnterIInv ==
  ASSUME IInv, NEW t \in Caller, NEW b \in BOOLEAN, Enter(t, b)
  PROVE  IInv'
<1>1. TypeOK'
  BY DEF IInv, Enter, queueVars, taskVars, TypeOK, Issued
<1>2. Issued'
  BY DEF IInv, Enter, queueVars, taskVars, TypeOK, Issued
<1>3. Queued'
  BY DEF IInv, Enter, queueVars, taskVars, TypeOK, Issued, Queued, Popped
<1>4. Popped'
  BY DEF IInv, Enter, queueVars, taskVars, TypeOK, Issued, Queued, Popped
<1>5. Adding'
  BY DEF IInv, Enter, queueVars, taskVars, TypeOK, Issued, Queued, Popped, Adding
<1>6. TimedOut'
  BY DEF IInv, Enter, queueVars, taskVars, TypeOK, TimedOut
<1>7. NoLostWakeup'
  BY DEF IInv, Enter, queueVars, taskVars, TypeOK, Issued, NoLostWakeup
<1> QED
  BY <1>1, <1>2, <1>3, <1>4, <1>5, <1>6, <1>7 DEF IInv

LEMMA LeaveIInv ==
  ASSUME IInv, NEW t \in Caller, Leave(t)
  PROVE  IInv'
<1>1. TypeOK'
  BY DEF IInv, Leave, queueVars, taskVars, TypeOK, Issued
<1>2. Issued'
  BY DEF IInv, Leave, queueVars, taskVars, TypeOK, Issued
<1>3. Queued'
  BY DEF IInv, Leave, queueVars, taskVars, TypeOK, Issued, Queued, Popped
<1>4. Popped'
  BY DEF IInv, Leave, queueVars, taskVars, TypeOK, Issued, Queued, Popped
<1>5. Adding'
  BY DEF IInv, Leave, queueVars, taskVars, TypeOK, Issued, Queued, Popped, Adding
<1>6. TimedOut'
  BY DEF IInv, Leave, queueVars, taskVars, TypeOK, TimedOut
<1>7. NoLostWakeup'
  BY DEF IInv, Leave, queueVars, taskVars, TypeOK, Issued, NoLostWakeup
<1> QED
  BY <1>1, <1>2, <1>3, <1>4, <1>5, <1>6, <1>7 DEF IInv

LEMMA NextIInv == IInv /\ [Next]_vars => IInv'
<1> SUFFICES ASSUME IInv, [Next]_vars PROVE IInv'
  OBVIOUS
<1>1. CASE Tick
  BY <1>1, TickIInv
<1>2. CASE WaitSignal
  BY <1>2, WaitSignalIInv
<1>3. CASE SpuriousWake
  BY <1>3, SpuriousWakeIInv
<1>4. CASE Timeout
  BY <1>4, TimeoutIInv
<1>5. CASE PopTop
  BY <1>5, PopTopIInv
<1>6. CASE RunTask
  BY <1>6, RunTaskIInv
<1>7. CASE DeleteTask
  BY <1>7, DeleteTaskIInv
<1>8. ASSUME NEW t \in Thread, Operation(t) PROVE IInv'
  <2>1. CASE \E c \in Time, b \in BOOLEAN : AddEvent(t, c, b)
    BY <2>1, AddEventIInv
  <2>2. CASE SendSignal(t)
    BY <2>2, SendSignalIInv
  <2>3. CASE ReturnId(t)
    BY <2>3, ReturnIdIInv
  <2>4. CASE \E e \in EventId : StopEvent(t, e)
    BY <2>4, StopEventIInv
  <2> QED
    BY <1>8, <2>1, <2>2, <2>3, <2>4 DEF Operation
<1>9. ASSUME NEW t \in Caller, NEW b \in BOOLEAN, Enter(t, b) PROVE IInv'
  BY <1>9, EnterIInv
<1>10. ASSUME NEW t \in Caller, Leave(t) PROVE IInv'
  BY <1>10, LeaveIInv
<1>11. CASE UNCHANGED vars
  BY <1>11 DEF vars, queueVars, taskVars, IInv, TypeOK, Issued, Queued, Popped,
               Adding, TimedOut, NoLostWakeup
<1> QED
  BY <1>1, <1>2, <1>3, <1>4, <1>5, <1>6, <1>7, <1>8, <1>9, <1>10, <1>11 DEF Next

\* The inductive invariant holds in every reachable state.
THEOREM Inductive == Spec => []IInv
<1> QED
  BY InitIInv, NextIInv, PTL DEF Spec

\* Type correctness of Scheduler.
THEOREM TypeCorrect == Spec => []TypeOK
<1>1. IInv => TypeOK
  BY DEF IInv
<1> QED
  BY <1>1, Inductive, PTL

\* The event thread is never asleep without a wake-up for a queued task
\* (game.cpp, Game::eventThread and Game::addEvent).
THEOREM NoLostWakeupHolds == Spec => []NoLostWakeup
<1>1. IInv => NoLostWakeup
  BY DEF IInv
<1> QED
  BY <1>1, Inductive, PTL

\* The late read of the event id in Game::addEvent meets a live task when the
\* caller holds gameLock and the task takes it.
THEOREM ReadIdLiveHolds == Spec => []ReadIdLive
<1>1. IInv => ReadIdLive
  BY DEF IInv, Adding, Queued, ReadIdLive, Live
<1> QED
  BY <1>1, Inductive, PTL

-----------------------------------------------------------------------------
(* The refinement: Scheduler implements Timers.                             *)

LEMMA InitRefines == Init => Abs!TInit
  BY DEF Init, Abs!TInit, Abs!EventId, StatusOf

\* One step of the scheduler is one step of Timers or leaves it unchanged.
LEMMA StepRefines == IInv /\ [Next]_vars => [Abs!TNext]_(Abs!tvars)
<1> SUFFICES ASSUME IInv, [Next]_vars PROVE [Abs!TNext]_(Abs!tvars)
  OBVIOUS
<1> DEFINE st == [e \in EventId |-> StatusOf(e)]
<1>1. CASE Tick
  <2>1. st' = st
    BY <1>1 DEF Tick, queueVars, taskVars, StatusOf
  <2>2. Abs!Pass
    BY <1>1, <2>1 DEF Tick, queueVars, Abs!Pass
  <2> QED
    BY <2>2 DEF Abs!TNext
<1>2. CASE \/ WaitSignal \/ SpuriousWake \/ Timeout \/ DeleteTask
           \/ \E t \in Thread : SendSignal(t) \/ ReturnId(t)
           \/ \E t \in Caller : Leave(t) \/ \E b \in BOOLEAN : Enter(t, b)
           \/ UNCHANGED vars
  <2>1. UNCHANGED <<now, cycle, eventIdCount, eventIdMap, fired, stopped>>
    BY <1>2 DEF WaitSignal, SpuriousWake, Timeout, DeleteTask, SendSignal, ReturnId,
                Leave, Enter, vars, queueVars, taskVars
  <2>2. st' = st
    BY <2>1 DEF StatusOf
  <2> QED
    BY <2>1, <2>2 DEF Abs!tvars
<1>3. CASE PopTop
  <2> PICK e \in eventList :
         /\ Top(e)
         /\ eventList' = eventList \ {e}
         /\ eventIdMap' = eventIdMap \ {e}
    BY <1>3 DEF PopTop
  <2>1. UNCHANGED <<now, cycle, eventIdCount, fired, stopped>>
    BY <1>3 DEF PopTop
  <2>2. CASE e \in eventIdMap
    <3>1. e \in EventId /\ e <= eventIdCount /\ e \notin fired /\ e \notin stopped
      BY <2>2 DEF IInv, TypeOK, Issued, Queued
    <3>a. \A f \in EventId : StatusOf(f)' = IF f = e THEN "taken" ELSE StatusOf(f)
      BY <2>1, <2>2, <3>1 DEF StatusOf, IInv, TypeOK
    <3>b. st[e] = "pending"
      BY <2>2, <3>1 DEF StatusOf, IInv, TypeOK
    <3>2. st' = [st EXCEPT ![e] = "taken"]
      BY <3>a
    <3>3. now >= cycle[e]
      BY <1>3, <3>1 DEF PopTop, IInv, TypeOK, TimedOut, NoLostWakeup, Top
    <3>4. Abs!Take(e)
      BY <2>1, <3>b, <3>2, <3>3 DEF Abs!Take
    <3> QED
      BY <3>1, <3>4 DEF Abs!TNext, Abs!EventId
  <2>3. CASE e \notin eventIdMap
    <3>1. st' = st
      BY <2>1, <2>3 DEF StatusOf
    <3> QED
      BY <2>1, <3>1 DEF Abs!tvars
  <2> QED
    BY <2>2, <2>3
<1>4. CASE RunTask
  <2>1. task \in EventId /\ task <= eventIdCount /\ task \notin eventIdMap \cup fired \cup stopped
    BY <1>4 DEF RunTask, IInv, TypeOK, Issued, Queued, Popped
  <2>2. UNCHANGED <<now, cycle, eventIdCount, eventIdMap, stopped>> /\ fired' = fired \cup {task}
    BY <1>4 DEF RunTask, queueVars
  <2>a. \A f \in EventId : StatusOf(f)' = IF f = task THEN "fired" ELSE StatusOf(f)
    BY <2>1, <2>2 DEF StatusOf, IInv, TypeOK
  <2>b. st[task] = "taken"
    BY <2>1 DEF StatusOf, IInv, TypeOK
  <2>3. st' = [st EXCEPT ![task] = "fired"]
    BY <2>a
  <2>4. Abs!Fire(task)
    BY <2>2, <2>b, <2>3 DEF Abs!Fire
  <2> QED
    BY <2>1, <2>4 DEF Abs!TNext, Abs!EventId
<1>5. ASSUME NEW t \in Thread, NEW c \in Time, NEW b \in BOOLEAN, AddEvent(t, c, b)
      PROVE  Abs!TNext
  <2> DEFINE e == eventIdCount + 1
  <2>1. e \in EventId /\ eventIdCount' = e /\ UNCHANGED <<now, fired, stopped>>
    BY <1>5 DEF AddEvent, taskVars, IInv, TypeOK
  <2>a. \A f \in EventId : StatusOf(f)' = IF f = e THEN "pending" ELSE StatusOf(f)
    BY <1>5, <2>1 DEF AddEvent, StatusOf, IInv, TypeOK, Issued
  <2>b. st[e] = "unused"
    BY <2>1 DEF StatusOf, IInv, TypeOK
  <2>2. st' = [st EXCEPT ![e] = "pending"]
    BY <2>a
  <2>3. Abs!Add(e, c)
    BY <1>5, <2>1, <2>b, <2>2 DEF AddEvent, Abs!Add
  <2> QED
    BY <2>1, <2>3 DEF Abs!TNext, Abs!EventId
<1>6. ASSUME NEW t \in Thread, NEW e \in EventId, StopEvent(t, e)
      PROVE  [Abs!TNext]_(Abs!tvars)
  <2>1. UNCHANGED <<now, cycle, eventIdCount, fired>> /\ eventIdMap' = eventIdMap \ {e}
    BY <1>6 DEF StopEvent, taskVars
  <2>2. CASE e \in eventIdMap
    <3>1. e <= eventIdCount /\ e \notin fired /\ stopped' = stopped \cup {e}
      BY <1>6, <2>2 DEF StopEvent, IInv, TypeOK, Issued, Queued
    <3>a. \A f \in EventId : StatusOf(f)' = IF f = e THEN "stopped" ELSE StatusOf(f)
      BY <2>1, <2>2, <3>1 DEF StatusOf, IInv, TypeOK
    <3>b. st[e] = "pending"
      BY <2>2, <3>1 DEF StatusOf, IInv, TypeOK
    <3>2. st' = [st EXCEPT ![e] = "stopped"]
      BY <3>a
    <3>3. Abs!Stop(e)
      BY <2>1, <3>b, <3>2 DEF Abs!Stop
    <3> QED
      BY <3>3 DEF Abs!TNext, Abs!EventId
  <2>3. CASE e \notin eventIdMap
    <3>1. stopped' = stopped /\ eventIdMap' = eventIdMap
      BY <1>6, <2>3 DEF StopEvent
    <3>2. st' = st
      BY <2>1, <3>1 DEF StatusOf
    <3> QED
      BY <2>1, <3>2 DEF Abs!tvars
  <2> QED
    BY <2>2, <2>3
<1> QED
  BY <1>1, <1>2, <1>3, <1>4, <1>5, <1>6 DEF Next, Operation

\* Whatever the interleaving, an added event is taken at most once, not before
\* its cycle, and never after Game::stopEvent answered true for it.
THEOREM Refinement == Spec => Abs!TSpec
<1> QED
  BY InitRefines, StepRefines, Inductive, PTL DEF Spec, Abs!TSpec

\* The same, under the name the model checker's run uses.
THEOREM TimersImplemented == Spec => ImplementsTimers
  BY Refinement DEF ImplementsTimers
=============================================================================
