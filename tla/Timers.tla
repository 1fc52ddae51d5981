------------------------------- MODULE Timers -------------------------------
(***************************************************************************)
(* What Game::addEvent and Game::stopEvent promise the rest of the server: *)
(* an event that was added is executed once, never before its time, unless *)
(* stopEvent answered true for it; an event that was started can no longer *)
(* be stopped.  Nothing is said of threads, locks, queues or wake-ups: the *)
(* module Scheduler implements this one.                                   *)
(***************************************************************************)
EXTENDS Naturals

CONSTANTS MaxEvent,   \* bound on the number of events ever added
          MaxTime     \* bound on the clock

VARIABLES clock,      \* OTSYS_TIME()
          status,     \* of every event id
          due         \* the cycle an event was added with

tvars == <<clock, status, due>>

EventId == 1 .. MaxEvent
Status == {"unused", "pending", "taken", "stopped", "fired"}

TTypeOK ==
    /\ clock \in 0 .. MaxTime
    /\ status \in [EventId -> Status]
    /\ due \in [EventId -> 0 .. MaxTime]

TInit ==
    /\ clock = 0
    /\ status = [e \in EventId |-> "unused"]
    /\ due = [e \in EventId |-> 0]

Add(e, c) ==
    /\ status[e] = "unused"
    /\ c >= clock
    /\ status' = [status EXCEPT ![e] = "pending"]
    /\ due' = [due EXCEPT ![e] = c]
    /\ UNCHANGED clock

\* stopEvent answers true exactly for an event that is still pending.
Stop(e) ==
    /\ status[e] = "pending"
    /\ status' = [status EXCEPT ![e] = "stopped"]
    /\ UNCHANGED <<clock, due>>

\* From here on the event can no longer be stopped.
Take(e) ==
    /\ status[e] = "pending"
    /\ clock >= due[e]
    /\ status' = [status EXCEPT ![e] = "taken"]
    /\ UNCHANGED <<clock, due>>

Fire(e) ==
    /\ status[e] = "taken"
    /\ status' = [status EXCEPT ![e] = "fired"]
    /\ UNCHANGED <<clock, due>>

Pass ==
    /\ clock < MaxTime
    /\ clock' = clock + 1
    /\ UNCHANGED <<status, due>>

TNext ==
    \/ Pass
    \/ \E e \in EventId :
          \/ Stop(e)
          \/ Take(e)
          \/ Fire(e)
          \/ \E c \in 0 .. MaxTime : Add(e, c)

TSpec == TInit /\ [][TNext]_tvars
=============================================================================
