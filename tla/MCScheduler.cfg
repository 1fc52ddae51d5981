\* Two callers, two events, three instants: an event is added earlier or later
\* than the one eventThread sleeps for, and is stopped before, while and after
\* it is popped.  No symmetry: a temporal property is checked.
SPECIFICATION FairSpec
CONSTANTS
    Caller = {c1, c2}
    EventThread = EventThread
    NoThread = NoThread
    MaxEvent = 2
    MaxTime = 2
INVARIANTS
    TypeOK
    NoLostWakeup
    ReadIdLive
PROPERTIES
    ImplementsTimers
    EveryEventFires
