\* What the comment of Game::eventThread says of its sleep.
SPECIFICATION Spec
CONSTANTS
    Caller = {c1}
    EventThread = EventThread
    NoThread = NoThread
    MaxEvent = 2
    MaxTime = 2
INVARIANTS
    SleepsUntilFirst
