\* Two messages and two processes of a session, with a call that stops it and a fault.
SPECIFICATION FairSpec
CONSTANTS
    Waiters = {w1}
    MaxStarts = 2
    MaxSends = 2
    MaxFrames = 1
    MaxFaults = 1
INVARIANTS
    ReleaseIsComplete
    TurnsAreOwned
PROPERTIES
    AnswersAreTrue
    InterruptsEnd
CHECK_DEADLOCK FALSE
