\* A play for now and one ahead, two blocks long, a callback that misses its lock.
SPECIFICATION PlayFairSpec
CONSTANTS
    Plays = {0, 1}
    LastStart = 1
    Length = 2
    LastPlayAt = 1
    MaxMissed = 1
INVARIANTS
    InStep
    EndedAfterSound
PROPERTIES
    NoEndAfterStop
    Told
\* The bounds stop the system.
CHECK_DEADLOCK FALSE
