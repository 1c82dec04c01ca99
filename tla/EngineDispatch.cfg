\* No routing calls: two plays, a plugin, a sequence cleared once, two losses.
SPECIFICATION Spec
CONSTANTS
    Events = {e1, e2}
    Calls = {}
    Plugins = {p1}
    Routings = {"sum"}
    Refused = {}
    MaxAttempts = 1
    MaxLosses = 2
    MaxLives = 1
INVARIANTS
    NoStaleDispatch
    ActiveIsLoaded
PROPERTIES
    NoGhost
\* The bounds stop the system.
CHECK_DEADLOCK FALSE
