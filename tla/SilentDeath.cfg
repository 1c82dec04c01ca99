\* As EngineRespawn, for what the comment of respawnLoop promises.
SPECIFICATION Spec
CONSTANTS
    Events = {}
    Calls = {c1, c2}
    Plugins = {}
    Routings = {"sum", "bad"}
    Refused = {"bad"}
    MaxAttempts = 2
    MaxLosses = 2
    MaxLives = 0
INVARIANTS
    NeverAbandoned
\* The bounds stop the system.
CHECK_DEADLOCK FALSE
