\* No plays: two crossing routing calls, a refused one, two losses.
SPECIFICATION FairSpec
CONSTANTS
    Events = {}
    Calls = {c1, c2}
    Plugins = {}
    Routings = {"sum", "bad"}
    Refused = {"bad"}
    MaxAttempts = 2
    MaxLosses = 2
    MaxLives = 0
INVARIANTS
    NoOrphanDaemon
    OnlyRestoringAbandons
    RoutingAgrees
PROPERTIES
    Settles
\* The bounds stop the system.
CHECK_DEADLOCK FALSE
