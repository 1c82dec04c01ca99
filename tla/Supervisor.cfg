\* Two loads, one of a plugin of the wrong role, three deaths.
SPECIFICATION FairSpec
CONSTANTS
    Loads = {l1, l2}
    Plugins = {good, bad}
    WrongRole = {bad}
    MaxFast = 2
    MaxDeaths = 3
    Prompt = TRUE
INVARIANTS
    Owned
    SlotAttended
    NoStorm
PROPERTIES
    CallsEnd
\* The bounds stop the system.
CHECK_DEADLOCK FALSE
