\* Two processes, two calls, one evaluation of either shape.
SPECIFICATION FairSpec
CONSTANTS
    Calls = {c1, c2}
    Texts <- MCTexts
    MaxEngines = 2
    MaxEvals = 1
INVARIANTS
    NoStray
    OwnAnswer
    LinesOnce
PROPERTIES
    NothingHangs
\* The bounds stop the system.
CHECK_DEADLOCK FALSE
