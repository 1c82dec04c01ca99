\* One session, up to three commands, two deaths.
SPECIFICATION FairSpec
CONSTANTS
    EvtSlots = 2
    Sessions = {s1}
    MaxCmds = 3
    MaxDeaths = 2
INVARIANTS
    OwnerToldTruth
    NeverDeferred
PROPERTIES
    LosslessFifo
    CloseEnds
\* The bounds stop the system.
CHECK_DEADLOCK FALSE
