\* Two sessions, two commands, two deaths.
SPECIFICATION FairSpec
CONSTANTS
    Issuers = {i1, i2}
    MaxCmds = 2
    MaxDeaths = 2
    MaxPolls = 1
INVARIANTS
    NoReplay
    OkWithinLife
    FilesAccounted
PROPERTIES
    Answered
\* The bounds on commands stop the system.
CHECK_DEADLOCK FALSE
