\* Two tempi, a grid of one bar, a lead of two units, callbacks up to one unit late, four lines.
SPECIFICATION Spec
CONSTANTS
    Durations = {4, 5}
    Grid = 4
    Lead = 2
    MaxLag = 1
    MaxNow = 13
    MaxCommands = 4
INVARIANTS
    Armed
    Quiet
PROPERTIES
    OnTime
    Gapless
\* The bounds stop the system.
CHECK_DEADLOCK FALSE
