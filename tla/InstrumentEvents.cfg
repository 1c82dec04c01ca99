SPECIFICATION Spec
CONSTANTS
    Notes = {n1, n2}
    Key0 = k0
    Vst3 = FALSE
    Slots = 2
    Window = 1
    Backlog = 1
    Spill = 0
    MaxBlocks = 4
    MaxDeaths = 1
INVARIANTS
    EventsIntact
    ChokeProtects
    NoLeak
CONSTRAINT
    Untorn
CHECK_DEADLOCK FALSE
