\* Effect child, two deaths, replacements that start after the host stalled.
SPECIFICATION FairSpec
CONSTANTS
    Slots = 2
    InOrder = FALSE
    Settled = TRUE
    MaxSeq = 8
    MaxRespawns = 2
INVARIANTS
    SlotExclusive
    FreshIsOwnBlock
    ConsumesOwnBlock
PROPERTY
    StallEnds
\* The bound MaxSeq stops the host.
CHECK_DEADLOCK FALSE
