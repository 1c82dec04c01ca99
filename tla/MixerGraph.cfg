\* One stage of each kind, two routing calls and a load that may fail.
SPECIFICATION MixFairSpec
CONSTANTS
    Inserts = 1
    Sums = 1
    Auxes = 1
    MaxRoutes = 2
    MaxLoads = 1
INVARIANTS
    MixedInItsBlock
PROPERTIES
    Heard
