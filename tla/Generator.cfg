SPECIFICATION FairSpec
CONSTANTS
    StartModes = {"regular", "burst", "night"}
    StartRps = {0, 5}
    Controls <- MCControls
    NoControl = NoControl
    BurstTargets = {3, 4}
    PerTick = 2
    MaxControls = 2
INVARIANTS
    TypeOK
    PaceSafe
    BurstSchedule
PROPERTIES
    PaceFollows
    GeneratorReturns
