CONSTANTS
    NBlocks = 9
    MgmtStart = 2
    NPages = 2
    SpareBlocks = 1
    Users = {1}
    FactoryBad <- NewChips
    ForceCreate <- Attachers
    MaxFaults = 3
    MaxCuts = 1
SPECIFICATION Spec
INVARIANTS TypeOK TableSurvives DataIntact Exclusive
CHECK_DEADLOCK FALSE
