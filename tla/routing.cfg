SPECIFICATION MCSpec
CONSTANTS
    Replica <- OneReplica
    Cycles <- EveryCycle
    Configs <- MCConfigs
    Lags = {0, 2}
    MaxLag = 1
    MaxLsn = 1
    MaxCycles = 3
INVARIANTS
    
    
    RoutedAsTold
PROPERTIES
    CycleEnds
CHECK_DEADLOCK FALSE
