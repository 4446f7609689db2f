SPECIFICATION Spec
CONSTANTS
    Instances = {1, 2}
    Partitions = {1, 2}
    RETAINED_BATCHES = 2
    EPOCH_CEILING = 2
    MaxSequence = 3
    BatchLens = {1}
    MaxPid = 3
    MaxInitEpoch = 1
    Scenarios <- MCScenarios
CHECK_DEADLOCK FALSE
INVARIANTS
    ExactlyOnce
    Atomic
PROPERTIES
    ZombieSilent
    
