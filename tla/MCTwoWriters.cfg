SPECIFICATION SafetySpec
CONSTANTS
    EPOCHS_PER_TIMELINE = 8
    MAX_COMPACT_KEYS = 2
    DELETE_RETENTION = 2
    Scenarios <- LateSituations
PROPERTIES
    NeverTwoWriters
CHECK_DEADLOCK FALSE
