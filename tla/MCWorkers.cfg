SPECIFICATION Spec
CONSTANTS
    EPOCHS_PER_TIMELINE = 8
    MAX_COMPACT_KEYS = 2
    DELETE_RETENTION = 2
    Scenarios <- Situations
CHECK_DEADLOCK FALSE
INVARIANTS
    LogsAgree
    ConsumerAgrees
    CdcDelivered
    CdcSummaryLast
    CdcCopiesBounded
    CompactedSame
    ReaderSeesDeletes
    ReclaimedIsArchived
PROPERTIES
    FollowerCatchesUp
    CdcDrains
