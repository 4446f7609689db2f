SPECIFICATION Spec
CONSTANTS
    Clients = {1, 2}
    Partitions = {1, 2}
    MaxSeq = 3
    MAX_PARKED = 2
    MAX_QUEUED = 1
    MAX_REQUESTS_PER_TICK = 2
    MAX_SASL_FAILURES = 1
    Scenarios <- ResendScenarios
CHECK_DEADLOCK FALSE
INVARIANTS
    EveryAckIsDurable
