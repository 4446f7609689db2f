SPECIFICATION Spec
CONSTANTS
    Members = {1, 2, 3}
    Partitions = {1, 2, 3}
    Records = 2
    MAX_RECORD_LOCKS = 2
    MAX_DELIVERY_ATTEMPTS = 2
    Scenarios <- MCScenarios
CHECK_DEADLOCK FALSE
INVARIANTS
    OneOwner
    HandedOver
    SharedOnce
PROPERTIES
    CommitsByOwner
    GroupSettles
    Converges
    SharesDrain
