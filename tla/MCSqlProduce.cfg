SPECIFICATION Spec
CONSTANTS
  s1 = s1
  s2 = s2
  Sessions <- MCSessions
  MaxBackends = 2
  MaxXid = 3
  MaxSub = 1
  MaxLog = 3
  MaxRestarts = 1
  MarkersPerFetch = 1
  QuietStart = TRUE
  ReconcileMayFail = TRUE
  RestoreMayLoseSynced = FALSE
SYMMETRY SessionSymmetry
INVARIANTS
    RolledBackIsHidden
    CommittedIsDelivered
    LsoHoldsInFlight
    ReservationsExact
    CommittedIsDurable
