SPECIFICATION Spec
CONSTANTS
  s1 = s1
  Sessions <- MCSessions
  MaxBackends = 1
  MaxXid = 2
  MaxSub = 2
  MaxLog = 3
  MaxRestarts = 1
  MarkersPerFetch = 2
  QuietStart = TRUE
  ReconcileMayFail = FALSE
  RestoreMayLoseSynced = TRUE
INVARIANTS
    ReadsCommitted
