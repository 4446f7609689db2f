SPECIFICATION Spec
CONSTANTS
  Cap <- MCCap
  Bases <- MCBases
INVARIANTS
    FloorIsLeast
    SearchIsLowerBound
PROPERTIES
    ImplementsReservations
