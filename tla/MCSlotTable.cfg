SPECIFICATION Spec
CONSTANTS
  a = a
  b = b
  c = c
  Free = Free
  t1 = t1
  t2 = t2
  Partitions <- MCPartitions
  Start <- MCStart
  N = 3
  Holders <- MCHolders
  Droppable <- OneDroppable
  MaxLog = 3
SYMMETRY HolderSymmetry
INVARIANTS
  PositionIsCurrent
  KeptLso
  KeptReleased
