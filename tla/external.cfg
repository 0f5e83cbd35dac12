CONSTANTS
  Threads = {t1, t2}
  NoThread = NoThread
  Ids = {r1, r2}
  Bodies = {b1, b2}
  None = None
  MaxWire = 2
SPECIFICATION Spec
INVARIANTS InstallsOnce LeasesAreTrue StrayOnlyIfUnnoticed
PROPERTY ImplementsOwnership
CHECK_DEADLOCK FALSE
SYMMETRY Symmetry
