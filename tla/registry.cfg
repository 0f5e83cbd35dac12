\* Three threads around two slots and a third reservation that waits for one.
CONSTANTS
  t1 = t1
  t2 = t2
  t3 = t3
  NoThread = NoThread
  Threads = {t1, t2, t3}
  MaxSessions = 2
  MaxId = 3
SYMMETRY Symmetry
SPECIFICATION Spec
INVARIANTS TypeOK DetachWaitsForCalls RetryOwner RemovedOwnNothing
PROPERTIES NoResurrection ShutdownRecorded ImplementsLifecycle IdsNotReused
