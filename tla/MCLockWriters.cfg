\* The constants of MCLock.cfg; a lock with several writers.
CONSTANTS
  Readers = {a, b, c}
  Writers = {a, b, c}
  Deleters = {a, b, c}
  Creator = a
  Nobody = Nobody
  MaxHold = 3
  MaxCalls = 4
  ManyHold = 2
  ManyCalls = 3
  e_type = "MUTEX"
  ui4_init_value = 1
  MaxValue = 1
  MaxNest = 2
SPECIFICATION MCSpec
INVARIANT WriterIsAlone
CHECK_DEADLOCK FALSE
