\* Four threads, nested three deep, in the critical section; three threads of
\* the library, one of which suspends and has private data; three timers, one of
\* them repeating.
CONSTANTS
  Threads = {a, b, c, d}
  Nobody = Nobody
  MaxNest = 3
  Names = {"n1", "n2"}
  Keys = {"k1", "k2"}
  MaxThreads = 3
  Busy = {1}
  Timers = {"once1", "once2", "repeat"}
  Repeating = {"repeat"}
  Delays <- MCDelays
  MaxTime = 3
  MaxStarts = 3
SPECIFICATION MCSpec
INVARIANTS
  MutualExclusion EndAssertsHold ThreadsEndOnce TimersExact
PROPERTIES
  ExitsReaped 
