\* Two threads, one client and three registrations at the monitor; two threads
\* that look up two hosts; four calls of wake on LAN.
CONSTANTS
  Threads = {"x", "y"}
  Callbacks = {"f"}
  MaxItems = 3
  MaxCalls = 3
  MaxFlips = 3
  JobCallers = {"a", "b"}
  JobUrls = {"u", "v"}
  JobCalls = 2
  ScriptSets <- MCRunning
  ScriptClients = {"f", "g"}
  ScriptTries = 2
  ScriptCalls = 2
  ScriptFaults = 1
  WolTries = 2
  WolCalls = 4
SPECIFICATION MCSpec
INVARIANTS
  MonitorExact JobsExact ScriptsExact
PROPERTIES
  RequestsEnd
CHECK_DEADLOCK FALSE
