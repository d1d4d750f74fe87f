\* The same constants as MCNet.cfg; what c_net_ip_config does with u_crit.
CONSTANTS
  Threads = {"x", "y"}
  Callbacks = {"f"}
  MaxItems = 3
  MaxCalls = 3
  MaxFlips = 3
  JobCallers = {"a", "b"}
  JobUrls = {"u", "v"}
  JobCalls = 2
  ScriptSets <- MCRunning
  ScriptClients = {"f", "g"}
  ScriptTries = 2
  ScriptCalls = 2
  ScriptFaults = 1
  WolTries = 2
  WolCalls = 4
SPECIFICATION MCSpec
INVARIANT CritEndsByOwner
CHECK_DEADLOCK FALSE
