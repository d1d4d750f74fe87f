SPECIFICATION MCSpec
CONSTANTS
  ta = ta
  tb = tb
  NoTag = NoTag
  Threads = {ta, tb}
  Setups <- MCSetups
  CountMod = 4
  LowWater = 1
  AddNum = 2
  MaxAllocs = 4
  MaxDepth = 2
  StartTable = 2
  StartFaults = 1
  EnvNames = {"a", "b"}
  MaxEnv = 4
  EnvDepth = 3
  EnvUsers = {"u"}
  LinkHandles = 3
  LinkDepth = 3
  LinkSteps = 8
  QueueUsers = {"u", "v"}
  QueueNames = {"x", "y", "z"}
  MaxQueues = 4
  Senders = {"u", "v"}
  Lengths = {0, 1, 3}
  MAX_USR_MSG_LEN = 1
  MaxMsgSize = 2
  MsgCount = 2
  MaxSends = 3
  SendFaults = 2
INVARIANTS
  HandlesExact ListExact EnvironmentsLive StartedMeansRunning MessagesWhole StartOrdered
PROPERTIES
  CallsEnd
CHECK_DEADLOCK FALSE
