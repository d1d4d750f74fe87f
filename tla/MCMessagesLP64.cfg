\* The 8-byte SIZE_T of the default build, with messages and buffers of every
\* size up to three.
CONSTANTS
  Senders = {s1}
  Receivers = {r1}
  ui2_msg_count = 1
  z_maxsize = 3
  BufSizes = {1, 2, 3}
  SizeofSIZE_T = 8
  MaxSends = 3
  Clients = {"c1", "c2"}
  Keys = {"k1", "k2"}
  Requests <- MCRequests
  Ids = {1, 2}
  MAX_THREAD = 1
  CONFIG_SIZE = 1
  Size = 2
  DnsCount = 1
  Loads <- MCLoads
  MaxFaults = 1
  Callers = {"a"}
  MaxCalls = 2
  Cap = 4
  Texts <- MCTexts
SPECIFICATION MCSpec
INVARIANT SizeExact
CHECK_DEADLOCK FALSE
