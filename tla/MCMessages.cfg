\* One sender and two receivers on a queue of two messages; the bounds of the
\* other parts are in MCMessages.
CONSTANTS
  Senders = {s1}
  Receivers = {r1, r2}
  ui2_msg_count = 2
  z_maxsize = 2
  BufSizes = {1, 3}
  SizeofSIZE_T = 8
  MaxSends = 3
  Clients = {"c1", "c2"}
  Keys = {"k1", "k2"}
  Requests <- MCRequests
  Ids = {1, 2}
  MAX_THREAD = 1
  CONFIG_SIZE = 1
  Size = 2
  DnsCount = 1
  Loads <- MCLoads
  MaxFaults = 1
  Callers = {"a"}
  MaxCalls = 2
  Cap = 4
  Texts <- MCTexts
SPECIFICATION MCSpec
INVARIANTS
  NoLostWakeup SizeNeverShort ConnectionsServed RequestsExact
PROPERTIES
  ImplementsFifo EveryMessageLeaves CallsReturn
CHECK_DEADLOCK FALSE
