\* Two requests for IPv6, two attempts each; the bounds of the other parts are
\* in MCNetProbe.
CONSTANTS
  Settings <- MCSettings
  Disablers = {"d", "e"}
  Binds = 2
  Sends = 2
  Waits = 2
  MaxRequests = 2
  MaxDisables = 2
  MaxFaults = 1
  MaxAdverts = 1
SPECIFICATION MCSpec
INVARIANTS
  Ipv6Exact PingsExact AnswersAreOwn TextExact
PROPERTIES
  ProbesEnd
CHECK_DEADLOCK FALSE
