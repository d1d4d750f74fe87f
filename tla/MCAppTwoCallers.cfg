SPECIFICATION Spec
CONSTANTS
  main = main
  t = t
  APP_MNGR_NAME = AM
  Apps = {a}
  Clients = {main, t}
  SyncClients = {main, t}
  NoTag = NoTag
  AmCap = 2
  AppCap = 1
  MaxRetry = 1
  ExitResults = {TRUE}
  MaxCalls <- MCTwoCalls
INVARIANTS TagsAreLive
CHECK_DEADLOCK FALSE
