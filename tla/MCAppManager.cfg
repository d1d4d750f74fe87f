SPECIFICATION Spec
CONSTANTS
  main = main
  t = t
  APP_MNGR_NAME = AM
  Apps = {a}
  Clients = {main, t}
  SyncClients = {main}
  NoTag = NoTag
  AmCap = 2
  AppCap = 1
  MaxRetry = 1
  ExitResults = {TRUE}
  MaxCalls <- MCMaxCalls
INVARIANTS
  TagsAreLive ManagerKnowsApps EachWaitHasOneAnswer
CHECK_DEADLOCK FALSE
