SPECIFICATION FairSpec
CONSTANTS
  c1 = c1
  c2 = c2
  t1 = t1
  t2 = t2
  Callers <- TwoCallers
  Tasks <- TwoTasks
  Forms <- TwoForms
  Exiter = exiter
  NoTask = notask
  AutoReconnect = TRUE
  MaxOps = 2
  MaxExits = 1
  MaxOrphans = 0
INVARIANTS OneRun SavedIsInForce RunShown
PROPERTY RestartReturns
CHECK_DEADLOCK FALSE
