SPECIFICATION DataSpec
CONSTANTS
  t1 = t1
  t2 = t2
  d1 = d1
  d2 = d2
  r1 = r1
  r2 = r2
  p = p
  q = q
  Threads <- Sessions
  Dbs <- Databases
  FirstDb = d1
  Providers <- TwoProviders
  Runs <- Repairers
  Homes <- RowsOf
  Keep = 1
  MaxBackups = 2
  MaxDeletes = 1
  MaxLines = 2
SYMMETRY Symmetric
CHECK_DEADLOCK FALSE
INVARIANT AllOrNothing
INVARIANT OriginalsBackedUp
INVARIANT NothingLost
PROPERTY IndexSpares
