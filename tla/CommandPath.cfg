SPECIFICATION Spec
CONSTANTS
  d1 = d1
  d2 = d2
  c1 = c1
  c3 = c3
  Devices <- TwoPhones
  Commands <- TwoCmds
  StatusCommands <- Status
  Window = 1
  CacheSize = 1
  MaxSeq = 2
  MaxExits = 1
INVARIANT RetriesHarmless
PROPERTIES InOrderOnce LedgerSpec
CHECK_DEADLOCK FALSE
