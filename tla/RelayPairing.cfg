CONSTANTS
  i1 = i1  i2 = i2
  Pids = {i1, i2}
  NoPid = nopid
  NoPairing = nopairing
  Phone = phone
  Desk = desk
  MaxFailed = 2
  MaxExchanges = 3
  MaxLosses = 1
SPECIFICATION Spec
INVARIANTS PairedByConsent GuessesBounded AnswerUnderWay
PROPERTY VerdictFinal
SYMMETRY Symmetric
CHECK_DEADLOCK FALSE
