SPECIFICATION FairSpec
CONSTANTS
  p1 = p1
  Phones <- OnePhone
  Lag <- IsLate
  PairingTtl = 1
  RateWindow = 1
  RateLimit = 2
  MaxFailedCodes = 1
  MaxClock = 4
  MaxRuns = 2
  MaxInvitations = 1
  MaxRequests = 2
INVARIANTS OneApprovalPerInvitation PairedByConsent CredentialsCurrent
PROPERTY WaitingEnds
