SPECIFICATION ConfigSpec
CONSTANTS
  Apis = {"a"}
  MaxJobs = 3
  MaxFailures = 2
  MaxCrashes = 1
CHECK_DEADLOCK FALSE
INVARIANT NoDeadGateway
INVARIANT Agreement
INVARIANT RolledBack
INVARIANT SignInSurvives
