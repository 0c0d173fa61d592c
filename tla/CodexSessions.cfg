SPECIFICATION Spec
CONSTANTS
  Sessions = {"s1", "s2"}
  Known = {"s1"}
  Capacity = 2
  MaxSessions = 1
  PipeSize = 1
  MaxCommands = 3
  MaxRuns = 2
CHECK_DEADLOCK FALSE
INVARIANT EventsAfterAnswer
INVARIANT ShownTurns
PROPERTY Answered
PROPERTY LossNoticed
