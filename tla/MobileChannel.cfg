SPECIFICATION ChannelSpec
CONSTANTS
  PerTick = 2
  MaxClock = 3
  MaxSent = 3
  MaxBusy = 2
INVARIANT OnlyOvertakenRefused
