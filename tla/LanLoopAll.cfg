SPECIFICATION FairSpec
CONSTANTS
  NBrokers = 3
  MaxErrors = 1
  REINIT_TICKS = 1
  RETAIN_TICKS = 2
  RECONNECT_TICKS = 3
  RELOAD_TICKS = 4
  NOT_CONFIGURED_TICKS = 5
INVARIANTS
  TypeOK
  LockedTreeAlive
  ServedTreeRestored
PROPERTIES
  RetainedInTime
  Converges
