SPECIFICATION DriversSpec
CONSTANTS
  m1 = m1
  m2 = m2
  Time1 = 3
  Time2 = 1
  Motors = {m1, m2}
  Feedback = {m1}
  OnTime <- OnTimes
  QUOTE = 1
  MAX = 2
  ERR = 0
  DEFAULT = 2
  WORD = 4
  CLOCK = 4
  NoValue = NoValue
  Drivers = {"metered"}
PROPERTIES
  PumpNeedsZone
CHECK_DEADLOCK FALSE
