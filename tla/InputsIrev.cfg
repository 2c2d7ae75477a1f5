SPECIFICATION Spec
CONSTANTS
  Configs <- ConfigSet
  ATTEMPTS = 1
  T_RPT_PULSE = 1
  T_RPT = 2
  T_IDLE = 3
  T_LONG = 4
  T_REPEAT = 5
  CLOCK = 8
  MaxLag = 2
INVARIANTS
  IrevAlternates
