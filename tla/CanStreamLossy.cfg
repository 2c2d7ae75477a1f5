SPECIFICATION Spec
CONSTANTS
  MaxLen = 5
  FRAME = 2
  SEQS = 4
  Braces = {1, 3}
  Closers = {4}
  MaxTries = 1
  Networks = {{"loss"}}
CHECK_DEADLOCK FALSE
PROPERTIES
  Reliable
