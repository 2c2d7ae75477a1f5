SPECIFICATION FairSpec
CONSTANTS
  MaxLen = 7
  FRAME = 2
  SEQS = 4
  Braces = {1, 3}
  Closers = {4}
  MaxTries = 2
  Networks = {{}, {"slowWriter"}, {"slowWriter", "retry"}, {"loss", "retry"}}
INVARIANTS
  TypeOK
PROPERTIES
  StreamKept
  Delivered
  TransferEnds
CHECK_DEADLOCK FALSE
