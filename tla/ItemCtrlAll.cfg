SPECIFICATION BothSpec
CONSTANTS
  Items = {a, b}
  i1 = i1
  Group = grp
  Commands = {"ON", "OFF", "TOGGLE", "HALT", "RESTORE", "XON", "XOFF", "ENABLE", "DISABLE", "FREEZE", "UNFREEZE"}
  Timed = {}
  Delayed = {}
  MaxTime = 0
SYMMETRY Symmetry
INVARIANTS
  TypeOK
  PinIsState
PROPERTIES
  TimedChannelsEnd
  SwitchRules
  FrozenStays
  RestoreUndoesHalt
