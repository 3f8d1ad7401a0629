CONSTANTS
  Cfgs = {cfg1, longCfg}
  Maps = {map1, dated}
  EmptyCfg = none
  EmptyMap = nobody
  TooLong = {longCfg}
  Unsendable = {dated}
  MaxNested = 1
  MaxPush = 1
  MaxFaults = 2
SPECIFICATION Spec
INVARIANTS
  TypeOK
  InSyncWhileUp
  
PROPERTIES
  RulesTravelWhileUp
CHECK_DEADLOCK FALSE
