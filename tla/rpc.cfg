CONSTANTS
  Sessions = {s1, s2}
  Nobody = Nobody
  SeqMod = 5
  Capacity = 2
  MaxReads = 2
  MaxCalls = 6
SPECIFICATION FairSpec
INVARIANTS
  TypeOK
  OwnAnswer
  InStep
PROPERTIES CallsReturn
CHECK_DEADLOCK FALSE
