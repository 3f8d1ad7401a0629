CONSTANTS
  first = first
  second = second
  Typed = 5
  Conns <- MCConns
  Keys <- MCKeys
  MaxTyped <- MCTyped
  MaxThreads = 1
  MaxLine = 2
  MaxHeld = 1
SPECIFICATION FairSpec
INVARIANTS
  TypeOK
  ConsoleGetsTyped
  LineIsTyped
  SlotsAccounted
  NothingLeft
PROPERTIES
  SlotReturns
CHECK_DEADLOCK FALSE
