CONSTANTS
  alice = alice
  staff = staff
  con = con
  vm = vm
  Users <- MCUsers
  Groups <- MCGroups
  Names <- MCNames
  Everyone = Everyone
  None = None
  Absent = Absent
  Cfgs <- MCCfgs
  Maps <- MCMaps
  EmptyCfg <- MCEmptyCfg
  EmptyMap <- MCEmptyMap
  TooLong = {}
  Unsendable = {}
  MaxNested = 1
  MaxPush = 1
  Sessions = {s1}
SPECIFICATION Spec
PROPERTIES CutsOnlyRevoked
