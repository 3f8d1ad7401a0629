CONSTANTS
  Writers = {w1}
  Viewers = {v1}
  Timers = {t1, t2}
  NoTimer = NoTimer
  HasSocket = TRUE
  MaxArms = 1
SPECIFICATION Spec
SYMMETRY TimerSymmetry
INVARIANTS
  TypeOK
  LiveHubIsWhole
  AttachedIsServed
  NoSilentHang
  OneGraceTimer
PROPERTIES
  GraceSparesUsers
  ImplementsHubObject
CHECK_DEADLOCK FALSE
