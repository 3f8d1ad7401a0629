CONSTANTS
  Writers = {}
  Viewers = {v1}
  Timers = {t1, t2}
  NoTimer = NoTimer
  HasSocket = FALSE
  MaxArms = 1
SPECIFICATION FairSpec
PROPERTIES
  GraceEndsHub
  ViewersNotice
CHECK_DEADLOCK FALSE
