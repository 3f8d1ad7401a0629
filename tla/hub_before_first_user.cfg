CONSTANTS
  Writers = {}
  Viewers = {v1}
  Timers = {t1, t2}
  NoTimer = NoTimer
  HasSocket = TRUE
  MaxArms = 1
SPECIFICATION FairSpec
PROPERTIES LiveBeforeFirstUser
CHECK_DEADLOCK FALSE
