SPECIFICATION Spec
CONSTANTS
  IdleTimeouts = {2, 4}
  Ceilings = {0, 1, 7}
  MaxPoll = 3
  Lag = 1
  MaxTime = 14
INVARIANTS TypeOK OnlySilenceKills SilenceIsNoticed
CHECK_DEADLOCK FALSE
