SPECIFICATION FairSpec
CONSTANTS
  N = 5
INVARIANTS Mutex NoLostWakeup
PROPERTIES SleepersWake
