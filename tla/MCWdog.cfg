SPECIFICATION FairSpec
CONSTANTS
  w1 = w1
  w2 = w2
  w3 = w3
  Wdog = {w1, w2, w3}
  Delays = {0, 1, 3}
PROPERTIES ImplementsAlarmClock StartIsExact TimerEnds EveryWatchdogEnds
