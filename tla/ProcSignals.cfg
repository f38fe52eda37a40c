\* Two generators and two rounds; a reporter that is slow or whose fork fails.
CONSTANTS
  SUB_PROCESSES = 7
  MAX_SIGNAL_COUNT = 2
  ReportEvery = 2
  MaxRounds = 2
  Slow = {4}
  NotForked = {4}
  Lingering = {6}
SPECIFICATION FairSpec
INVARIANTS
  TypeOK
  NoLostUpdates
  ReportIsSnapshot
  BothUpdatersCount
PROPERTIES
  CountsSignals
  EveryProcessEnds
CHECK_DEADLOCK FALSE
