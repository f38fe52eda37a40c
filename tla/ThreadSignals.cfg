\* Two generators and two rounds, both of which main must see to stop.
CONSTANTS
  SUB_PROCESSES = 7
  MAX_SIGNAL_COUNT = 2
  ReportEvery = 2
  MaxRounds = 2
SPECIFICATION FairSpec
INVARIANTS
  TypeOK
  NoLostUpdates
  ReceivedWithinSent
  LostSignalsAreCovered
  ReportIsSnapshot
PROPERTIES
  CountsSignals
  MaxCountEnds
CHECK_DEADLOCK FALSE
