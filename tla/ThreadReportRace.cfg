\* One round of one generator and a report after every signal suffice.
CONSTANTS
  SUB_PROCESSES = 7
  MAX_SIGNAL_COUNT = 2
  ReportEvery = 1
  MaxRounds = 2
SPECIFICATION Spec
INVARIANT
  ExclusiveAccess
CHECK_DEADLOCK FALSE
