\* Nine scripts, typed or in a batch file, with at most two forks failing at random, and
\* so few descriptors that a batch has none to spare once two pipes were left open.
CONSTANTS
  Scripts <- MCScripts
  Missing = {"nosuch"}
  Filters = {"filter"}
  Producers = {"producer"}
  Garbage = {0, 1, 3, 99}
  MaxDescriptor = 7
  MaxProcesses = 4
  MaxForkFailures = 2
  MaxReads = 3
SPECIFICATION FairSpec
INVARIANTS
  TypeOK
  UnreapedChildren
  PipesClosed
  RedirectionsHold
  LinesRunOnce
PROPERTIES
  PromptReturns
  BatchEnds
CHECK_DEADLOCK FALSE
