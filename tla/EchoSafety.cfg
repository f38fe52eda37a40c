\* Two workers, a buffer of one cell, three connections: every interleaving.
CONSTANTS
  w1 = w1
  w2 = w2
  Workers = {w1, w2}
  cellAmount = 1
  MaxClients = 3
  Lines <- NoLines
  Hangups = {}
  HeapSize = 6
  SpuriousWakeups = {}
  Texts = {}
SPECIFICATION Spec
SYMMETRY Symmetry
INVARIANTS
  TypeOK
  OneThreadPerQueue
  NoLostJobWakeup
  NoLostLogWakeup
  OnePlacePerClient
PROPERTY JobQueueIsFifo
CHECK_DEADLOCK FALSE
