\* One worker and a buffer of two cells.
CONSTANTS
  w1 = w1
  w2 = w2
  Workers = {w1}
  cellAmount = 2
  MaxClients = 2
  Lines <- NoLines
  Hangups = {}
  HeapSize = 4
  SpuriousWakeups = {}
  Texts = {}
SPECIFICATION Spec
INVARIANT QueuedNodesAreNotFreed
CHECK_DEADLOCK FALSE
