\* One worker and one connection.
CONSTANTS
  w1 = w1
  w2 = w2
  Workers = {w1}
  cellAmount = 1
  MaxClients = 1
  Lines <- NoLines
  Hangups = {}
  HeapSize = 2
  SpuriousWakeups = {}
  Texts = {}
SPECIFICATION Spec
INVARIANT NowQueueIsNotEmpty
CHECK_DEADLOCK FALSE
