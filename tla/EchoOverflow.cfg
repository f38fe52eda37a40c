\* One worker and a buffer of one cell.
CONSTANTS
  w1 = w1
  w2 = w2
  Workers = {w1}
  cellAmount = 1
  MaxClients = 3
  Lines <- NoLines
  Hangups = {}
  HeapSize = 6
  SpuriousWakeups = {}
  Texts = {}
SPECIFICATION Spec
INVARIANT FixedSizedBuffer
CHECK_DEADLOCK FALSE
