\* One worker and one cell, little memory, a client that leaves without goodbye.
CONSTANTS
  w1 = w1
  w2 = w2
  Workers = {w1}
  cellAmount = 1
  MaxClients = 3
  Lines <- OneLine
  Hangups = {2}
  HeapSize = 5
  SpuriousWakeups = {"log"}
  Texts = {}
SPECIFICATION Spec
INVARIANTS
  SocketsAreAccepted
  BoundedOvershoot
  QueuesIntact
  LogKeepsOrder
CHECK_DEADLOCK FALSE
