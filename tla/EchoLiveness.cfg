\* Two workers that share a log queue of one cell; spurious wakeups.
CONSTANTS
  w1 = w1
  w2 = w2
  Workers = {w1, w2}
  cellAmount = 1
  MaxClients = 2
  Lines <- FirstSendsOne
  Hangups = {}
  HeapSize = 5
  SpuriousWakeups = {}
  Texts = {}
SPECIFICATION FairSpec
PROPERTIES
  EveryClientServed
  EveryEntryLogged
CHECK_DEADLOCK FALSE
