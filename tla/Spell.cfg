\* Two workers, one cell in the log queue, a client of two words that may
\* leave, a log thread that may wake up unsignalled, dictionaries too short and
\* too long for the array.
CONSTANTS
  w1 = w1
  w2 = w2
  Workers = {w1, w2}
  cellAmount = 1
  MaxClients = 2
  Lines <- TwoWordsThenNone
  Hangups = {1}
  HeapSize = 4
  SpuriousWakeups = {"log"}
  Texts <- EntryTexts
  Dictionaries <- ShortAndLong
  DICTIONARY_LENGTH = 2
  Typed <- FirstWord
SPECIFICATION FairSpellSpec
INVARIANTS
  ResultsInOrder
PROPERTIES
  EveryWordLogged
CHECK_DEADLOCK FALSE
