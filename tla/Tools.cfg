\* Lines of up to six tokens, three processes starting or ending, two copies.
CONSTANTS
  Tokens = {"w", "&", "|", "<", ">", ">>"}
  MaxTokens = 6
  Pids <- MCPids
  OneDigit <- MCOneDigit
  NumberOf <- MCNumberOf
  LongWords = {"long"}
  StatusLines <- MCStatusLines
  Kinds <- MCKinds
  Populations <- MCPopulations
  MaxEvents = 3
  MaxOpen = 7
  MaxArgs <- MCMaxArgs
  CopyDirectories <- MCCopyDirectories
  Names <- MCNames
  FileOf <- MCFileOf
  PathFrom <- MCPathFrom
  DirectoryOf <- MCDirectoryOf
  LengthOf <- MCLengthOf
  SlashesOf <- MCSlashesOf
  ShortOf <- MCShortOf
  CopyLines <- MCCopyLines
  Disks <- MCDisks
  MaxInvocations = 2
  Tree <- MCTree
  TreeDirectories <- MCTreeDirectories
  ListLines <- MCListLines
  Meanings <- MCMeanings
  Locked <- MCLocked
  MaxDirs = 2
  TooLong <- MCTooLong
SPECIFICATION Spec
INVARIANTS
  LinesParse
  ListingsAreComplete
  CrashesHaveReasons
  CopiesAreComplete
CHECK_DEADLOCK FALSE
