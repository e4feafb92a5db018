SPECIFICATION GnuSpec
CONSTANTS
  MapReaders = {"LibMemoryMap"}
  InfoReaders = {"LibFileInfo"}
  HandleReaders = {"LibLocateProtocol", "LibLocateHandleByDiskSignature"}
  VariableUsers = {"LibGetVariable", "LibDeleteVariable", "LibInsertToTailOfBootOrder"}
  Elements = {11, 12, 13}
  MaxLength = 3
  FirstSize = 1
  Ids = {1, 2, 3}
  MaxChanges = 2
  SomePaths <- HandlePaths
  InstallLists <- SmallInstalls
  ReinstallLists <- SmallReinstalls
  Databases <- SmallDatabases
  Keys = {"a", "b", "BS", "CR", "ESC"}
  StrLens = {1, 2, 3}
  MaxKeys = 4
  MaxTicks = 3
  Paths <- FilePaths
  FileSizes = {0, 1, 3}
  Offsets = {0, 1, 2, 3, 4, 14, 15}
  UintnBits = 4
  PartitionTables <- SmallTables
  LastBlocks = {5, 7, 12}
  MIN_MBR_DEVICE_SIZE = 6
  MBR_ERRATA_PAD = 2
  LbaBits = 4
  Nodes <- SomeNodes
  Tails <- SomeTails
  MaxNodes = 7
  EfiFormats <- SmallEfiFormats
  BehindFormats <- SmallBehind
  Sinks = {"console", "pool", "string"}
  StrUnits = {0, 1, 2, 4, 7}
  PRINT_STRING_LEN = 4
  WidthOf <- SomeWidths
  UintBits = 8
  Uint64Bits = 12
  StringRoom = 20
  MaxPrints = 2
  ImageOptions <- SmallLoadOptions
  MAX_CMDLINE_SIZE = 4
  MAX_CMDLINE_ARGC = 2
  MaxCalls = 2
  Locks = {"L1", "L2", "L3"}
  LockTpl <- TwoLevels
  HandlerTpls = {8, 16}
  TplApplication = 4
  MaxNesting = 2
  Subjects <- ShortStrings
  PatternItems <- ItemSeqs
  BehindPattern <- BehindNothingOrStar
  LoadBases = {0, 7}
  LinkedImages <- SmallImages
  TableAt = 4
  ImageWords = 14
  SmbiosTables <- SmallSmbios
  GuidLength = 5
  MissingBytes = {0, 4}
INVARIANT AnswersWhole
PROPERTY QuestionsEnd
INVARIANT HandlesFound
INVARIANT AllOrNothing
INVARIANT InputKept
INVARIANT FilesRead
INVARIANT VerdictSound
INVARIANT RelocatedWhereNamed
INVARIANT PrintArrives
INVARIANT PathsAndTextsAsMeant
INVARIANT LocksKept
\* Every part ends.
CHECK_DEADLOCK FALSE
