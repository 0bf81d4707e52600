CONSTANTS
\* The limits of tcComms.h, scaled down: 250000, 50, 100 and 0.25.
  Symbols <- MCSymbols
  Overlaps = FALSE
  MaxReqSize = 7
  MaxSingleGap = 2
  MinRelGap = 2
  RelGap = 4
  MaxSymbols = 5
  MemorySize = 12
  Sizes = {1, 2, 8}
  Files <- MCFiles
  None = None
  Aliases = {"C1"}
  Rates <- MCRates
  MaxLoads = 2
  MaxCommands = 2
  TpyGrammars <- MCTpyGrammars
  SubstGrammars <- MCSubstGrammars
  MaxLeaves = 3
  MayBeEmpty = {"BitSize", "Elements", "Alias"}
  CDataIn = {"Value"}
  UnknownIn = {"PlcProjectInfo", "AdsInfo", "CompilerInfo", "Substitution", "Symbol",
               "Value"}
  Hidden = {"Name"}
  Projects <- MCProjects
  Options <- MCOptions
  MaxName = 3
  ArrayParts = {"ARRAY2", "SUBARRAY"}
  MaxFailures = 1
  Declarations <- MCDeclarations
  Supports <- MCSupports
\* One bit per byte; the lengths of tcIoc's strings are 40 and 65535.
  Byte = 2
  Floats <- MCFloats
  Puts <- MCPuts
  MaxString = 4
  MaxLongString = 6
SPECIFICATION LoadingSpec
\* A list, a document, a database and the shell come to an end.
CHECK_DEADLOCK FALSE
INVARIANTS
  Covered
  RequestsBounded
  LoadedAsSaid
  LinksRight
  MeaningKept
  StoredAsWritten
  SubstitutedAsWritten
  LaidOut
  SplitInOrder
  MembersOfTheirOwn
  EchoIsHarmless
  LimitsAlarm
PROPERTY KeepsScanning
