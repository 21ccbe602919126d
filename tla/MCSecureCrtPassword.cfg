CONSTANTS
  Parts = {"securecrt"}
  RdDatabases = {0, 1}
  RdPipelines <- MCPipelines
  RdFaults = 2
  RdRequests = 2
  RdChannels = {"c"}
  RdCapacity = 1
  RdControls = 1
  RdMessages = 3
  MgDrivers = {"modern", "legacy", "3.2"}
  MgUris <- MCUris
  MgServers <- MCServers
  MgDocuments = {0, 1}
  MgSize = 2
  MgInline = 2
  MgFinds = 2
  MgReads = {1, 2}
  DcSchemas = {"s1", "s2"}
  DcNames = {"a", "b"}
  DcIndexes = {"i"}
  DcMax = 4
  TcNames = {"a", "b", "c"}
  TcChanges = 2
  SrDrivers = {"opengauss", "clickhouse", "tdengine"}
  SrNames = {a}
  SrSchemas = {"public", "s"}
  SrMax = 2
  SrChanges = 2
  SrLength = 2
  HhCandidates <- MCHhCandidates
  HhDisks <- MCHhDisks
  HhRewrites <- MCHhRewrites
  HhPlain <- MCHhPlain
  HhObjects <- MCHhObjects
  MxCandidates <- MCMxCandidates
  MxSchemes <- MCSchemes
  MxMaxFiles = 2
  MxMaxDepth = 1
  MxMaxSessions = 2
  OsFiles <- MCOsFiles
  OsSlugs <- MCSlugs
  ScCandidates <- MCScCandidates
  ScNames <- MCScNames
  ScRank <- MCScRank
  ScCiphers <- MCScCiphers
  ScMaxFiles = 3
  ScMaxDepth = 3
  SxPath = "x"
  SxDocuments <- MCSxDocuments
  SxFlat <- MCSxFlat
  SxCredentials <- MCSxCreds
  SxInclude = TRUE
  SxMaxDepth = 2
  Width = 2
  Height = 3
  Sizes <- OneSize
  Colors = {c1, c2}
  Marks = {}
  Texts = {}
  MaxSends = 3
  Cap = 2
  MaxMergedRects = 8
  MaxPendingEvents = 2
  MaxPendingScreens = 1
  None = None
  CcGens = 3
  CcLists <- MCLists
  CcChunk = 1
  CcMaxFile = 3
  CcMaxTotal = 3
  CcMask = 4
  CcFaults = 1
  ShFiles = {f, g}
  ShLocks = {"k"}
  ShSizes = {1, 2}
  ShOffers = 2
  ShEdits = 1
  ShChunk = 1
  LyNames <- MCFileNames
  LyBad <- MCBadNames
  LyUnits <- MCUnits
  LyWire = 4
  LyDepth = 2
  LyCount = 3
  LyMaxFile = 1
  LyMaxTotal = 1
  LySizes = {1, 2}
  LyNodes = 3
SPECIFICATION PartsSpec
CHECK_DEADLOCK FALSE
INVARIANT
  CiphertextStaysInside
