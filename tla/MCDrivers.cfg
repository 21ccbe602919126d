CONSTANTS
  Parts = {"ddl", "duckdb", "opengauss", "buffered", "calls", "csv"}
  DdlNames = {x1, x2, x3}
  DdlTypes = {"t", "u"}
  DdlDefaults = {"", "d"}
  DdlComments = {"", "x"}
  DdlDialects = {"duckdb", "opengauss", "clickhouse", "tdengine"}
  DuStart = 1
  DuRows = 3
  DuPage = 2
  DuExportRows = 1
  DuMaxRows <- MCDuRows
  DuReaders = 1
  DuJobs = 2
  OgStart = 1
  OgRows = 3
  OgPage = 2
  OgMaxRows <- MCOgRows
  OgSaves = {"s"}
  OgTxs = 2
  OgJobs = 2
  OgDepth = 1
  BdKinds = {"clickhouse", "tdengine"}
  BdConns = {c1, c2}
  BdDatabases = {x1, x2}
  BdRows = 2
  BdDefault = 3
  BdMaxRows <- MCBdRows
  DvDrivers = {"duckdb", "opengauss", "clickhouse", "tdengine"}
  DvConfigs <- MCConfigs
  DvDatabases = {"d"}
  DvMethods = {"ddl/build", "tx/savepoint"}
  DvMaxConns = 2
  CvColumns <- MCColumns
  CvTexts <- MCTexts
  CvNulls <- MCNulls
  CvIncludes <- MCIncludes
  CvExcludes <- MCExcludes
  CvRows = 2
SYMMETRY DriverSymmetry
SPECIFICATION Spec
CHECK_DEADLOCK FALSE
INVARIANTS
  
  ConnectionsSafe
  ExportsSafe
PROPERTIES
  RowsSafe
