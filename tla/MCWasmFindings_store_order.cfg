CONSTANTS
  Types <- MCTypes
  Funcs <- StoreOrderFuncs
  Exports <- RunExports
  Names = {"run"}
  Args = {0}
  ArgCounts = {0}
  HostResults = {0}
  IntWidth = 8
  PageSize = 4
  InitPages = 2
  HasMax = TRUE
  MaxPages = 2
  AllocLimit = 8
  MaxCallDepth = 3
  MaxInvokes = 1
  DataSegs <- NoDataSegs
  GlobalDefs <- NoGlobals
  TableDefs <- NoTables
  TableAllocLimit = 4
  UBOutcomes = {"stale"}
SPECIFICATION Spec
PROPERTY ImplementsWasm
CHECK_DEADLOCK FALSE
