CONSTANTS
  Types <- MCTypes
  Funcs <- LoopResultFuncs
  Exports <- RunExports
  Names = {"run"}
  Args = {1}
  ArgCounts = {1}
  HostResults = {0}
  IntWidth = 8
  PageSize = 4
  InitPages = 1
  HasMax = TRUE
  MaxPages = 2
  AllocLimit = 8
  MaxCallDepth = 3
  MaxInvokes = 1
  DataSegs <- NoDataSegs
  GlobalDefs <- NoGlobals
  TableDefs <- NoTables
  TableAllocLimit = 4
  UBOutcomes = {"stale"}
SPECIFICATION Spec
INVARIANT FrameIsolation
CHECK_DEADLOCK FALSE
