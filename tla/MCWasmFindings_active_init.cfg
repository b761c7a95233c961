CONSTANTS
  Types <- MCTypes
  Funcs <- ActiveInitFuncs
  Exports <- RunExports
  Names = {"run"}
  Args = {1, 3}
  ArgCounts = {0, 1}
  HostResults = {0}
  IntWidth = 8
  PageSize = 4
  InitPages = 1
  HasMax = FALSE
  MaxPages = 2
  AllocLimit = 8
  MaxCallDepth = 3
  MaxInvokes = 1
  DataSegs <- MCDataSegs
  GlobalDefs <- NoGlobals
  TableDefs <- NoTables
  TableAllocLimit = 4
  UBOutcomes = {"stale"}
SPECIFICATION Spec
PROPERTY ImplementsWasm
CHECK_DEADLOCK FALSE
