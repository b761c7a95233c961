CONSTANTS
  Types <- MCTypes
  Funcs <- MCFuncs
  Exports <- MCExports
  Names <- MCNames
  Args <- MCArgs
  ArgCounts = {0, 1}
  HostResults = {0, 4}
  IntWidth = 8
  PageSize = 4
  InitPages = 1
  HasMax = TRUE
  MaxPages = 2
  AllocLimit = 64
  MaxCallDepth = 3
  MaxInvokes = 2
  DataSegs <- MCDataSegs
  GlobalDefs <- MCGlobalDefs
  TableDefs <- MCTableDefs
  TableAllocLimit = 4
  UBOutcomes = {"stale"}
SPECIFICATION Spec
INVARIANT TypeOK
INVARIANT FrameIsolation
INVARIANT ResultsMatchType
PROPERTY InvocationEnds
PROPERTY ImplementsWasm
CHECK_DEADLOCK FALSE
