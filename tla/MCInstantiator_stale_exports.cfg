CONSTANTS
  Modules <- MCStaleModules
  HostFuncs <- MCHostFuncs
  HostMems <- MCHostMems
  HostTables <- MCHostTables
  HostGlobals <- MCHostGlobals
  PageSize = 2
  IntWidth = 8
  ExportNames = {"run", "imp", "mem"}
  MaxLoads = 2
SPECIFICATION Spec
INVARIANT InvokeRunsLoadedExport
