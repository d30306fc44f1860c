SPECIFICATION Spec
CONSTANTS
  HostBits = 24
  ByteBits = 2
  NarrowBits = 6
  CounterBits = 12
  FloatMax = 4095
  Records <- MCRecords
  Finites <- MCFinites
  MaxSequence = 2
  MaxLanes = 2
  MaxIterations = 2
  MaxGrant = 2
  Programs <- VectorPrograms
  Requests <- MCRequests
  Realizations = {"cranelift", "llvm", "c11"}
  MaxBudget = 80
  MaxDepth = 3
  LargeWork = 2
  Reuse = TRUE
  ArenaHalves = 60
  CopyWordCap = 12
  WasmHalves = 62
  RegionTempCapWords = 12
  WasmStepsPerBudget = 2
INVARIANT CallRegionsPreserveResults
CHECK_DEADLOCK FALSE
