SPECIFICATION Spec
CONSTANTS
  HostBits = 6
  ByteBits = 2
  CounterBits = 3
  FloatMax = 3
  Records <- MCRecords
  Finites <- MCFinites
  MaxSequence = 2
  MaxLanes = 2
  MaxIterations = 2
  MaxGrant = 2
  Programs <- MCPrograms
  Requests <- MCRequests
  MaxBudget = 20
  MaxDepth = 3
  LargeWork = 2
  Reuse = TRUE
INVARIANTS
  EnginesAgree ValidatedBodiesLower MarkedValuesMatch BudgetBoundsTheWholeRun
  ReportedEffectsAreDeclared FastPathIsGeneral TypesAreSound
CHECK_DEADLOCK FALSE
