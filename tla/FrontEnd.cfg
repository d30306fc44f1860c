SPECIFICATION Spec
CONSTANTS
  HostBits = 8
  ByteBits = 3
  CounterBits = 4
  FloatMax = 7
  Records <- MCRecords
  Finites <- MCFinites
  MaxSequence = 3
  MaxLanes = 2
  MaxIterations = 3
  MaxGrant = 2
  Programs = {}
  Requests <- MCRequests
  MaxBudget = 200
  MaxDepth = 6
  LargeWork = 2
  Numerals <- MCNumerals
  Scalars <- MCScalars
  OtherWidths <- MCNothing
  Rank <- MCRank
  SequenceBound <- MCSequenceBound
  IterationBound <- MCIterationBound
  WorkProduct <- MCWorkProduct
  ExactFloat <- MCExact
  HostBytes = 2
  Floats <- MCFloats
  Versions <- MCVersions
  Supported = {6, 13, 14, 18}
  FloatLimit = 7
  MaxLiteral = 7
  MaxNesting = 16
  Lookahead = 12
  Sources <- MCSources
  TextsOf <- MCTextsOf
INVARIANTS AcceptedIsWhole GroupsByPrecedence ElaboratedBodiesAreValid MeaningIsPreserved
CHECK_DEADLOCK FALSE
