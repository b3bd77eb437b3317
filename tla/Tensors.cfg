SPECIFICATION MCSpec
CONSTANTS
  MaxDim = 5
  IndexCalls <- IndexCallsDef
  Orders <- OrdersDef
  ProductCalls <- ProductCallsDef
  SliceCalls <- SliceCallsDef
  PolCalls <- PolCallsDef
  MomentCalls <- MomentCallsDef
  KronCalls <- KronCallsDef
  Jobs <- MCJobs
  MaxThreads = 2
  Huge = 9000
  FreedStarts <- MCFreed
INVARIANTS
  IndicesAreComplete
  ProductsAreFaaDiBruno
  PolynomialsAreExact
  RulesAreExact
  SimulationsAreExact
