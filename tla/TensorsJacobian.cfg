SPECIFICATION MCSpec
CONSTANTS
  MaxDim = 5
  IndexCalls <- NoCalls
  Orders <- NoCalls
  ProductCalls <- NoCalls
  SliceCalls <- NoCalls
  PolCalls <- PolCallsDef
  MomentCalls <- NoCalls
  KronCalls <- NoCalls
  Jobs <- NoCalls
  MaxThreads = 2
  Huge = 9000
  FreedStarts <- MCFreed
INVARIANT
  JacobianIsTheGradient
