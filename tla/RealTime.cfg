SPECIFICATION MCSpec
CONSTANTS
  MaxDim = 5
  IndexCalls <- NoCalls
  Orders <- NoCalls
  ProductCalls <- NoCalls
  SliceCalls <- NoCalls
  PolCalls <- NoCalls
  MomentCalls <- NoCalls
  KronCalls <- NoCalls
  Jobs <- MCJobs
  MaxThreads = 2
  Huge = 9000
  FreedStarts <- MCFreed
INVARIANT
  LambdaIsTheSumOfSquares
