CONSTANTS
  BlockCalls <- MCBlockCalls
  ModelCalls <- MCModelCalls
  PathCalls <- MCPathCalls
  PlanCalls <- MCPlanCalls
  SparseCalls <- MCSparseCalls
  StackCalls <- MCStackCalls
  LineCalls <- MCLineCalls
  QuadratureCalls <- MCQuadratureCalls
  Methods <- MCMethods
  Residuals <- MCResiduals
  Sums = {0}
  maxit_ = 3
  Tenth = 1
  Tiny = 3
  Problems <- MCProblems
  Threads = {t1, t2}
  OneSize = 3
  TwoSize = 2
  PeriodsSet = {8, 18}
  Seeds = {0, 1, 2}
SPECIFICATION MCSpec
INVARIANTS
  BytecodeMeansTheModel
  SearchesAreSafe
  QuadraturesAreExact
  SolverStateIsSound
  StackedProblemIsExact
  SystemsAreSolvedExactly
PROPERTY
  NewtonEnds
