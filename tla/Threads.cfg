SPECIFICATION MCSpec
CONSTANTS
  N = 3
  max_parallel_threads = 2
  Adds = 2
  Callers = {"main"}
  Arguments <- ArgumentsDef
  Calls = 3
INVARIANTS
  NeverTooMany
  GroupOutlivesItsThreads
  ResultIsComplete
  NoverkIsBinomial
PROPERTY
  RunReturns
