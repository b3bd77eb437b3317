SPECIFICATION RaceSpec
CONSTANTS
  N = 2
  max_parallel_threads = 2
  Adds = 1
  Callers = {"a", "b"}
  Arguments <- RaceArguments
  Calls = 2
INVARIANT
  ElementExists
