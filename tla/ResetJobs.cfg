SPECIFICATION Spec
CONSTANTS
  MaxContexts = 2
  MaxCallbacks = 1
  MaxJobs = 1
INVARIANT NoStaleClosure
CHECK_DEADLOCK FALSE
